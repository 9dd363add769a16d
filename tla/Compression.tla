---------------------------- MODULE Compression ----------------------------
(***************************************************************************)
(* Compression of a text attachment that was stored as plain text.  Every  *)
(* admin process looks at it when it starts, writes the compressed text to *)
(* a file beside it and renames that over it.  Names refer to files, and a *)
(* process keeps the file that it has opened whatever its name becomes.    *)
(***************************************************************************)
EXTENDS Integers, FiniteSets

CONSTANTS
    Compressors,   \* admin processes
    MaxFiles,      \* bound: files ever created
    Nothing

ASSUME CompressionAssumption == MaxFiles \in Nat \ {0} /\ Nothing \notin 0 .. MaxFiles

VARIABLES
    path,          \* the file that the attachment's name refers to
    beside,        \* the file that the temporary name refers to
    content,       \* what is in each file
    created,       \* files created so far
    work,          \* how far each process is
    collided       \* a process has opened or removed a file that another was writing

compressionVars == <<path, beside, content, created, work, collided>>

\* What a file holds: the text, or what compressing a text gives; "torn" is anything else.
Contents == {"plain", "torn", "compressed plain", "compressed torn"}

Resting == [op |-> "resting"]

CompressionInit ==
    /\ path = 0 /\ beside = Nothing
    /\ content = [f \in 0 .. MaxFiles |-> IF f = 0 THEN "plain" ELSE "torn"]
    /\ created = 0
    /\ work = [p \in Compressors |-> Resting]
    /\ collided = FALSE

Compressed(text) == IF text = "plain" THEN "compressed plain" ELSE "compressed torn"

\* compress_in_place reads the attachment; one that begins like a compressed file is left alone, and
\* so may a torn one that begins like one.
ReadAttachment(p) ==
    /\ work[p] = Resting
    /\ content[path] \in {"plain", "torn"}
    /\ work' = [work EXCEPT ![p] = [op |-> "read", text |-> content[path]]]
    /\ UNCHANGED <<path, beside, content, created, collided>>

Writing(p, f) == work[p].op \in {"opened", "written"} /\ work[p].file = f

\* It opens the temporary name: a file that is there already is emptied.
OpenBeside(p) ==
    /\ work[p].op = "read"
    /\ \E f \in 0 .. MaxFiles :
          /\ IF beside = Nothing
             THEN created < MaxFiles /\ f = created + 1 /\ created' = f
             ELSE f = beside /\ UNCHANGED created
          /\ beside' = f
          /\ content' = [content EXCEPT ![f] = "torn"]
          /\ work' = [work EXCEPT ![p] = [op |-> "opened", text |-> @.text, file |-> f]]
          /\ collided' = (collided \/ \E q \in Compressors \ {p} : Writing(q, f))
    /\ UNCHANGED path

\* All of the compressed text is written and synchronised.
WriteBeside(p) ==
    /\ work[p].op = "opened"
    /\ content' = [content EXCEPT ![work[p].file] = Compressed(work[p].text)]
    /\ work' = [work EXCEPT ![p] = [@ EXCEPT !.op = "written"]]
    /\ UNCHANGED <<path, beside, created, collided>>

\* Mutant: the rename does not wait for the text.
RenameBesideUnwritten(p) ==
    /\ work[p].op \in {"opened", "written"}
    /\ path' = IF beside = Nothing THEN path ELSE beside
    /\ beside' = Nothing
    /\ work' = [work EXCEPT ![p] = Resting]
    /\ UNCHANGED <<content, created, collided>>

\* The rename replaces the attachment by what the temporary name refers to; it fails when another
\* process has renamed it, and then the name is removed in case there is a file again.
RenameBeside(p) ==
    /\ work[p].op = "written"
    /\ path' = IF beside = Nothing THEN path ELSE beside
    /\ beside' = Nothing
    /\ work' = [work EXCEPT ![p] = Resting]
    /\ UNCHANGED <<content, created, collided>>

\* Opening or writing fails, and the temporary name is removed.
FailWriting(p) ==
    /\ work[p].op \in {"read", "opened"}
    /\ beside' = Nothing
    /\ work' = [work EXCEPT ![p] = Resting]
    /\ collided' = (collided \/ \E q \in Compressors \ {p} : Writing(q, beside))
    /\ UNCHANGED <<path, content, created>>

\* The process dies at any point and starts again.
DieCompressing(p) ==
    /\ work[p] # Resting
    /\ work' = [work EXCEPT ![p] = Resting]
    /\ UNCHANGED <<path, beside, content, created, collided>>

CompressionNext ==
    \E p \in Compressors :
        \/ ReadAttachment(p) \/ OpenBeside(p) \/ WriteBeside(p) \/ RenameBeside(p)
        \/ FailWriting(p) \/ DieCompressing(p)

CompressionSpec == CompressionInit /\ [][CompressionNext]_compressionVars

-----------------------------------------------------------------------------
(* Properties *)

\* Every variable has its type; files have names only once they were created.
CompressionTypes ==
    /\ created \in 0 .. MaxFiles /\ path \in 0 .. created /\ beside \in (0 .. created) \cup {Nothing}
    /\ content \in [0 .. MaxFiles -> Contents] /\ collided \in BOOLEAN
    /\ work \in [Compressors ->
          {Resting} \cup [op : {"read"}, text : {"plain", "torn"}]
                    \cup [op : {"opened", "written"}, text : {"plain", "torn"}, file : 0 .. MaxFiles]]

\* The inductive invariant: until two processes collide, one at most is writing, and writes what the
\* temporary name refers to, which is not the attachment.
CompressionInv ==
    /\ CompressionTypes
    /\ collided \/
       /\ content[path] \in {"plain", "compressed plain"} /\ beside # path
       /\ \A p, q \in Compressors : \A f, g \in 0 .. MaxFiles :
              Writing(p, f) /\ Writing(q, g) => p = q /\ f = beside
       /\ \A p \in Compressors : work[p] # Resting => work[p].text = "plain"
       /\ \A p \in Compressors :
              work[p].op = "written" => content[work[p].file] = "compressed plain"

\* Whoever reads the attachment finds the text or the compressed text, whenever processes die
\* (compress_in_place); the only exception is that one process has opened or removed the temporary
\* file while another was writing it, which is possible because every process uses the same name.
ReaderSeesOneOrTheOther == content[path] \in {"plain", "compressed plain"} \/ collided
=============================================================================
