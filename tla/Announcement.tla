---------------------------- MODULE Announcement ----------------------------
(***************************************************************************)
(* The message about a report that is sent to Discord, as far as its size  *)
(* and what it leaves out go.  Texts are the numbers of their characters.  *)
(* Clients choose what is in a report; administrators choose how much of a *)
(* stack is shown.  Frame numbers are those of a 32-bit unsigned integer   *)
(* in which LastNumber is the last.                                        *)
(***************************************************************************)
EXTENDS StackTraces, FiniteSetsExt

CONSTANTS
    LastNumber,
    Layouts,              \* stack_trace_lines and stack_trace_characters
    Reported,             \* what reports consist of besides their stacks
    Symbols,              \* what frames have, in StackTraces
    SymbolCharacters,     \* of a symbol that a client wrote
    LongLine,             \* characters of a line that is no frame
    RepositoryCharacters  \* of the name of the repository

\* What validation lets into a report: a version of up to 256 characters, and a commit only where it is
\* a commit ID.  The name of a repository is as long as GitHub allows, which the program does not
\* check; the lines that are parsed are fewer than the numbers.
ASSUME AnnouncementAssumption ==
    /\ LastNumber \in Nat \ {0} /\ MaxRenderedLines <= LastNumber
    /\ SymbolCharacters \in Nat \ {0} /\ LongLine \in Nat /\ RepositoryCharacters \in 1 .. 140
    /\ \A l \in Layouts : l.lines \in 1 .. 100 /\ l.characters \in 256 .. 3500
    /\ Absent \notin Symbols
    /\ \A r \in Reported :
          /\ r.kind \in {"crash", "web_compat"}
          /\ r.version \in 1 .. 256 /\ r.commit \in {Absent} \cup 7 .. 64
          /\ \A characters \in {r.url, r.build, r.platform, r.architecture, r.process, r.signal, r.number,
                                r.description} : characters \in {Absent} \cup Nat
          /\ r.failure # Absent => \A characters \in {r.failure.directory, r.failure.file, r.failure.line,
                                                    r.failure.expression} : characters \in Nat

VARIABLES
    layout,    \* the configuration of the message
    about,     \* the report's version, build, fields and title
    trace      \* its stack, as in StackTraces; empty when it has none

announcementVars == <<layout, about, trace>>

Lesser(a, b) == IF a < b THEN a ELSE b
Greater(a, b) == IF a > b THEN a ELSE b
NumberCharacters(n) == IF n = LastNumber THEN 10 ELSE 1

-----------------------------------------------------------------------------
(* generate_report_title *)

MaxTitleCharacters == 120
KindCharacters(kind) == IF kind = "crash" THEN 5 ELSE 17

\* source_location_from_failure: the directory too, unless the name is long already.
LocationCharacters(reason) ==
    (IF reason.directory + reason.file < 80 THEN reason.directory + 1 ELSE 0)
        + reason.file + 1 + reason.line

\* failed_expression, cut to the room there is; 0 when there is none.
ExpressionCharacters(reason, room) ==
    IF Lesser(room, 60) < 10 THEN 0 ELSE Lesser(reason.expression, Lesser(room, 60))

\* safe_context, with what is put between two values.
ContextCharacters(characters) == IF characters = Absent THEN 0 ELSE Lesser(characters, 40) + 3

HasRelevantFrames(rows) == \E i \in DOMAIN rows : rows[i].relevant

TitleCharacters ==
    LET kind == KindCharacters(about.kind)
        context == ContextCharacters(about.process) + ContextCharacters(about.platform)
                       + ContextCharacters(about.signal)
    IN  IF about.kind = "crash" /\ about.failure # Absent
        THEN LET title == kind + 2 + LocationCharacters(about.failure)
                 expression == ExpressionCharacters(about.failure,
                                   Greater(0, MaxTitleCharacters - (title + 4)))
             IN  title + IF expression = 0 THEN 0 ELSE 3 + expression
        ELSE IF about.kind = "web_compat" /\ about.url # Absent
        THEN kind + 2 + Lesser(about.url, MaxTitleCharacters - kind - 2)
        ELSE IF HasRelevantFrames(ParseStackTrace(trace).rows)
        THEN kind + 2 + Lesser(SymbolCharacters, MaxTitleCharacters - kind - 2)
        ELSE kind + 10 + IF context > 0 THEN context - 3 ELSE Lesser(about.version, 60)

-----------------------------------------------------------------------------
(* stack_description *)

TruncateText(characters, maximum) == Lesser(characters, maximum)

\* What a line of a stack takes as the client wrote it; one that is no frame may be anything.
LineCharacters(line) ==
    IF line.is # "frame" THEN LongLine ELSE IF line.symbol = Absent THEN 60 ELSE 60 + SymbolCharacters

AddLine(sum, line) == sum + LineCharacters(line)

RawStackDescription(text) ==
    LET selected == First(layout.lines, text)
        characters == FoldLeft(AddLine, Len(selected) - 1, selected)
        excerpt == TruncateText(characters, layout.characters)
        cut == characters > layout.characters
    IN  [characters |-> 24 + excerpt + (IF Len(text) > Len(selected) /\ ~cut THEN 1 ELSE 0) + 4,
         marked |-> cut \/ Len(text) > Len(selected), whole |-> ~cut /\ Len(selected) = Len(text)]

\* A line of the preview: a frame, or a run of frames without a symbol whose numbers follow.
AddFrame(runs, row) ==
    IF /\ row.unavailable /\ runs # <<>>
       /\ Last(runs).symbol = Absent /\ (Last(runs).last + 1) % (LastNumber + 1) = row.number
    THEN Append(Front(runs), [Last(runs) EXCEPT !.last = row.number])
    ELSE Append(runs, [first |-> row.number, last |-> row.number,
                       symbol |-> IF row.unavailable THEN Absent
                                  ELSE TruncateText(SymbolCharacters, 96)])

\* Where some frames are relevant, the others are skipped, except the top one.
Skipped(rows, row) == row.number # Absent /\ HasRelevantFrames(rows) /\ ~row.top /\ ~row.relevant

AddRun(rows, runs, row) ==
    IF row.number = Absent \/ Skipped(rows, row) THEN runs ELSE AddFrame(runs, row)

Runs(rows) == FoldLeft(LAMBDA runs, row : AddRun(rows, runs, row), <<>>, rows)

\* Mutant: a run counts as one frame.
FrameCountOfLine(run) == 1

\* PreviewLine::frame_count, in 32 bits.
FrameCount(run) == ((run.last - run.first) % (LastNumber + 1)) + 1

\* PreviewLine::render
Rendered(run) ==
    1 + NumberCharacters(run.first) + (IF run.first = run.last THEN 0 ELSE 2 + NumberCharacters(run.last))
      + (IF run.symbol = Absent THEN 11 ELSE run.symbol) + 6

MoreFrames == 33

Fits(shown, run) == shown.characters + Rendered(run) + MoreFrames <= layout.characters

Show(shown, run) ==
    IF shown.full \/ shown.lines >= layout.lines \/ ~Fits(shown, run)
    THEN [shown EXCEPT !.full = TRUE]
    ELSE [shown EXCEPT !.characters = @ + Rendered(run), !.lines = @ + 1,
                       !.frames = @ + FrameCount(run)]

NothingShown == [characters |-> 16, lines |-> 0, frames |-> 0, full |-> FALSE]

Preview(runs) == FoldLeft(Show, NothingShown, runs)

StackDescription(text) ==
    LET parsed == ParseStackTrace(text)
        runs == Runs(parsed.rows)
        shown == Preview(runs)
        more == parsed.frameCount > shown.frames \/ parsed.truncated
    IN  IF shown.lines = 0 THEN RawStackDescription(text)
        ELSE [characters |-> shown.characters + (IF more THEN MoreFrames ELSE -1),
              marked |-> more,
              whole |-> /\ \A i \in DOMAIN parsed.rows : ~Skipped(parsed.rows, parsed.rows[i])
                        /\ shown.lines = Len(runs) /\ ~parsed.truncated]

-----------------------------------------------------------------------------
(* report_message *)

Description ==
    IF trace # <<>> THEN StackDescription(trace)
    ELSE [characters |-> IF about.description = Absent THEN 33
                         ELSE 16 + TruncateText(about.description, 2000),
          marked |-> FALSE, whole |-> TRUE]

\* A field of the message, in a sequence that is empty when the report does not have it.
Field(name, characters, maximum) ==
    IF characters = Absent THEN <<>> ELSE <<[name |-> name, value |-> TruncateText(characters, maximum)]>>

\* What is empty is not shown, in some of the fields.
Filled(characters) == IF characters = 0 THEN Absent ELSE characters

\* commit_field, a link that holds the commit's identifier twice.
CommitField ==
    IF about.commit = Absent THEN <<>>
    ELSE <<[name |-> 6, value |-> 1 + 7 + 2 + 19 + RepositoryCharacters + 8 + about.commit + 1]>>

\* signal_field, of a name, a number or both.
SignalField ==
    IF Filled(about.signal) = Absent THEN Field(6, Filled(about.number), 32)
    ELSE IF Filled(about.number) = Absent THEN Field(6, about.signal, 200)
    ELSE <<[name |-> 6,
            value |-> TruncateText(about.signal, 200) + 3 + TruncateText(about.number, 32)]>>

\* page_url_field, quoted.
PageUrlField ==
    IF Filled(about.url) = Absent THEN <<>> ELSE <<[name |-> 8, value |-> 2 + TruncateText(about.url, 1000)]>>

Fields ==
    Field(7, about.version, 256) \o Field(5, Filled(about.build), 512) \o CommitField
        \o Field(8, about.platform, 256) \o Field(12, about.architecture, 256)
        \o SignalField \o PageUrlField

Message == [title |-> TruncateText(TitleCharacters, 256), description |-> Description, fields |-> Fields]

-----------------------------------------------------------------------------
(* The report and its stack, line by line *)

AnnouncementInit == layout \in Layouts /\ about \in Reported /\ trace = <<>>

\* Frames are numbered by the client: from any number, one after the other or not.
NextNumbers ==
    LET frames == {i \in DOMAIN trace : trace[i].is = "frame"}
    IN  {0} \cup IF frames = {} THEN {LastNumber}
                 ELSE {(trace[Max(frames)].number + 1) % (LastNumber + 1)}

WriteLine ==
    /\ Len(trace) < MaxLines
    /\ \E line \in {Header, Text} \cup {Frame(number, Absent, "address", symbol) :
                                          number \in NextNumbers, symbol \in Symbols \cup {Absent}} :
          trace' = Append(trace, line)
    /\ UNCHANGED <<layout, about>>

AnnouncementSpec == AnnouncementInit /\ [][WriteLine]_announcementVars

-----------------------------------------------------------------------------
(* Property *)

AddField(sum, field) == sum + field.name + field.value

TotalCharacters(m) == m.title + m.description.characters + FoldLeft(AddField, 0, m.fields)

\* A client may send an empty platform or architecture, which are shown as they are.
SentEmpty == 0 \in {about.platform, about.architecture}

\* The value of a field is not too long, nor empty unless it was sent so.
Accepted(characters) == characters <= 1024 /\ (characters > 0 \/ SentEmpty)

\* Each part of a message is within its limit, so is all of it, and it says when frames are left out.
Deliverable(m) ==
    /\ m.title <= 256 /\ m.description.characters <= 4096
    /\ \A i \in DOMAIN m.fields : Accepted(m.fields[i].value)
    /\ layout.characters + RepositoryCharacters + 2956 <= 6000 => TotalCharacters(m) <= 6000
    /\ m.description.marked <=> ~m.description.whole

\* Discord accepts the message, whatever else clients put in a report: each part is within its limit
\* (page_url_field names one), no field is empty, and all of it is as long as
\* stack_trace_characters, which is 3000 by default and may be raised by 500 more, leaves 2956
\* characters besides the name of the repository.  And a stack some of whose frames are left out
\* says so (stack_description).
MessageFits == Deliverable(Message)
=============================================================================
