---------------------------- MODULE StackTraces ----------------------------
(***************************************************************************)
(* Stack traces and what identifies a crash.  Two clients report the same  *)
(* crash, each with its own symbolizer, machine and build: a function may  *)
(* be written as its bare name, with its path, template arguments and      *)
(* parameters, or mangled, with an offset or a mark of inlining; the       *)
(* machinery around the crash varies; and some frames carry no symbol.  A  *)
(* symbol is a sequence of tokens: names, and what stands between them.    *)
(***************************************************************************)
EXTENDS Integers, Sequences, SequencesExt

CONSTANTS
    Functions,          \* functions of the program
    Words,              \* names of functions, namespaces and types
    Builds,             \* build IDs
    Styles,             \* how clients write symbols
    MaxRenderedLines, MaxSignatureFrames, SignatureFrames, SignatureAddresses,
    MaxLines,           \* bound: lines of a stack
    Absent

ASSUME StackTracesAssumption ==
    /\ {MaxRenderedLines, MaxSignatureFrames, SignatureFrames, SignatureAddresses, MaxLines}
          \subseteq Nat \ {0}
    /\ SignatureFrames <= MaxSignatureFrames
    /\ Absent \notin Nat

VARIABLES
    client,    \* each client: its style, its build, and the failure reason and signal as it wrote them
    stack      \* the stack as each client wrote it

stackVars == <<client, stack>>

-----------------------------------------------------------------------------
(* parse_stack_trace *)

Offset == " + 0x1f"
Inlined == "(inlined) "
Closure == "{closure#0}"
Operator == "operator()"
Opening == {"(", "(anonymous namespace)"}
Mangling == {"_R", "NvNt", "Cs7_", "0"}    \* a prefix, tags, and the disambiguator of a crate
Punctuation == {"::", "<", ">", ")", " ", "at ", Offset, Inlined, Closure, Operator} \cup Opening \cup Mangling

Contained(path, text) ==
    \E n \in 0 .. Len(text) : n + Len(path) <= Len(text) /\ \A i \in DOMAIN path : text[n + i] = path[i]

StartsWith(text, path) == Len(path) <= Len(text) /\ \A i \in DOMAIN path : text[i] = path[i]

BareSymbol(text) ==
    LET symbol == IF text # <<>> /\ text[Len(text)] = Offset THEN SubSeq(text, 1, Len(text) - 1) ELSE text
    IN  IF symbol # <<>> /\ symbol[1] = Inlined THEN Tail(symbol) ELSE symbol

\* Names with what is put between them.
Path(names) ==
    [n \in 1 .. 2 * Len(names) - 1 |-> IF n % 2 = 1 THEN names[(n + 1) \div 2] ELSE "::"]

\* All names of a mangled symbol, those of its generic arguments too.
AddName(names, token) == IF token \in Mangling THEN names ELSE Append(names, token)

Demangled(text) == IF text # <<>> /\ text[1] = "_R" THEN Path(FoldLeft(AddName, <<>>, text)) ELSE text

\* The depth in template arguments, and what is outside of them.
NextToken(read, token) ==
    CASE token = "<" -> [read EXCEPT !.depth = @ + 1]
      [] token = ">" /\ read.depth > 0 -> [read EXCEPT !.depth = @ - 1]
      [] OTHER -> IF read.depth = 0 THEN [read EXCEPT !.plain = Append(@, token)] ELSE read

ReadFrom(depth, text) == FoldLeft(NextToken, [depth |-> depth, plain |-> <<>>], text)

\* Mutant: template arguments end with the first bracket that closes one.
WithoutTemplatesUnnested(text) ==
    LET NextUnnested(read, token) ==
            CASE token = "<" -> [read EXCEPT !.depth = 1]
              [] token = ">" -> [read EXCEPT !.depth = 0]
              [] OTHER -> IF read.depth = 0 THEN [read EXCEPT !.plain = Append(@, token)] ELSE read
    IN  FoldLeft(NextUnnested, [depth |-> 0, plain |-> <<>>], text).plain

WithoutTemplates(text) == ReadFrom(0, text).plain

BeforeParameters(plain) ==
    LET open == {n \in DOMAIN plain : plain[n] \in Opening}
    IN  SubSeq(plain, 1, IF open = {} THEN Len(plain) ELSE Min(open) - 1)

\* Where the segments are that a name may be: those of the last word.
Segments(path) ==
    {n \in DOMAIN path :
        /\ path[n] \notin {"::", " ", Closure}
        /\ \A m \in n .. Len(path) : path[m] = " " => \A k \in m .. Len(path) : path[k] = " "}

\* In a sequence that is empty for a symbol that names nothing.
FunctionName(symbol) ==
    LET bare == BareSymbol(symbol.text)
        plain == WithoutTemplates(Demangled(bare))
        path == BeforeParameters(plain)
        segments == Segments(path)
    IN  IF \/ bare = <<>> \/ bare[1] = "at " \/ Contains(plain, Operator) \/ segments = {}
           \/ path[Max(segments)] \notin Words
        THEN <<>> ELSE <<path[Max(segments)]>>

RuntimeFunctions == {<<"abort">>}
RuntimePaths == {<<"std", "::", "process", "::", "abort">>}
EntryPoints == {<<"main">>}
EventLoop == {<<"Core", "::", "ThreadEventQueue", "::", "process">>}

IsRuntimeFrame(symbol) ==
    LET text == Demangled(BareSymbol(symbol.text))
    IN  text \in RuntimeFunctions \/ \E path \in RuntimePaths : Contained(path, text)

IsGenericFrame(symbol) ==
    LET text == BareSymbol(symbol.text)
    IN  text \in EntryPoints \/ \E path \in EventLoop : StartsWith(text, path)

Frame(number, build, address, symbol) ==
    [is |-> "frame", number |-> number, build |-> build, address |-> address, symbol |-> symbol]
Header == [is |-> "header"]
Text == [is |-> "text"]

\* A row of the table: a frame, without a symbol perhaps, or a line that is none.
ParseFrame(line) ==
    IF line.is # "frame" THEN [number |-> Absent, relevant |-> FALSE, unavailable |-> FALSE, top |-> FALSE]
    ELSE [number |-> line.number, top |-> line.number = 0, build |-> line.build,
          address |-> line.address, symbol |-> line.symbol, unavailable |-> line.symbol = Absent,
          relevant |-> line.symbol # Absent /\ ~IsGenericFrame(line.symbol)
                                            /\ ~IsRuntimeFrame(line.symbol)]

First(n, s) == SubSeq(s, 1, IF Len(s) < n THEN Len(s) ELSE n)

\* What a row adds to what is known of the stack so far.
AddRow(parsed, row) ==
    [rows |-> Append(parsed.rows, row),
     frameCount |-> parsed.frameCount + IF row.number # Absent THEN 1 ELSE 0,
     frameKeys |->
        parsed.frameKeys \o (IF row.relevant /\ Len(parsed.frameKeys) < MaxSignatureFrames
                             THEN FunctionName(row.symbol) ELSE <<>>),
     addressKeys |->
        parsed.addressKeys \o (IF /\ row.unavailable /\ row.build # Absent
                                  /\ Len(parsed.addressKeys) < SignatureAddresses
                               THEN <<<<row.build, row.address>>>> ELSE <<>>),
     truncated |-> parsed.truncated]

NoRows(truncated) ==
    [rows |-> <<>>, frameCount |-> 0, frameKeys |-> <<>>, addressKeys |-> <<>>, truncated |-> truncated]

\* The lines that become rows: not the header, and none after the last that is rendered.
Body(text) ==
    LET lines == First(MaxRenderedLines, text)
    IN  IF lines # <<>> /\ lines[1] = Header THEN Tail(lines) ELSE lines

ParseStackTrace(text) ==
    LET body == Body(text)
    IN  FoldLeft(AddRow, NoRows(Len(text) > MaxRenderedLines), [i \in DOMAIN body |-> ParseFrame(body[i])])

-----------------------------------------------------------------------------
(* stack_fingerprint *)

\* The message with its digits blanked, and the file.
FailureKey(reason) == <<reason.message, reason.file>>

\* The signature of a report, in a set that is empty when it has none.
StackFingerprint(signal, reason, parsed) ==
    LET failure == IF reason = Absent THEN <<>> ELSE FailureKey(reason)
        frames == IF failure # <<>> \/ parsed.frameKeys # <<>> THEN parsed.frameKeys
                  ELSE parsed.addressKeys
    IN  IF frames = <<>> /\ failure = <<>> THEN {}
        ELSE {<<signal.name, failure, First(SignatureFrames, frames)>>}

Signature(i) ==
    StackFingerprint(client[i].signal, client[i].reason, ParseStackTrace(stack[i]))

-----------------------------------------------------------------------------
(* What a client writes *)

\* A function as its source declares it.
Declared(language, returns, scope, name, closure, arguments, parameters) ==
    [language |-> language, returns |-> returns, scope |-> scope, name |-> name,
     closure |-> closure, arguments |-> arguments, parameters |-> parameters]

InC(name) == Declared("c", <<>>, <<>>, name, FALSE, <<>>, <<>>)
InCxx(scope, name) == Declared("c++", <<>>, scope, name, FALSE, <<>>, <<>>)
InRust(scope, name) == Declared("rust", <<>>, scope, name, FALSE, <<>>, <<>>)

Machinery ==
    {InC("abort"), InC("main"), InRust(<<"std", "process">>, "abort"),
     InCxx(<<"Core", "ThreadEventQueue">>, "process")}
Lambda == InCxx(<<"Web">>, Operator)

\* The program's functions have no parts in common with the paths of the machinery, and brackets
\* that match: read inside of one, what is between them does not end it, and leaves it where it is.
ASSUME FunctionsAssumption ==
    /\ Words \cap Punctuation = {} /\ Absent \notin Functions \cup Machinery \cup {Lambda}
    /\ \A f \in Functions :
          LET Own == Words \ {"std", "ThreadEventQueue"}
              Type == Own \cup {"<", ">", "::", " ", "(", ")"}
          IN  /\ f.language \in {"c++", "rust"} /\ f.name \in Own
              /\ f.scope \in Seq(Own \cup IF f.language = "rust" THEN {} ELSE {"(anonymous namespace)"})
              /\ f.language = "rust" => f.scope # <<>>
              /\ f.closure \in BOOLEAN /\ (f.closure => f.language = "rust")
              /\ {f.returns, f.arguments, f.parameters} \subseteq Seq(Type)
              /\ ReadFrom(0, f.returns).depth = 0
              /\ ReadFrom(1, f.arguments) = [depth |-> 1, plain |-> <<>>]

WhereAny(part, text) == IF part = <<>> THEN <<>> ELSE text
Separator(f) == IF f.language = "rust" THEN <<"::">> ELSE <<>>

\* A function with all that belongs to it, and what is left of it in a mangled symbol.
PathText(f) ==
    WhereAny(f.returns, Append(f.returns, " ")) \o Path(Append(f.scope, f.name))
        \o WhereAny(f.arguments, Separator(f) \o <<"<">> \o f.arguments \o <<">">>)
        \o (IF f.closure THEN <<"::", Closure>> ELSE <<>>)
        \o (IF f.language = "c++" THEN <<"(">> \o f.parameters \o <<")">> ELSE <<>>)

MangledText(f) ==
    <<"_R", "NvNt", "Cs7_">> \o Append(f.scope, f.name)
        \o (IF f.closure THEN <<"0">> ELSE <<>>)
        \o WhereAny(f.arguments, SelectSeq(f.arguments, LAMBDA token : token \in Words))

FormOf(f, style) ==
    IF f.language = "c" THEN "bare" ELSE IF f.language = "rust" THEN style.rust ELSE style.form

Spelled(f, form) ==
    CASE form = "bare" -> IF f.closure THEN <<Closure>> ELSE <<f.name>>
      [] form = "path" -> PathText(f)
      [] form = "mangled" -> MangledText(f)

\* The code sees the text only; the rest says what it stands for.
Symbol(f, style) ==
    [function |-> f, form |-> FormOf(f, style),
     text |-> (IF style.inlined THEN <<Inlined>> ELSE <<>>) \o Spelled(f, FormOf(f, style))
                  \o (IF style.offset THEN <<Offset>> ELSE <<>>)]

\* What is written where a function is inlined, or a module known, without a symbol.
Nameless == {[function |-> Absent, form |-> Absent, text |-> text] :
                 text \in {<<"(", "inlined", ")">>, <<"at ", "module">>}}

ASSUME StylesAssumption ==
    \A style \in Styles :
       /\ style.form \in {"bare", "path"} /\ style.rust \in {"bare", "path", "mangled"}
       /\ {style.offset, style.inlined} \subseteq BOOLEAN
       /\ \A f \in Functions \cup Machinery \cup {Lambda} : Symbol(f, style) # Absent

-----------------------------------------------------------------------------
(* One crash, reported twice *)

Reason(line, digits) ==
    [message |-> "Verification failed", file |-> "Node.cpp", line |-> line, digits |-> digits]

ASSUME ReasonAssumption == \A i \in 1 .. 2 : Reason(i, i) # Absent

\* The clients differ in what a version of the program, or a client, changes.  The first writes
\* nothing but the frames of the crash; a third client agrees with the second when both agree
\* with the first.
StacksInit ==
    /\ \E failed \in BOOLEAN, style \in [1 .. 2 -> Styles], build \in [1 .. 2 -> Builds] :
          client = [i \in 1 .. 2 |->
              [style |-> style[i], build |-> build[i],
               reason |-> IF failed THEN Reason(i, i) ELSE Absent,
               signal |-> [name |-> "SIGABRT", numbered |-> i = 1]]]
    /\ stack \in {<<<<>>, <<>>>>, <<<<>>, <<Header>>>>}

Add(first, second) ==
    /\ stack' = <<stack[1] \o first, stack[2] \o second>>
    /\ \A i \in 1 .. 2 : Len(stack'[i]) <= MaxLines
    /\ UNCHANGED client

Numbered(i) == Len(SelectSeq(stack[i], LAMBDA line : line.is = "frame"))
Written(i, symbol) ==
    Frame(Numbered(i), client[i].build, IF i = 1 THEN "one" ELSE "other", symbol)

\* A function of the program, which both clients name.
NamedFrame(f) ==
    Add(<<Written(1, Symbol(f, client[1].style))>>, <<Written(2, Symbol(f, client[2].style))>>)

\* A frame of the machinery, a lambda, a frame without a name, or a line that is no frame.
OwnLine ==
    \E line \in {Written(2, Symbol(f, client[2].style)) : f \in Machinery \cup {Lambda}}
                    \cup {Written(2, symbol) : symbol \in Nameless} \cup {Text} :
        Add(<<>>, <<line>>)

\* A frame for which the clients, or the second, have an address only, or not even that.
UnavailableFrame ==
    \E both \in BOOLEAN, address \in {"address", Absent} :
        LET frame(i) == Frame(Numbered(i), IF address = Absent THEN Absent ELSE client[i].build,
                              address, Absent)
        IN  Add(IF both THEN <<frame(1)>> ELSE <<>>, <<frame(2)>>)

StacksNext == OwnLine \/ UnavailableFrame \/ \E f \in Functions : NamedFrame(f)

StacksSpec == StacksInit /\ [][StacksNext]_stackVars

-----------------------------------------------------------------------------
(* Property *)

SymbolsOf(i) == {stack[i][n].symbol : n \in {m \in DOMAIN stack[i] : stack[i][m].is = "frame"}} \ {Absent}

\* What the code makes out in a symbol.  A path is cut at its first parenthesis, which should be that
\* of the parameters; all names of a mangled symbol are taken for its path; and a bare name shows
\* neither that it is of the machinery nor that it is not, nor whose closure it is.
Legible(symbol) ==
    LET f == symbol.function IN
    f # Absent =>
        CASE symbol.form = "path" -> /\ "(anonymous namespace)" \notin ToSet(f.scope)
                                     /\ "(" \notin ToSet(WithoutTemplates(f.returns))
          [] symbol.form = "mangled" -> f.arguments = <<>>
          [] symbol.form = "bare" -> IF f \in Machinery THEN f.language = "c"
                                     ELSE ~f.closure /\ <<f.name>> \notin RuntimeFunctions \cup EntryPoints

\* The program's functions in a stack, those before it is cut, and the addresses without a symbol.
FunctionKeys(i) == ParseStackTrace(stack[i]).frameKeys
Whole(i) == Len(FunctionKeys(i)) >= SignatureFrames \/ ~ParseStackTrace(stack[i]).truncated
NamesFunction(i) == \E symbol \in SymbolsOf(i) : symbol.function \in Functions

\* Two reports of one crash have one signature whatever paths, template arguments, mangling,
\* offsets, inlining, builds, lines and machinery their clients add (stack_fingerprint and what it
\* is made of), as long as the code can make out their symbols, the stacks are not cut before enough
\* functions are named, and a failure reason or a function names the crash at all.
SameCrashSameSignature ==
    /\ \A i \in 1 .. 2 : Whole(i) /\ \A symbol \in SymbolsOf(i) : Legible(symbol)
    /\ client[1].reason # Absent \/ NamesFunction(1)
    => Signature(1) = Signature(2) /\ Signature(1) # {}
=============================================================================
