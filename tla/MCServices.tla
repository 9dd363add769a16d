----------------------------- MODULE MCServices -----------------------------
(* Small instances of components that share no state.  A behaviour is one of one of them: its     *)
(* part says which, and the others stay as they start.                                            *)
EXTENDS Retention, RateLimit, Search, Listing, Compression, Announcement

VARIABLE part

MCForgeries == {<<"other">>}
HourKinds == {"challenge:hour", "submission:hour"}
MCRefill == [kind \in BucketKinds |-> IF kind \in HourKinds THEN 1 ELSE 2]
MCCapacity ==
    [kind \in BucketKinds |->
        IF kind \in HourKinds THEN 3 ELSE IF kind = "public:minute" THEN 2 ELSE 1]

\* A client that writes bare names with offsets, and one that writes paths or mangled names.
MCStyles ==
    {[form |-> "bare", rust |-> "mangled", offset |-> TRUE, inlined |-> FALSE],
     [form |-> "path", rust |-> "path", offset |-> FALSE, inlined |-> TRUE],
     [form |-> "path", rust |-> "bare", offset |-> TRUE, inlined |-> FALSE]}

\* A template with templates in its arguments, a function without a name of its own namespace, one
\* named like the machinery, a closure, and a generic function.
MCFunctions ==
    {Declared("c++", <<"Ptr", "<", "Node", ">">>, <<"Web", "Page">>, "send", FALSE,
              <<"List", "<", "Node", ">", " ", "Node">>, <<"Node">>),
     InCxx(<<"Web", "(anonymous namespace)">>, "paint"), InCxx(<<"Web">>, "abort"),
     Declared("rust", <<>>, <<"web">>, "walk", TRUE, <<>>, <<>>),
     Declared("rust", <<>>, <<"web">>, "drop", FALSE, <<"Node">>, <<>>)}
MCWords == {"Web", "Page", "Ptr", "List", "Node", "web", "send", "paint", "abort", "walk", "drop",
            "close", "std", "process", "Core", "ThreadEventQueue", "main"}

MCSymbols ==
    {[function |-> f, form |-> "bare", text |-> <<f.name, Offset>>] : f \in {InCxx(<<"Web">>, "close"), InC("main")}}

MCLayouts == {[lines |-> 2, characters |-> 256], [lines |-> 20, characters |-> 3000],
              [lines |-> 100, characters |-> 3500]}

\* Reports with little in them or nothing, and with as much as clients can put there; a failure in a file with
\* an ordinary name and in one with a long name.
Long(present, characters) == IF present THEN characters ELSE Absent
MCReported ==
    {[kind |-> kind, failure |-> failure, url |-> url, version |-> IF full THEN 256 ELSE 1,
      build |-> IF full THEN 1024 ELSE 0, commit |-> Long(full, 64),
      platform |-> IF full THEN 300 ELSE IF url = Absent THEN 0 ELSE Absent,
      architecture |-> Long(full, 300), process |-> Long(full, 300),
      signal |-> IF full THEN 300 ELSE 0, number |-> Long(full, 40), description |-> Long(full, 4000)] :
        kind \in {"crash", "web_compat"}, url \in {Absent, 2000}, full \in BOOLEAN,
        failure \in {Absent} \cup {[directory |-> 20, file |-> file, line |-> 3, expression |-> 70] :
                                       file \in {30, 300}}}

Parts == {"retention", "limits", "search", "listing", "compression", "stacks", "message"}

MCVars == <<retentionVars, limitVars, value, listingVars, compressionVars, stackVars,
            announcementVars, part>>

\* The parts with many beginnings have one of them while another part is at work.
QuietStacks ==
    /\ client = [i \in 1 .. 2 |-> [style |-> CHOOSE s \in Styles : TRUE, build |-> CHOOSE b \in Builds : TRUE,
                                  reason |-> Absent, signal |-> [name |-> "SIGABRT", numbered |-> FALSE]]]
    /\ stack = <<<<>>, <<>>>>

QuietRetention == \A r \in Reports : report[r] = None

\* Clients of two kinds: those of one kind write the same symbols.
StacksStart == StacksInit /\ client[1].style # client[2].style

QuietAnnouncement ==
    /\ layout = CHOOSE l \in Layouts : TRUE
    /\ about = CHOOSE r \in Reported : TRUE
    /\ trace = <<>>

MCInit ==
    /\ part \in Parts
    /\ RetentionInit /\ RateLimitInit /\ SearchInit /\ ListingInit /\ CompressionInit
    /\ part # "retention" => QuietRetention
    /\ IF part = "stacks" THEN StacksStart ELSE QuietStacks
    /\ IF part = "message" THEN AnnouncementInit ELSE QuietAnnouncement

MCNext ==
    /\ UNCHANGED part
    /\ \/ /\ part = "retention" /\ RetentionNext
          /\ UNCHANGED <<limitVars, value, listingVars, compressionVars, stackVars, announcementVars>>
       \/ /\ part = "limits" /\ RateLimitNext
          /\ UNCHANGED <<retentionVars, value, listingVars, compressionVars, stackVars, announcementVars>>
       \/ /\ part = "search" /\ SearchNext
          /\ UNCHANGED <<retentionVars, limitVars, listingVars, compressionVars, stackVars,
                        announcementVars>>
       \/ /\ part = "listing" /\ ListingNext
          /\ UNCHANGED <<retentionVars, limitVars, value, compressionVars, stackVars, announcementVars>>
       \/ /\ part = "compression" /\ CompressionNext
          /\ UNCHANGED <<retentionVars, limitVars, value, listingVars, stackVars, announcementVars>>
       \/ /\ part = "stacks" /\ StacksNext
          /\ UNCHANGED <<retentionVars, limitVars, value, listingVars, compressionVars, announcementVars>>
       \/ /\ part = "message" /\ WriteLine
          /\ UNCHANGED <<retentionVars, limitVars, value, listingVars, compressionVars, stackVars>>

MCSpec == MCInit /\ [][MCNext]_MCVars /\ RetentionFairness
=============================================================================
