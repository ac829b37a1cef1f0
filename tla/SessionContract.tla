--------------------------- MODULE SessionContract ---------------------------
(***************************************************************************)
(* What a client of a CompilerSession may rely on, with no cache in sight: *)
(* the documents change by updates and removals, and an analysis answers   *)
(* with the cold analysis of the documents as they are.  The answer is     *)
(* promised when it covers all roots of the request and the documents it   *)
(* was made of leave no choice among the declarers of a model; an analysis *)
(* that found no root, or of a model declared twice, may be an old one.    *)
(***************************************************************************)
CONSTANTS Requests, ColdAnalysis(_, _), Promised(_, _, _), NoAnswer

VARIABLES
    buffers,    \* URI -> [text, version]
    answer      \* the last analysis, or NoAnswer after another operation

contractVars == <<buffers, answer>>

Init ==
    /\ DOMAIN buffers = {}
    /\ answer = NoAnswer

\* An update replaces or adds one document, a removal takes one away.
Edit ==
    /\ \E u \in DOMAIN buffers \cup DOMAIN buffers' :
           /\ DOMAIN buffers \ {u} = DOMAIN buffers' \ {u}
           /\ \A v \in DOMAIN buffers \ {u} : buffers'[v] = buffers[v]
    /\ answer' = NoAnswer

\* Snapshots, compile, cache control and updates without effect.
Other ==
    /\ UNCHANGED buffers
    /\ answer' = NoAnswer

Analyze(request) ==
    /\ UNCHANGED buffers
    /\ answer'.request = request
    /\ Promised(answer', request, buffers) => answer' = ColdAnalysis(request, buffers)

Next ==
    \/ Edit
    \/ Other
    \/ \E request \in Requests : Analyze(request)

Spec == Init /\ [][Next]_contractVars
=============================================================================
