------------------------------ MODULE FreshCook ------------------------------
(***************************************************************************)
(* The Houdini node as its user sees it: it remembers nothing from one cook *)
(* to the next.  A cook starts from its snippet and parameters, and ends   *)
(* with an error, or executes a plan made of them and of what the session  *)
(* holds during this cook.                                                 *)
(***************************************************************************)
CONSTANTS Snippets, Params, Sessions, Val, Zero, NotFound, Mismatch

VARIABLES stage,    \* "idle", "preparing" or "executing"
          request,  \* the snippet and the parameters of the cook under way
          plan      \* what is executed

vars == <<stage, request, plan>>

Init == stage = "idle" /\ request = <<>> /\ plan = <<>>

Snippet == request.snippet
Externals == Snippet.channels \cup Snippet.dollars

\* A $ name is a variable if HScript is supported and there is one.
IsVariable(h, x) ==
    x \in Snippet.dollars /\ request.params.hscript /\ h.variables[x] # NotFound
Channel(h, x) == IF h.channels[x] # NotFound THEN h.channels[x] ELSE Zero

\* What some session gives a name, or zero.
Given(x) ==
    {Zero} \cup {h.channels[x] : h \in Sessions} \cup {h.variables[x] : h \in Sessions}

\* What may be read for an external.  Which value of its name a variable of another type
\* than the one accessed has is left open.
MayRead(h, x) ==
    IF ~ IsVariable(h, x) THEN {Channel(h, x)}
    ELSE IF h.variables[x] # Mismatch THEN {h.variables[x]}
    ELSE IF x \in Snippet.channels THEN {Channel(h, x)} ELSE Given(x)

Begin ==
    /\ stage = "idle" /\ stage' = "preparing"
    /\ request' \in [snippet : Snippets, params : Params]
    /\ UNCHANGED plan

\* Only a snippet that parses and is valid AX is executed: as itself, converted as the VEX
\* flag asks, on the target asked for, with points deleted after it if it deletes any.
Prepare ==
    /\ stage = "preparing" /\ stage' = "executing"
    /\ Snippet.parses /\ Snippet.valid
    /\ \E h \in Sessions : \E read \in [Externals -> Val] :
        /\ \A x \in Externals : read[x] \in MayRead(h, x)
        /\ plan' = [snippet |-> Snippet, vex |-> request.params.vex,
                    target |-> request.params.target,
                    deletes |-> request.params.target = "POINTS" /\ Snippet.deletes,
                    read |-> read]
    /\ UNCHANGED request

Return == stage' = "idle" /\ request' = <<>> /\ plan' = <<>>

\* A cook may always fail: the code, an external, or the compiler.
Fail == stage = "preparing" /\ Return

Execute == stage = "executing" /\ Return

Next == Begin \/ Prepare \/ Fail \/ Execute

Spec == Init /\ [][Next]_vars
=============================================================================
