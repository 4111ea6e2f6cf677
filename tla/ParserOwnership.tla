--------------------------- MODULE ParserOwnership ---------------------------
(***************************************************************************)
(* Who owns the nodes of a parse, for any grammar.  The semantic actions   *)
(* pass nodes as raw pointers on the stack of yyparse.  Each entry owns    *)
(* the nodes its destructor would delete; an action gives the entry it     *)
(* pushes what the entries it pops owned and the nodes it makes, and the   *)
(* last one gives them to *tree.  A syntax error runs the destructors of   *)
(* all entries.                                                            *)
(***************************************************************************)
EXTENDS Integers, Sequences

VARIABLES status,  \* "idle", "parsing", "accepted", "aborted" or "thrown"
          stack,   \* the sets of nodes its entries own
          tree,    \* the nodes of *tree
          made,    \* the addresses given out so far
          live,    \* those not yet deleted
          twice    \* whether a destructor has met a node that was deleted

vars == <<status, stack, tree, made, live, twice>>

Owned(entries) == UNION {entries[i] : i \in DOMAIN entries}

\* Whether the destructors, run one after the other, meet a node twice.
MeetTwice(entries) ==
    \/ ~ Owned(entries) \subseteq live
    \/ \E i, j \in DOMAIN entries : i # j /\ entries[i] \cap entries[j] # {}

NoNodes == tree = {} /\ made = {} /\ live = {} /\ twice = FALSE

Init == status = "idle" /\ stack = <<>> /\ NoNodes

\* There is an entry below all others, of the initial state.
Open ==
    /\ status = "idle" /\ status' = "parsing"
    /\ stack' = <<{}>>
    /\ NoNodes'

\* A token owns no node.
Shift ==
    /\ status = "parsing"
    /\ UNCHANGED <<status, tree, made, live, twice>>
    /\ stack' = Append(stack, {})

\* A rule with n symbols on its right hand side makes nodes.
Pops(n) ==
    /\ status = "parsing"
    /\ n \in 0..(Len(stack) - 1)
    /\ made \subseteq made'
    /\ live' = live \cup (made' \ made)
    /\ UNCHANGED <<status, twice>>

Rest(n) == SubSeq(stack, 1, Len(stack) - n)
Popped(n) == SubSeq(stack, Len(stack) - n + 1, Len(stack))

Reduce(n) ==
    /\ Pops(n)
    /\ stack' = Append(Rest(n), Owned(Popped(n)) \cup (made' \ made))
    /\ UNCHANGED tree

\* The rule of the whole program: nothing else is owned on the stack, and its own entry
\* does not own what *tree does.
Deliver(n) ==
    /\ Pops(n)
    /\ tree = {} /\ Owned(Rest(n)) = {}
    /\ tree' = Owned(Popped(n)) \cup (made' \ made)
    /\ stack' = Append(Rest(n), {})

\* The end of the code is shifted.
Accept ==
    /\ status = "parsing" /\ status' = "accepted"
    /\ Owned(stack) = {}
    /\ stack' = Append(stack, {})
    /\ UNCHANGED <<tree, made, live, twice>>

Abort ==
    /\ status = "parsing" /\ status' = "aborted"
    /\ stack' = <<{}>>
    /\ live' = live \ Owned(stack)
    /\ twice' = (twice \/ MeetTwice(stack))
    /\ UNCHANGED <<tree, made>>

\* The handler of the error throws, and no destructor runs.
Throw ==
    /\ status = "parsing" /\ status' = "thrown"
    /\ UNCHANGED <<stack, tree, made, live, twice>>

\* axparse is left, by an exception out of the lexer while it still parses.
Close ==
    /\ status # "idle" /\ status' = "idle"
    /\ stack' = <<>>
    /\ NoNodes'

Next ==
    \/ Open \/ Shift \/ Accept \/ Abort \/ Throw \/ Close
    \/ \E n \in {Len(stack) - Len(stack') + 1} : Reduce(n) \/ Deliver(n)

Spec == Init /\ [][Next]_vars

-----------------------------------------------------------------------------
(* Properties.                                                             *)

\* While a parse goes on, and after a handler has thrown, every node that was made is in
\* *tree or is owned by one entry of the stack, and by no other.
OwnedOnce ==
    /\ live = made /\ live = tree \cup Owned(stack)
    /\ \A i \in DOMAIN stack : stack[i] \cap tree = {}
    /\ \A i, j \in DOMAIN stack : i # j => stack[i] \cap stack[j] = {}

OneOwner == status \in {"idle", "parsing", "thrown"} => OwnedOnce

\* When axparse returns, what was made and not deleted is the tree it returns, and no
\* destructor has met a node twice.
NodesOwned == status \in {"accepted", "aborted"} => live = tree /\ ~ twice
=============================================================================
