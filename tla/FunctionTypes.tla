----------------------------- MODULE FunctionTypes --------------------------
(***************************************************************************)
(* The functions a program may call: signatures and their selection,       *)
(* codegen/FunctionTypes.cc, the registry, codegen/FunctionRegistry.cc,    *)
(* and the mathematical functions of codegen/StandardFunctions.cc.         *)
(*                                                                         *)
(* A declaration has a C binding, an implementation that generates IR, or  *)
(* both; CompilerOptions::mPrioritiseIR says which of the two is used.     *)
(***************************************************************************)
EXTENDS Instructions

Signature(ret, args) == [ret |-> ret, args |-> args, writes |-> FALSE]

\* One signature for each element type, of types given for it.
ForEach(elems, Ret(_), Args(_)) ==
  [i \in DOMAIN elems |-> Signature(Ret(elems[i]), Args(elems[i]))]

DF == <<"DOUBLE", "FLOAT">>
DFI == <<"DOUBLE", "FLOAT", "INT32">>
DFLI == <<"DOUBLE", "FLOAT", "INT64", "INT32">>
DFLIS == <<"DOUBLE", "FLOAT", "INT64", "INT32", "INT16">>

Same(n, elems) == ForEach(elems, LAMBDA e : Scalar(e), LAMBDA e : [i \in 1..n |-> Scalar(e)])

\* From arrays to an array, or to a scalar where size is 1.
Arrays(size, sizes, elems) ==
  ForEach(elems, LAMBDA e : <<e, size>>, LAMBDA e : [i \in DOMAIN sizes |-> <<e, sizes[i]>>])

\* The parameters that are not ReadOnly are written through.
Scales ==
  LET sigs == ForEach(DF, LAMBDA e : Void, LAMBDA e : << <<e, 16>>, <<e, 3>> >>)
  IN  [i \in DOMAIN sigs |-> [sigs[i] EXCEPT !.writes = TRUE]]

Declarations ==
  "abs" :> Same(1, <<"INT64", "INT32", "DOUBLE", "FLOAT">>) @@
  "dot" :> Arrays(1, <<3, 3>>, DFI) @@
  "cross" :> Arrays(3, <<3, 3>>, DFI) @@
  "lengthsq" :> (Arrays(1, <<2>>, DFI) \o Arrays(1, <<3>>, DFI) \o Arrays(1, <<4>>, DFI)) @@
  "lerp" :> Same(3, DF) @@
  "min" :> Same(2, DFLI) @@
  "max" :> Same(2, DFLI) @@
  "clamp" :> Same(3, DFLI) @@
  "fit" :> ForEach(DFLI, LAMBDA e : Scalar(IF e = "FLOAT" THEN e ELSE "DOUBLE"),
                   LAMBDA e : [i \in 1..5 |-> Scalar(e)]) @@
  "sign" :> ForEach(DFLI, LAMBDA e : Scalar("INT32"), LAMBDA e : <<Scalar(e)>>) @@
  "signbit" :> ForEach(DF, LAMBDA e : Scalar("BOOL"), LAMBDA e : <<Scalar(e)>>) @@
  "truncatemod" :> Same(2, DFLIS) @@
  "floormod" :> Same(2, DFLIS) @@
  "euclideanmod" :> Same(2, DFLIS) @@
  "determinant" :> (Arrays(1, <<9>>, DF) \o Arrays(1, <<16>>, DF)) @@
  "diag" :> (Arrays(3, <<9>>, DF) \o Arrays(4, <<16>>, DF) \o Arrays(9, <<3>>, DF)
               \o Arrays(16, <<4>>, DF)) @@
  "identity3" :> << Signature(<<"FLOAT", 9>>, <<>>) >> @@
  "identity4" :> << Signature(<<"FLOAT", 16>>, <<>>) >> @@
  "mmmult" :> (Arrays(9, <<9, 9>>, DF) \o Arrays(16, <<16, 16>>, DF)) @@
  "postscale" :> Scales @@
  "prescale" :> Scales @@
  "pretransform" :> (Arrays(3, <<9, 3>>, DF) \o Arrays(3, <<16, 3>>, DF)
                       \o Arrays(4, <<16, 4>>, DF)) @@
  "trace" :> (Arrays(1, <<9>>, DF) \o Arrays(1, <<16>>, DF)) @@
  "transform" :> (Arrays(3, <<3, 9>>, DF) \o Arrays(3, <<3, 16>>, DF)
                    \o Arrays(4, <<4, 16>>, DF)) @@
  "transpose" :> (Arrays(9, <<9>>, DF) \o Arrays(16, <<16>>, DF))

Internal == {"mmmult"}
OnlyIR == {"fit", "sign", "truncatemod", "identity3", "identity4"}
OnlyC == {"signbit"}

\* FunctionBuilder::get: the preferred kind, the other where there is none of it.
Implementation(name, preferred) ==
  IF name \in OnlyIR THEN "IR" ELSE IF name \in OnlyC THEN "C" ELSE preferred

-----------------------------------------------------------------------------
(* FunctionRegistry::getOrInsert: a function is created when first wanted, *)
(* and with it the functions it depends on.                                *)

Dependencies(name) ==
  CASE name = "clamp" -> {"min", "max"} [] name = "fit" -> {"clamp"} [] OTHER -> {}

RECURSIVE GetOrInsert(_, _)
GetOrInsert(created, name) ==
  FoldSet(LAMBDA dep, done : IF dep \in done THEN done ELSE GetOrInsert(done, dep),
          created \cup {name}, Dependencies(name))

Known(name, internal) == name \in DOMAIN Declarations /\ (internal \/ name \notin Internal)

-----------------------------------------------------------------------------
(* Function::match and FunctionGroup::match.                               *)

MatchOne(sig, types) ==
  IF Len(types) # Len(sig.args) THEN "None"
  ELSE IF types = sig.args THEN "Explicit"
  ELSE IF \E i \in DOMAIN types :
            /\ types[i] # sig.args[i]
            /\ \/ i = 1 /\ sig.writes
               \/ ~IsValidCast(types[i], sig.args[i])
  THEN "Size" ELSE "Implicit"

\* The first exact declaration, else the first one that takes a cast of the types.
Better == <<"Explicit", "Implicit", "Size", "None">>

MatchIn(list, types) ==
  LET kinds == [i \in DOMAIN list |-> MatchOne(list[i], types)]
      best == CHOOSE k \in DOMAIN Better :
                /\ Better[k] \in ToSet(kinds)
                /\ \A j \in 1..(k - 1) : Better[j] \notin ToSet(kinds)
      first == CHOOSE i \in DOMAIN kinds :
                 kinds[i] = Better[best] /\ \A j \in 1..(i - 1) : kinds[j] # Better[best]
  IN  [kind |-> Better[best], sig |-> list[first]]

Match(name, types) == MatchIn(Declarations[name], types)
=============================================================================
