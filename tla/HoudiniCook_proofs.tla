-------------------------- MODULE HoudiniCook_proofs ------------------------
(***************************************************************************)
(* The caches of the Houdini node are coherent for any snippets, sessions  *)
(* and parameters, and any number of cooks, failed or not.                 *)
(***************************************************************************)
EXTENDS HoudiniCook, TLAPS

\* What a cook has established when it reaches a phase: until it compiles the
\* hash is 0, so that no later cook trusts what it leaves; the snippet parses and the
\* expression sets are its own once it has parsed; if the hash matched they still are.
PhaseSound ==
    /\ phase \in {"parse", "evaluate", "compile"} => hash = 0
    /\ phase \in {"evaluate", "compile"} =>
            Snippet.parses /\ channelSet = Snippet.channels /\ dollarSet = Snippet.dollars
    /\ phase \in {"refresh", "execute"} => hash = Snippet.hash /\ params = Requested

\* Only a snippet that was compiled has its hash kept.
HashedIsValid == hash # 0 => \A s \in Snippets : s.hash = hash => s.parses /\ s.valid

\* No entry of the custom data holds a value of another name.
DataGiven == \A x \in DOMAIN data : data[x] \in F!Given(x)

\* The last evaluation inserted every external, whichever cook compiled, but for the
\* variables of another type.
Left(h, x) == F!IsVariable(h, x) /\ h.variables[x] = Mismatch /\ x \notin Snippet.channels
Current ==
    phase \in {"compile", "execute"} => \A x \in F!Externals :
        Left(session, x) \/ (x \in DOMAIN data /\ data[x] \in F!MayRead(session, x))

IndInv == TypeOK /\ CacheSound /\ PhaseSound /\ HashedIsValid /\ DataGiven /\ Current

-----------------------------------------------------------------------------
LEMMA InitSound == Init => IndInv
<1> SUFFICES ASSUME Init PROVE IndInv
  OBVIOUS
<1>1. DOMAIN data = {} /\ data \in [DOMAIN data -> Val]
  BY DEF Init
<1>2. executable \in [Target -> Executable]
  BY DEF Init, Executable
<1>3. TypeOK
  BY <1>1, <1>2 DEF Init, TypeOK
<1>4. CacheSound /\ PhaseSound /\ HashedIsValid /\ Current
  BY DEF Init, CacheSound, PhaseSound, HashedIsValid, Current
<1>5. DataGiven
  BY <1>1 DEF DataGiven
<1> QED
  BY <1>3, <1>4, <1>5 DEF IndInv

\* An external evaluates to a value.
LEMMA EvaluatedIsValue ==
    ASSUME NEW h \in Sessions, NEW x \in Name PROVE x \in Inserted(h) => Evaluated(h, x) \in Val
BY RequestAssumption, ZeroAssumption DEF Evaluated, Inserted, IsVariable, Differs, Session

\* It is one that some session gives the name.
LEMMA EvaluatedIsGiven ==
    ASSUME NEW h \in Sessions, NEW x \in Name PROVE x \in Inserted(h) => Evaluated(h, x) \in F!Given(x)
BY DEF Evaluated, Inserted, IsVariable, Differs, F!Given

\* Once the expression sets are those of the snippet, every external is evaluated to what
\* it may read, but those that are left out.
LEMMA EvaluatedIsRead ==
    ASSUME channelSet = Snippet.channels, dollarSet = Snippet.dollars,
           NEW h, NEW x \in F!Externals
    PROVE  Left(h, x) \/ (x \in Inserted(h) /\ Evaluated(h, x) \in F!MayRead(h, x))
<1>1. IsVariable(h, x) <=> F!IsVariable(h, x)
  BY DEF IsVariable, F!IsVariable, Requested, Snippet, F!Snippet
<1>2. x \in channelSet \cup dollarSet
  BY DEF F!Externals, F!Snippet, Snippet
<1> QED
  BY <1>1, <1>2
     DEF Left, Inserted, Differs, Evaluated, F!MayRead, F!Channel, Snippet, F!Snippet

\* Inserting externals keeps the type of the custom data, and loses no entry.
LEMMA InsertSound ==
    ASSUME TypeOK, NEW h \in Sessions, NEW names \in SUBSET Inserted(h), Insert(h, names)
    PROVE  /\ DOMAIN data' = DOMAIN data \cup names /\ DOMAIN data' \subseteq Name
           /\ data' \in [DOMAIN data' -> Val]
           /\ \A x \in names : data'[x] = Evaluated(h, x)
           /\ DataGiven => DataGiven'
<1>1. DOMAIN data' = DOMAIN data \cup names
  BY DEF Insert
<1>2. Inserted(h) \subseteq Name
  BY DEF Inserted, TypeOK
<1>3. \A x \in names : data'[x] = Evaluated(h, x) /\ Evaluated(h, x) \in Val
  BY <1>2, EvaluatedIsValue DEF Insert
<1>4. \A x \in DOMAIN data' : data'[x] \in Val
  BY <1>1, <1>3 DEF Insert, TypeOK
<1>5. \A x \in names : data'[x] \in F!Given(x)
  BY <1>2, <1>3, EvaluatedIsGiven
<1>6. \A x \in DOMAIN data \ names : data'[x] = data[x]
  BY <1>1 DEF Insert
<1>7. DataGiven => DataGiven'
  BY <1>1, <1>5, <1>6 DEF DataGiven, F!Given
<1> QED
  BY <1>1, <1>2, <1>3, <1>4, <1>7 DEF Insert, TypeOK

-----------------------------------------------------------------------------
(* Each action keeps the invariant.                                        *)

LEMMA StepSound == IndInv /\ [Next]_vars => IndInv'
<1> SUFFICES ASSUME IndInv, [Next]_vars PROVE IndInv'
  OBVIOUS
<1> USE DEF IndInv
<1>1. CASE Cook
  <2>1. PICK s \in Snippets, p \in Params :
            /\ request' = [snippet |-> s, params |-> p]
            /\ phase' = IF hash # s.hash \/ params # p THEN "recompile" ELSE "refresh"
    BY <1>1 DEF Cook
  <2>2. UNCHANGED <<hash, params, registryVex, channelSet, dollarSet, data, executable,
                    requiresDeletion, session>>
    BY <1>1 DEF Cook, cache
  <2>3. TypeOK'
    BY <2>1, <2>2 DEF TypeOK
  <2>4. CacheSound'
    BY <2>2 DEF CacheSound
  <2>5. PhaseSound' /\ HashedIsValid' /\ DataGiven' /\ Current'
    BY <2>1, <2>2
       DEF PhaseSound, HashedIsValid, DataGiven, F!Given, Current, Snippet, Requested
  <2> QED
    BY <2>3, <2>4, <2>5
<1>2. CASE Recompile
  <2>1. TypeOK'
    BY <1>2, RequestAssumption DEF Recompile, TypeOK, Requested, ParameterCache
  <2>2. CacheSound' /\ PhaseSound' /\ HashedIsValid' /\ DataGiven' /\ Current'
    BY <1>2 DEF Recompile, CacheSound, PhaseSound, HashedIsValid, DataGiven, F!Given, Current
  <2> QED
    BY <2>1, <2>2
<1>3. CASE Parse
  <2>1. hash' = 0
    BY <1>3 DEF Parse, PhaseSound, cache
  <2>2. Unbound \in [Target -> Executable]
    BY DEF Unbound, TypeOK, Executable
  <2>3. TypeOK'
    BY <1>3, <2>1, <2>2, SnippetAssumption, ZeroAssumption
       DEF Parse, TypeOK, Return, cache, Snippet
  <2>4. CacheSound' /\ PhaseSound' /\ HashedIsValid' /\ Current'
    BY <1>3, <2>1 DEF Parse, CacheSound, PhaseSound, HashedIsValid, Current, Return, Snippet
  <2>5. DataGiven'
    <3>1. DOMAIN data' = {} \/ data' = data
      BY <1>3 DEF Parse, cache
    <3> QED
      BY <3>1 DEF DataGiven, F!Given
  <2> QED
    BY <2>3, <2>4, <2>5
<1>4. CASE Evaluate
  <2>1. PICK h \in Sessions : Insert(h, Inserted(h)) /\ session' = h
    BY <1>4 DEF Evaluate
  <2>2. /\ UNCHANGED <<hash, params, registryVex, channelSet, dollarSet, executable,
                       requiresDeletion, request>>
        /\ phase \in {"evaluate", "refresh"}
        /\ phase' = IF phase = "evaluate" THEN "compile" ELSE "execute"
    BY <1>4 DEF Evaluate
  <2>3. /\ DOMAIN data' = DOMAIN data \cup Inserted(h) /\ DOMAIN data' \subseteq Name
        /\ data' \in [DOMAIN data' -> Val]
        /\ \A x \in Inserted(h) : data'[x] = Evaluated(h, x)
        /\ DataGiven'
    BY <2>1, InsertSound
  <2>4. TypeOK'
    BY <2>1, <2>2, <2>3 DEF TypeOK
  <2>5. CacheSound' /\ HashedIsValid'
    BY <2>2, <2>3 DEF CacheSound, HashedIsValid
  <2>6. PhaseSound'
    BY <2>2 DEF PhaseSound, Snippet, Requested
  <2>7. channelSet = Snippet.channels /\ dollarSet = Snippet.dollars
    <3>1. CASE phase = "evaluate"
      BY <3>1 DEF PhaseSound
    <3>2. CASE phase = "refresh"
      <4>1. hash = Snippet.hash /\ Snippet \in Snippets
        BY <3>2 DEF PhaseSound, TypeOK, Snippet
      <4> QED
        BY <4>1, HashAssumption DEF CacheSound
    <3> QED
      BY <2>2, <3>1, <3>2
  <2>8. Current'
    <3> SUFFICES ASSUME NEW x \in F!Externals
                 PROVE  Left(h, x) \/ (x \in DOMAIN data' /\ data'[x] \in F!MayRead(h, x))
      BY <2>1, <2>2
         DEF Current, Left, F!Externals, F!Snippet, F!MayRead, F!IsVariable, F!Channel,
             F!Given, Snippet
    <3> QED
      BY <2>3, <2>7, EvaluatedIsRead
  <2> QED
    BY <2>3, <2>4, <2>5, <2>6, <2>8
<1>5. CASE EvaluateThrows
  <2>0. PICK h \in Sessions : \E done \in SUBSET Inserted(h) : Insert(h, done)
    BY <1>5 DEF EvaluateThrows
  <2>1. PICK done \in SUBSET Inserted(h) : Insert(h, done)
    BY <2>0
  <2>2. /\ DOMAIN data' = DOMAIN data \cup done /\ DOMAIN data' \subseteq Name
        /\ data' \in [DOMAIN data' -> Val] /\ DataGiven'
    BY <2>1, InsertSound
  <2>3. /\ UNCHANGED <<hash, params, registryVex, channelSet, dollarSet, executable,
                       requiresDeletion>>
        /\ phase' = "idle"
    BY <1>5 DEF EvaluateThrows, Return
  <2>4. TypeOK'
    BY <2>2, <2>3 DEF TypeOK
  <2>5. CacheSound' /\ PhaseSound' /\ HashedIsValid' /\ Current'
    BY <2>2, <2>3 DEF CacheSound, PhaseSound, HashedIsValid, Current
  <2> QED
    BY <2>2, <2>4, <2>5
<1>6. CASE Compile
  <2> DEFINE new == [snippet |-> Snippet, vex |-> Requested.vex, bound |-> TRUE]
             names == Snippet.channels \cup Snippet.dollars
  <2>1. /\ executable' = [executable EXCEPT ![Requested.target] = new]
        /\ data' = [x \in DOMAIN data \cup Snippet.channels \cup Snippet.dollars |->
                        IF x \in DOMAIN data THEN data[x] ELSE Zero]
        /\ SetDeletion
        /\ params' = Requested /\ hash' = Snippet.hash
        /\ phase = "compile" /\ phase' = "execute"
        /\ Snippet.parses /\ Snippet.valid
        /\ UNCHANGED <<registryVex, channelSet, dollarSet, request, session>>
    BY <1>6 DEF Compile, Compiles, PhaseSound
  <2>2. /\ Snippet \in Snippets /\ Requested \in Params /\ Requested \in ParameterCache
        /\ Requested.target \in Target /\ Requested.vex \in BOOLEAN
    BY <2>1, RequestAssumption DEF TypeOK, Snippet, Requested, ParameterCache
  <2>3. names \subseteq Name /\ Snippet.deletes \in BOOLEAN
    BY <2>2, SnippetAssumption
  <2>4. Snippet' = Snippet /\ Requested' = Requested
    BY <2>1 DEF Snippet, Requested
  <2>5. executable' \in [Target -> Executable] /\ executable'[Requested.target] = new
    <3>1. new \in Executable
      BY <2>2 DEF Executable
    <3> QED
      BY <2>1, <2>2, <3>1 DEF TypeOK
  <2>6. DOMAIN data' = DOMAIN data \cup names /\ data' \in [DOMAIN data' -> Val]
    BY <2>1, ZeroAssumption DEF TypeOK
  <2>7. TypeOK'
    <3>1. DOMAIN data' \subseteq Name
      BY <2>3, <2>6 DEF TypeOK
    <3>2. hash' \in {0} \cup {s.hash : s \in Snippets}
      BY <2>1, <2>2
    <3>3. params' \in [hscript : BOOLEAN, vex : BOOLEAN, target : Target \cup {"LOCAL"}]
      BY <2>1, <2>2 DEF ParameterCache
    <3>4. requiresDeletion' \in BOOLEAN
      BY <2>1, <2>3 DEF SetDeletion, TypeOK
    <3> QED
      BY <2>1, <2>5, <2>6, <3>1, <3>2, <3>3, <3>4 DEF TypeOK
  <2>8. CacheSound'
    <3>1. /\ channelSet' = Snippet.channels /\ dollarSet' = Snippet.dollars
      BY <2>1 DEF PhaseSound
    <3>2. params'.target = "POINTS" => requiresDeletion' = Snippet.deletes
      BY <2>1 DEF SetDeletion
    <3>3. executable'[params'.target] = [snippet |-> Snippet, vex |-> params'.vex, bound |-> TRUE]
      BY <2>1, <2>5
    <3> QED
      BY <2>1, <2>2, <2>6, <3>1, <3>2, <3>3 DEF CacheSound
  <2>9. PhaseSound'
    BY <2>1, <2>4 DEF PhaseSound
  <2>10. HashedIsValid'
    BY <2>1, <2>2, HashAssumption DEF HashedIsValid
  <2>11. \A x \in DOMAIN data : x \in DOMAIN data' /\ data'[x] = data[x]
    BY <2>1
  <2>12. DataGiven'
    <3>1. \A x \in DOMAIN data' : x \in DOMAIN data \/ data'[x] = Zero
      BY <2>1
    <3> QED
      BY <2>11, <3>1 DEF DataGiven, F!Given
  <2>13. Current'
    BY <2>1, <2>4, <2>11
       DEF Current, Left, F!Externals, F!Snippet, F!MayRead, F!IsVariable, F!Channel, F!Given
  <2> QED
    BY <2>7, <2>8, <2>9, <2>10, <2>12, <2>13
<1>7. CASE CompileFails
  <2>1. /\ executable' = [executable EXCEPT ![Requested.target] = NoExecutable]
        /\ SetDeletion /\ params' = Requested /\ hash' = 0
        /\ phase = "compile" /\ phase' = "idle"
        /\ UNCHANGED <<registryVex, channelSet, dollarSet, data>>
    BY <1>7 DEF CompileFails, Return, PhaseSound
  <2>2. Snippet \in Snippets /\ Requested \in ParameterCache
    BY <2>1, RequestAssumption DEF TypeOK, Snippet, Requested
  <2>3. executable' \in [Target -> Executable]
    BY <2>1 DEF TypeOK, Executable
  <2>4. TypeOK'
    BY <2>1, <2>2, <2>3, SnippetAssumption DEF TypeOK, SetDeletion, ParameterCache
  <2>5. CacheSound' /\ PhaseSound' /\ HashedIsValid' /\ DataGiven' /\ Current'
    BY <2>1 DEF CacheSound, PhaseSound, HashedIsValid, DataGiven, F!Given, Current
  <2> QED
    BY <2>4, <2>5
<1>8. CASE CompileThrows
  <2>1. /\ SetDeletion /\ hash' = 0 /\ phase = "compile" /\ phase' = "idle"
        /\ UNCHANGED <<params, registryVex, channelSet, dollarSet, data, executable>>
    BY <1>8 DEF CompileThrows, Return, PhaseSound
  <2>2. Snippet \in Snippets
    BY <2>1 DEF TypeOK, Snippet
  <2>3. TypeOK'
    BY <2>1, <2>2, SnippetAssumption DEF TypeOK, SetDeletion
  <2>4. CacheSound' /\ PhaseSound' /\ HashedIsValid' /\ DataGiven' /\ Current'
    BY <2>1 DEF CacheSound, PhaseSound, HashedIsValid, DataGiven, F!Given, Current
  <2> QED
    BY <2>3, <2>4
<1>9. CASE Execute
  BY <1>9 DEF Execute, Return, cache, TypeOK, CacheSound, PhaseSound, HashedIsValid,
              DataGiven, F!Given, Current
<1>10. CASE UNCHANGED vars
  <2>1. UNCHANGED <<hash, params, registryVex, channelSet, dollarSet, data, executable,
                    requiresDeletion, phase, request, session>>
    BY <1>10 DEF vars, cache
  <2>2. TypeOK'
    BY <2>1 DEF TypeOK
  <2>3. CacheSound'
    BY <2>1 DEF CacheSound
  <2>4. PhaseSound' /\ HashedIsValid' /\ DataGiven'
    BY <2>1 DEF PhaseSound, HashedIsValid, DataGiven, F!Given, Snippet, Requested
  <2>5. Current'
    BY <2>1 DEF Current, Left, F!Externals, F!Snippet, F!MayRead, F!IsVariable, F!Channel,
                F!Given, Snippet
  <2> QED
    BY <2>2, <2>3, <2>4, <2>5
<1> QED
  BY <1>1, <1>2, <1>3, <1>4, <1>5, <1>6, <1>7, <1>8, <1>9, <1>10 DEF Next

\* The caches are coherent in every reachable state of the node.
THEOREM NodeSound == Spec => []IndInv
BY InitSound, StepSound, PTL DEF Spec

-----------------------------------------------------------------------------
(* What the cooks rely on.                                                 *)

\* Each field of Cache keeps its type, whatever the externals evaluate to.
THEOREM TypeCorrect == Spec => []TypeOK
<1>1. IndInv => TypeOK
  BY DEF IndInv
<1> QED
  BY <1>1, NodeSound, PTL

\* A hash other than 0 vouches for sets, executable, data and deletion flag.
THEOREM CacheIsSound == Spec => []CacheSound
<1>1. IndInv => CacheSound
  BY DEF IndInv
<1> QED
  BY <1>1, NodeSound, PTL

\* The cached hash is that of the snippet a cook is about to execute, and the
\* hash tells snippets apart.
LEMMA CachedIsRequested ==
    ASSUME IndInv, phase = "execute"
    PROVE  /\ params = Requested
           /\ Snippet.channels \cup Snippet.dollars \subseteq DOMAIN data
           /\ Running = [snippet |-> Snippet, vex |-> params.vex, bound |-> TRUE]
           /\ params.target = "POINTS" => requiresDeletion = Snippet.deletes
<1>1. /\ hash = Snippet.hash /\ params = Requested /\ Snippet \in Snippets
      /\ Requested.vex \in BOOLEAN
  BY RequestAssumption DEF IndInv, PhaseSound, TypeOK, Snippet, Requested, ParameterCache
<1>2. hash # 0
  BY <1>1, HashAssumption
<1> QED
  BY <1>1, <1>2, HashAssumption DEF IndInv, CacheSound, Running

\* No cook executes the kernel of an earlier one.
THEOREM KernelIsCurrent == Spec => []RunsCurrentKernel
<1>1. IndInv => RunsCurrentKernel
  <2> SUFFICES ASSUME IndInv, phase = "execute"
               PROVE  /\ params = Requested
                      /\ Running # NoExecutable /\ Running.snippet = Snippet
                      /\ Running.vex = Requested.vex
                      /\ params.target = "POINTS" => requiresDeletion = Snippet.deletes
    BY DEF RunsCurrentKernel
  <2>1. Snippet \in Snippets /\ Requested.vex \in BOOLEAN
    BY RequestAssumption DEF IndInv, TypeOK, Snippet, Requested, ParameterCache
  <2> DEFINE new == [snippet |-> Snippet, vex |-> params.vex, bound |-> TRUE]
  <2>2. /\ params = Requested /\ Running = new
        /\ params.target = "POINTS" => requiresDeletion = Snippet.deletes
    BY CachedIsRequested
  <2>3. new \in [snippet : Snippets, vex : BOOLEAN, bound : BOOLEAN]
    BY <2>1, <2>2
  <2>4. new.snippet = Snippet /\ new.vex = params.vex /\ new # NoExecutable
    BY <2>3, SnippetAssumption
  <2> QED
    BY <2>2, <2>4
<1> QED
  BY <1>1, NodeSound, PTL

\* No executable that runs holds an address of custom data that was reset.
THEOREM ExternalsAreBound == Spec => []ExternalsBound
<1>1. IndInv => ExternalsBound
  BY CachedIsRequested DEF ExternalsBound
<1> QED
  BY <1>1, NodeSound, PTL

\* A cook that recompiles nothing still reads its own channels.
THEOREM ChannelsAreCurrent == Spec => []ChannelsCurrent
<1>1. IndInv => ChannelsCurrent
  BY DEF IndInv, Current, ChannelsCurrent, Left, F!Externals, F!Snippet, F!MayRead, F!IsVariable,
         F!Channel, Snippet
<1> QED
  BY <1>1, NodeSound, PTL

-----------------------------------------------------------------------------
(* The node implements the one that remembers nothing.                     *)

\* What is about to be executed is a plan of the cook's own.
Planned ==
    /\ Snippet.parses /\ Snippet.valid
    /\ \E h \in Sessions : \E read \in [F!Externals -> Val] :
        /\ \A x \in F!Externals : read[x] \in F!MayRead(h, x)
        /\ Plan = [snippet |-> Snippet, vex |-> Requested.vex, target |-> Requested.target,
                   deletes |-> Requested.target = "POINTS" /\ Snippet.deletes, read |-> read]

LEMMA ExecutesPlanned == IndInv /\ phase = "execute" => Planned
<1> SUFFICES ASSUME IndInv, phase = "execute" PROVE Planned
  OBVIOUS
<1>1. /\ params = Requested
      /\ F!Externals \subseteq DOMAIN data
      /\ Running = [snippet |-> Snippet, vex |-> params.vex, bound |-> TRUE]
      /\ params.target = "POINTS" => requiresDeletion = Snippet.deletes
  BY CachedIsRequested DEF F!Externals, F!Snippet, Snippet
<1>2. Snippet \in Snippets /\ session \in Sessions /\ hash = Snippet.hash
  BY DEF IndInv, TypeOK, PhaseSound, Snippet
<1>3. Snippet.parses /\ Snippet.valid
  BY <1>2, HashAssumption DEF IndInv, HashedIsValid
<1> DEFINE read == [x \in F!Externals |-> data[x]]
<1>4. read \in [F!Externals -> Val]
  BY <1>1 DEF IndInv, TypeOK
<1>5. \A x \in F!Externals : read[x] \in F!MayRead(session, x)
  <2> SUFFICES ASSUME NEW x \in F!Externals PROVE data[x] \in F!MayRead(session, x)
    OBVIOUS
  <2>1. data[x] \in F!Given(x)
    BY <1>1 DEF IndInv, DataGiven
  <2>2. Left(session, x) => F!MayRead(session, x) = F!Given(x)
    BY DEF Left, F!MayRead, F!Snippet, Snippet
  <2> QED
    BY <2>1, <2>2 DEF IndInv, Current
<1>6. Plan = [snippet |-> Snippet, vex |-> Requested.vex, target |-> Requested.target,
              deletes |-> Requested.target = "POINTS" /\ Snippet.deletes, read |-> read]
  <2>1. Running.snippet = Snippet /\ Running.vex = Requested.vex /\ Running.bound
    BY <1>1
  <2>2. [x \in Running.snippet.channels \cup Running.snippet.dollars |->
            IF Running.bound THEN data[x] ELSE NotFound] = read
    BY <2>1 DEF F!Externals, F!Snippet, Snippet
  <2>3. (params.target = "POINTS" /\ requiresDeletion)
          <=> (Requested.target = "POINTS" /\ Snippet.deletes)
    BY <1>1
  <2>4. (params.target = "POINTS" /\ requiresDeletion)
          = (Requested.target = "POINTS" /\ Snippet.deletes)
    BY <2>3
  <2> HIDE DEF read
  <2> QED
    BY <1>1, <2>1, <2>2, <2>4 DEF Plan
<1> HIDE DEF read
<1> QED
  BY <1>2, <1>3, <1>4, <1>5, <1>6 DEF Planned

LEMMA NextPlanned == (IndInv /\ phase = "execute" => Planned)'
BY ExecutesPlanned, PTL

\* A step that goes on to the execution is the one that makes the plan.
LEMMA PrepareStep ==
    ASSUME Planned', phase \in {"refresh", "compile"}, phase' = "execute", request' = request
    PROVE  F!Prepare
<1>1. PICK h \in Sessions : \E read \in [F!Externals -> Val] :
        /\ \A x \in F!Externals : read[x] \in F!MayRead(h, x)
        /\ Plan' = [snippet |-> Snippet, vex |-> Requested.vex, target |-> Requested.target,
                    deletes |-> Requested.target = "POINTS" /\ Snippet.deletes, read |-> read]
  <2>1. Snippet' = Snippet /\ Requested' = Requested /\ F!Externals' = F!Externals
    BY DEF Snippet, Requested, F!Externals, F!Snippet
  <2>2. \A h \in Sessions : \A x \in F!Externals : F!MayRead(h, x)' = F!MayRead(h, x)
    BY DEF F!MayRead, F!IsVariable, F!Channel, F!Given, F!Snippet
  <2>3. \E h \in Sessions : \E read \in [F!Externals' -> Val] :
          /\ \A x \in F!Externals' : read[x] \in F!MayRead(h, x)'
          /\ Plan' = [snippet |-> Snippet', vex |-> Requested'.vex, target |-> Requested'.target,
                      deletes |-> Requested'.target = "POINTS" /\ Snippet'.deletes,
                      read |-> read]
    BY DEF Planned
  <2> QED
    BY <2>1, <2>2, <2>3
<1>2. Snippet.parses /\ Snippet.valid
  BY DEF Planned, Snippet
<1>3. Stage = "preparing" /\ Stage' = "executing"
  BY DEF Stage
<1> QED
  BY <1>1, <1>2, <1>3 DEF F!Prepare, Snippet, Requested, F!Snippet

\* The two ways to the execution are Prepare, whatever ends a cook before it is Fail, and
\* the steps in between stutter.
LEMMA StepImplements == IndInv /\ IndInv' /\ [Next]_vars => [F!Next]_F!vars
<1> SUFFICES ASSUME IndInv, IndInv', [Next]_vars PROVE F!Next \/ UNCHANGED F!vars
  OBVIOUS
<1>0. phase' = "execute" => Planned'
  BY NextPlanned
<1>1. CASE Cook
  <2>1. Stage = "idle" /\ Stage' = "preparing" /\ Plan = <<>> /\ Plan' = <<>>
    BY <1>1 DEF Cook, Stage, Plan
  <2>2. request' \in [snippet : Snippets, params : Params]
    BY <1>1 DEF Cook
  <2> QED
    BY <2>1, <2>2 DEF F!Next, F!Begin
<1>2. ASSUME phase \notin {"idle", "execute"}, phase' \notin {"idle", "execute"},
             request' = request
      PROVE  UNCHANGED F!vars
  BY <1>2 DEF F!vars, Stage, Plan
<1>3. ASSUME phase \notin {"idle", "execute"}, Return
      PROVE  F!Next
  BY <1>3 DEF Return, F!Next, F!Fail, F!Return, Stage, Plan
<1>4. CASE Recompile
  BY <1>2, <1>4 DEF Recompile
<1>5. CASE Parse
  BY <1>2, <1>3, <1>5 DEF Parse
<1>6. CASE Evaluate
  <2>1. /\ phase \in {"evaluate", "refresh"} /\ request' = request
        /\ phase' = IF phase = "evaluate" THEN "compile" ELSE "execute"
    BY <1>6 DEF Evaluate
  <2>2. CASE phase = "evaluate"
    BY <1>2, <2>1, <2>2
  <2>3. CASE phase = "refresh"
    BY <1>0, <2>1, <2>3, PrepareStep DEF F!Next
  <2> QED
    BY <2>1, <2>2, <2>3
<1>7. CASE EvaluateThrows
  BY <1>3, <1>7 DEF EvaluateThrows
<1>8. CASE Compile
  BY <1>0, <1>8, PrepareStep DEF Compile, F!Next
<1>9. CASE CompileFails
  BY <1>3, <1>9 DEF CompileFails
<1>10. CASE CompileThrows
  BY <1>3, <1>10 DEF CompileThrows
<1>11. CASE Execute
  BY <1>11 DEF Execute, Return, F!Next, F!Execute, F!Return, Stage, Plan
<1>12. CASE UNCHANGED vars
  BY <1>12 DEF vars, cache, F!vars, Stage, Plan, Running
<1> QED
  BY <1>1, <1>4, <1>5, <1>6, <1>7, <1>8, <1>9, <1>10, <1>11, <1>12 DEF Next

\* Whatever a cook of the node executes, one without any cache could have executed.
THEOREM HoudiniCookImplementsFreshCook == Spec => ImplementsFreshCook
<1>1. Init => F!Init
  BY DEF Init, F!Init, Stage, Plan
<1> QED
  BY <1>1, NodeSound, StepImplements, PTL DEF Spec, ImplementsFreshCook, F!Spec
=============================================================================
