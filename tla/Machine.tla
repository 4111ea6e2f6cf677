------------------------------ MODULE Machine -------------------------------
(***************************************************************************)
(* A compiled kernel running on one voxel or point: what llvm makes of the *)
(* blocks that Generator leaves, and what the functions generated for them *)
(* do.  A machine m is at the start of a block; memory is by the names of  *)
(* Instructions, and out is what was given to setvoxel or setattribute.    *)
(***************************************************************************)
EXTENDS StandardFunctions

\* A call of the kernel for the attribute with index token, write_index.
NewMachine(blocks, token, input, externals) ==
  [blocks |-> blocks, block |-> 1, from |-> 0, regs |-> <<>>, memory |-> externals,
   token |-> token, input |-> input, out |-> <<>>, done |-> FALSE]

\* An operand: a constant or a register.
ValueIn(m, operand) == IF operand.const THEN operand.v ELSE m.regs[operand.v]

ReadAt(m, address) ==
  IF address[2] = 0 THEN m.memory[address[1]] ELSE m.memory[address[1]][address[2]]

WriteAt(m, address, v) ==
  IF address[2] = 0 THEN [m EXCEPT !.memory = (address[1] :> v) @@ @]
  ELSE [m EXCEPT !.memory[address[1]][address[2]] = v]

SetRegister(m, n, v) == [m EXCEPT !.regs = (n :> v) @@ @]

\* The floor of a modulus is taken element by element where an operand is an array.
CallIn(i, vals) ==
  LET name == i.to[1]
      each == name = "floormod"
      Of(k) == IF each THEN [a \in DOMAIN vals |-> At(vals[a], i.args[a].type[2], k)] ELSE vals
  IN  Elements(IF each THEN i.type[2] ELSE 1,
               LAMBDA k : CallBody(name, i.to[2], i.to[3], Of(k)))

Execute1(m, i) ==
  LET vals == [k \in DOMAIN i.args |-> ValueIn(m, i.args[k])]
  IN  CASE i.op = "LOAD" -> SetRegister(m, i.dst, ReadAt(m, vals[1]))
        [] i.op = "STORE" -> WriteAt(m, vals[2], vals[1])
        [] i.op \in {"GETVOXEL", "GETATTRIBUTE"} -> WriteAt(m, vals[1], m.input[i.to[1]])
        [] i.op \in {"SETVOXEL", "SETATTRIBUTE"} ->
             [m EXCEPT !.out = (i.to[1] :> IF i.args[1].ptr THEN ReadAt(m, vals[1]) ELSE vals[1])
                                 @@ @]
        [] i.op = "INDEXED" -> SetRegister(m, i.dst, Bool(vals[1] = m.token))
        [] i.op \in {"PHI", "PHIPTR"} ->
             LET k == CHOOSE k \in DOMAIN i.to : i.to[k] = m.from
             IN  SetRegister(m, i.dst, ValueIn(m, i.args[k]))
        [] i.op = "CALL" -> SetRegister(m, i.dst, CallIn(i, vals))
        [] i.op = "RET" -> [m EXCEPT !.done = TRUE]
        [] i.op = "BR" -> [m EXCEPT !.from = m.block, !.block = i.to[1]]
        [] i.op = "CONDBR" ->
             [m EXCEPT !.from = m.block, !.block = IF vals[1] = 1 THEN i.to[1] ELSE i.to[2]]
        [] OTHER ->
             SetRegister(m, i.dst,
               Compute(i.op, i.type, [k \in DOMAIN i.args |-> i.args[k].type], vals))

RECURSIVE RunFrom(_, _, _)
RunFrom(m, instructions, k) ==
  IF m.done \/ k > Len(instructions) THEN m
  ELSE RunFrom(Execute1(m, instructions[k]), instructions, k + 1)

\* One block to its terminator.
RunBlock(m) == RunFrom(m, m.blocks[m.block], 1)
=============================================================================
