---------------------------- MODULE CodeAnalyzer ----------------------------
(***************************************************************************)
(* The walk of the code analyzer (connect and path in                      *)
(* src/code_analyzer.c): from the entry points of a file along the edges   *)
(* of its graph, with the number of bytes that the code has pushed. A node *)
(* is entered once, with the number of bytes of the first way that leads   *)
(* to it. What the walk finds wrong it warns of.                           *)
(*                                                                         *)
(* A graph has the nodes of a file, counted from 0, its labels, the node   *)
(* at each address that has one, and its entry points. A node is a         *)
(* bytecode: its kind, instruction and number or name.                     *)
(***************************************************************************)
EXTENDS Integers, Sequences, FiniteSets

CONSTANTS
  Files,          \* what there is to analyze
  Analyzed(_),    \* the graph the front end for a file makes of it
  MAX_CODE_SIZE

ASSUME SizeAssumption == MAX_CODE_SIZE \in Nat

\* The labels, addresses and entry points of a graph name nodes.
IsGraph(g) ==
  /\ g.nodes \in Seq([kind : STRING, inst : STRING, num : Nat, image : Seq(STRING), at : Nat])
  /\ g.entry_points \in Seq(Nat)
  /\ DOMAIN g.labels \subseteq Nat
  /\ \A j \in DOMAIN g.labels : g.labels[j].node \in Nat
  /\ DOMAIN g.ip_nodes \subseteq Nat
  /\ \A ip \in DOMAIN g.ip_nodes : g.ip_nodes[ip] \in Nat

ASSUME GraphAssumption == \A f \in Files : IsGraph(Analyzed(f))

VARIABLES
  file, graph,
  entered,    \* entry points whose walk has begun
  calls,      \* calls of path to come, those of the innermost caller first
  visited,    \* nodes
  sp,         \* of each node, the number of bytes pushed where it was entered
  warnings    \* a node, and what is wrong there

vars == <<file, graph, entered, calls, visited, sp, warnings>>

Nodes == 0 .. Len(graph.nodes) - 1
Node(i) == graph.nodes[i + 1]

-----------------------------------------------------------------------------
(* Edges *)

NoNode == -1

Relative == {"JMPR", "JMPRZ", "JMPRN", "JMPRC", "JMPRNZ", "JMPRNN", "JMPRNC", "CALLR"}
Jumping == {"JMP", "JMPR"}
Calling == {"CALL", "CALLR"}
Branching == (Relative \ {"JMPR"}) \cup {"CALL"}
Pushing == {"PUSHA", "PUSHB", "DECSP"}
Popping == {"POPA", "POPB", "INCSP"}
Ending == {"RET", "HLT", "JMPA", "JMPAR"}

InstructionKinds == {"BINST", "BINSTHEX", "BINSTHEX2", "BINSTLABEL", "BINSTRELLABEL"}
IsCode(i) == Node(i).kind \in InstructionKinds \cup {"BSETLABEL"}

Smallest(numbers) == CHOOSE n \in numbers : \A m \in numbers : n <= m

\* The first label of a name; a name that the file does not define has no node.
search_label(image) ==
  LET named == {j \in DOMAIN graph.labels : graph.labels[j].image = image}
  IN  IF named = {} THEN NoNode ELSE graph.labels[Smallest(named)].node

NodeAt(ip) == IF ip \in DOMAIN graph.ip_nodes THEN graph.ip_nodes[ip] ELSE NoNode

\* (int16_t)
Signed(num) == IF num < 32768 THEN num ELSE num - 65536

\* Without the byte of the opcode.
JumpOfNumberAlone(i) ==
  LET own == {ip \in DOMAIN graph.ip_nodes : graph.ip_nodes[ip] = i}
      ip  == IF own = {} THEN NoNode ELSE Smallest(own)
      to  == ip + Signed(Node(i).num)
  IN  IF Node(i).inst \in Relative /\ to \in 0 .. MAX_CODE_SIZE - 1 THEN NodeAt(to) ELSE ip

\* A jump that has no name. A relative one is followed from its own address if that
\* address is the node's own, and not that of a label in front of it; an absolute one,
\* and one that leaves the code, goes to the node that has its address as number.
JumpOfNumber(i) ==
  LET own == {ip \in DOMAIN graph.ip_nodes : graph.ip_nodes[ip] = i}
      ip  == IF own = {} THEN NoNode ELSE Smallest(own)
      to  == ip + 1 + Signed(Node(i).num)
  IN  IF Node(i).inst \in Relative /\ to \in 0 .. MAX_CODE_SIZE - 1 THEN NodeAt(to) ELSE ip

Jump(i) == IF Node(i).kind = "BINSTHEX2" THEN JumpOfNumber(i) ELSE search_label(Node(i).image)

CallsExit(i) == Node(i).kind = "BINSTLABEL" /\ Node(i).inst = "CALL" /\ Node(i).image = << "exit" >>

Stops(i) == ~IsCode(i) \/ Node(i).inst \in Ending \/ CallsExit(i)

NextOf(i) ==
  CASE Stops(i) -> NoNode
    [] ~Stops(i) /\ Node(i).inst \in Jumping -> Jump(i)
    [] OTHER -> i + 1

BranchOf(i) == IF Node(i).inst \in Branching /\ ~CallsExit(i) THEN Jump(i) ELSE NoNode

-----------------------------------------------------------------------------
(* The number of bytes pushed *)

After(i, pushed) ==
  CASE Node(i).inst \in Pushing -> pushed + 2
    [] Node(i).inst \in Popping -> pushed - 2
    [] OTHER -> pushed

\* What is called starts with nothing pushed.
AtBranch(i, pushed) == IF Node(i).inst \in Calling THEN 0 ELSE After(i, pushed)

Warning(i, what) == [node |-> i, what |-> what]

\* One pop too many goes unnoticed.
NegativeByTwo(call) == IF call.sp < -2 THEN {Warning(call.node, "sp < 0")} ELSE {}

Negative(call) == IF call.sp < 0 THEN {Warning(call.node, "sp < 0")} ELSE {}

WrongAt(i, pushed) ==
  {Warning(i, what) : what \in
    {w \in {"flow"} : ~IsCode(i)} \cup
    {w \in {"RET"} : Node(i).inst = "RET" /\ pushed # 0} \cup
    {w \in {"offset"} : Node(i).inst \in {"PEEKAR", "PUSHAR"} /\ pushed < Node(i).num} \cup
    {w \in {"empty"} : Node(i).inst \in {"PEEKAR", "PUSHAR", "PEEKA", "PEEKB"} /\ pushed < 2}}

-----------------------------------------------------------------------------
Init ==
  /\ file \in Files
  /\ graph = Analyzed(file)
  /\ entered = 0 /\ calls = << >> /\ visited = {} /\ warnings = {}
  /\ sp = [i \in Nodes |-> -1]

ConnectAgain ==
  /\ calls = << >> /\ entered < Len(graph.entry_points)
  /\ calls' = << [node |-> graph.entry_points[entered + 1], sp |-> 0] >>
  /\ UNCHANGED <<file, graph, entered, visited, sp, warnings>>

connect ==
  /\ calls = << >> /\ entered < Len(graph.entry_points)
  /\ entered' = entered + 1
  /\ calls' = << [node |-> graph.entry_points[entered + 1], sp |-> 0] >>
  /\ UNCHANGED <<file, graph, visited, sp, warnings>>

To(i, pushed) == IF i = NoNode THEN << >> ELSE << [node |-> i, sp |-> pushed] >>

NextOrBranch(i, pushed) ==
  IF NextOf(i) # NoNode THEN To(NextOf(i), After(i, pushed)) ELSE To(BranchOf(i), AtBranch(i, pushed))

\* The calls of path for a node.
CallsFor(i, pushed) == To(NextOf(i), After(i, pushed)) \o To(BranchOf(i), AtBranch(i, pushed))

path ==
  /\ calls # << >>
  /\ LET call == Head(calls)
         i    == call.node
     IN  \/ /\ i \notin Nodes
            /\ warnings' = warnings \cup Negative(call) \cup {Warning(i, "node >")}
            /\ calls' = Tail(calls)
            /\ UNCHANGED <<visited, sp>>
         \/ /\ i \in visited
            /\ warnings' = warnings \cup Negative(call)
            /\ calls' = Tail(calls)
            /\ UNCHANGED <<visited, sp>>
         \/ /\ i \in Nodes \ visited
            /\ visited' = visited \cup {i}
            /\ sp' = [sp EXCEPT ![i] = call.sp]
            /\ warnings' = warnings \cup Negative(call) \cup WrongAt(i, call.sp)
            /\ calls' = CallsFor(i, call.sp) \o Tail(calls)
  /\ UNCHANGED <<file, graph, entered>>

Next == connect \/ path

Spec == Init /\ [][Next]_vars /\ WF_vars(Next)

Finished == calls = << >> /\ entered = Len(graph.entry_points)

-----------------------------------------------------------------------------
(* Invariants *)

TypeOK ==
  /\ entered \in 0 .. Len(graph.entry_points)
  /\ visited \subseteq Nodes
  /\ sp \in [Nodes -> Int]
  /\ calls \in Seq([node : Nat, sp : Int])

InCalls(i) == \E k \in DOMAIN calls : calls[k].node = i
Outside(i) == i \notin Nodes /\ Warning(i, "node >") \in warnings

\* Entry points whose walk has begun, and where the edges of visited nodes lead.
Targets ==
  {graph.entry_points[e] : e \in 1 .. entered} \cup
  UNION {{NextOf(i), BranchOf(i)} \ {NoNode} : i \in visited}

\* An edge of a node that was visited is followed, however deep path has called itself and
\* in whatever order calls return: it leads to a visited node, to one that a call waits
\* for, or out of the graph, which is warned of.
FollowsEdges == \A i \in Targets : i \in visited \/ InCalls(i) \/ Outside(i)

\* However the code loops, the walk of a file ends.
Finishes == <>Finished

-----------------------------------------------------------------------------
(* What the walk is to find: nodes that entries and edges lead to, and one number of bytes *)
(* for each that fits all ways that lead to it.                                            *)

Solution(nodes, depth) ==
  /\ \A e \in DOMAIN graph.entry_points :
       graph.entry_points[e] \in nodes /\ depth[graph.entry_points[e]] = 0
  /\ \A i \in nodes \cap Nodes :
       /\ NextOf(i) # NoNode => NextOf(i) \in nodes /\ depth[NextOf(i)] = After(i, depth[i])
       /\ BranchOf(i) # NoNode => BranchOf(i) \in nodes /\ depth[BranchOf(i)] = AtBranch(i, depth[i])

Right(nodes, depth) ==
  /\ nodes \subseteq Nodes
  /\ \A i \in nodes : depth[i] >= 0 /\ WrongAt(i, depth[i]) = {}

\* The walk visits no more than it has to and knows the depth of what it visits.
KnowsDepths ==
  \A nodes \in SUBSET Nat, depth \in [Nat -> Int] :
    Solution(nodes, depth) => visited \subseteq nodes /\ \A i \in visited : sp[i] = depth[i]

\* Where there is one depth for every node, the walk is silent if and only if the code is right.
WarnsExactly ==
  \A nodes \in SUBSET Nat, depth \in [Nat -> Int] :
    Solution(nodes, depth) =>
      /\ Right(nodes, depth) => warnings = {}
      /\ (Finished /\ warnings = {}) => Solution(visited, depth) /\ Right(visited, depth)

=============================================================================
