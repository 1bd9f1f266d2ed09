------------------------ MODULE CodeAnalyzer_proofs -------------------------
(***************************************************************************)
(* The walk of the code analyzer on a graph of any size: it follows every  *)
(* edge, visits nothing that no way leads to, knows the number of bytes    *)
(* pushed where all ways agree on it, and then warns if and only if        *)
(* something is wrong.                                                     *)
(***************************************************************************)
EXTENDS CodeAnalyzer, SequenceTheorems, WellFoundedInduction, TLAPS

-----------------------------------------------------------------------------
(* Numbers and sequences *)

LEMMA SmallestIsMember ==
  ASSUME NEW numbers \in SUBSET Nat, numbers # {}
  PROVE  Smallest(numbers) \in numbers
<1>1. PICK n \in numbers : \A m \in numbers : <<m, n>> \notin OpToRel(<, Nat)
  BY WFMin, NatLessThanWellFounded
<1>2. ASSUME NEW m \in numbers PROVE n <= m
  <2>1. <<m, n>> \notin {pair \in Nat \X Nat : pair[1] < pair[2]}
    BY <1>1, Zenon DEF OpToRel
  <2> QED
    BY <2>1
<1> QED
  BY <1>2 DEF Smallest
\* The elements of a sequence.
Members(s) == {s[k] : k \in DOMAIN s}

LEMMA MembersOfConcat ==
  ASSUME NEW S, NEW s \in Seq(S), NEW t \in Seq(S)
  PROVE  Members(s \o t) = Members(s) \cup Members(t)
<1> DEFINE both == s \o t
<1>1. /\ both \in Seq(S) /\ Len(both) = Len(s) + Len(t)
      /\ \A i \in 1 .. Len(s) + Len(t) : both[i] = IF i <= Len(s) THEN s[i] ELSE t[i - Len(s)]
  BY ConcatProperties
<1>2. /\ Len(s) \in Nat /\ DOMAIN s = 1 .. Len(s)
      /\ Len(t) \in Nat /\ DOMAIN t = 1 .. Len(t)
      /\ DOMAIN both = 1 .. Len(s) + Len(t)
  BY <1>1, LenProperties
<1> HIDE DEF both
<1>3. ASSUME NEW k \in DOMAIN both PROVE both[k] \in Members(s) \cup Members(t)
  <2>1. CASE k <= Len(s)
    BY <2>1, <1>1, <1>2 DEF Members
  <2>2. CASE k > Len(s)
    <3>1. k - Len(s) \in DOMAIN t /\ both[k] = t[k - Len(s)]
      BY <2>2, <1>1, <1>2
    <3> QED
      BY <3>1 DEF Members
  <2> QED
    BY <2>1, <2>2, <1>2
<1>4. ASSUME NEW k \in DOMAIN s PROVE s[k] \in Members(both)
  <2>1. k \in DOMAIN both /\ both[k] = s[k]
    BY <1>1, <1>2
  <2> QED
    BY <2>1 DEF Members
<1>5. ASSUME NEW k \in DOMAIN t PROVE t[k] \in Members(both)
  <2>1. k + Len(s) \in DOMAIN both /\ both[k + Len(s)] = t[k]
    BY <1>1, <1>2
  <2> QED
    BY <2>1 DEF Members
<1>6. Members(both) = Members(s) \cup Members(t)
  BY <1>3, <1>4, <1>5 DEF Members
<1> QED
  BY <1>6 DEF both

LEMMA MembersOfHeadTail ==
  ASSUME NEW S, NEW s \in Seq(S), s # << >>
  PROVE  /\ Head(s) \in S /\ Tail(s) \in Seq(S)
         /\ Members(s) = {Head(s)} \cup Members(Tail(s))
<1> DEFINE rest == Tail(s)
<1>1. /\ Head(s) \in S /\ rest \in Seq(S)
      /\ Len(rest) = Len(s) - 1
      /\ \A i \in 1 .. Len(rest) : rest[i] = s[i + 1]
  BY HeadTailProperties
<1>2. /\ Len(s) \in Nat \ {0} /\ DOMAIN s = 1 .. Len(s)
      /\ DOMAIN rest = 1 .. Len(s) - 1
      /\ Head(s) = s[1]
  BY <1>1, LenProperties, EmptySeq
<1> HIDE DEF rest
<1>3. ASSUME NEW k \in DOMAIN s PROVE s[k] \in {Head(s)} \cup Members(rest)
  <2>1. CASE k = 1
    BY <2>1, <1>2
  <2>2. CASE k # 1
    <3>1. k - 1 \in DOMAIN rest /\ rest[k - 1] = s[k]
      BY <2>2, <1>1, <1>2
    <3> QED
      BY <3>1 DEF Members
  <2> QED
    BY <2>1, <2>2
<1>4. ASSUME NEW k \in DOMAIN rest PROVE rest[k] \in Members(s)
  <2>1. k + 1 \in DOMAIN s /\ s[k + 1] = rest[k]
    BY <1>1, <1>2
  <2> QED
    BY <2>1 DEF Members
<1>5. Head(s) \in Members(s)
  BY <1>2 DEF Members
<1>6. Members(s) = {Head(s)} \cup Members(rest)
  BY <1>3, <1>4, <1>5 DEF Members
<1> QED
  BY <1>1, <1>6 DEF rest

-----------------------------------------------------------------------------
(* Edges *)

Call == [node : Nat, sp : Int]

\* The edges of a node lead to numbers of nodes, which the graph need not have.
LEMMA EdgesAreNumbers ==
  ASSUME IsGraph(graph), NEW i \in Nodes
  PROVE  NextOf(i) \in Nat \cup {NoNode} /\ BranchOf(i) \in Nat \cup {NoNode}
<1>1. ASSUME NEW image PROVE search_label(image) \in Nat \cup {NoNode}
  <2> DEFINE named == {j \in DOMAIN graph.labels : graph.labels[j].image = image}
  <2>1. CASE named = {}
    BY <2>1 DEF search_label
  <2>2. CASE named # {}
    <3>1. Smallest(named) \in named
      BY <2>2, SmallestIsMember DEF IsGraph
    <3>2. graph.labels[Smallest(named)].node \in Nat
      BY <3>1 DEF IsGraph
    <3> QED
      BY <2>2, <3>2 DEF search_label
  <2> QED
    BY <2>1, <2>2
<1>2. JumpOfNumber(i) \in Nat \cup {NoNode}
  <2> DEFINE own == {ip \in DOMAIN graph.ip_nodes : graph.ip_nodes[ip] = i}
             ip  == IF own = {} THEN NoNode ELSE Smallest(own)
  <2>1. ip \in Nat \cup {NoNode}
    <3>1. own # {} => Smallest(own) \in own
      BY SmallestIsMember DEF IsGraph
    <3> QED
      BY <3>1 DEF IsGraph
  <2>2. ASSUME NEW to PROVE NodeAt(to) \in Nat \cup {NoNode}
    BY DEF NodeAt, IsGraph
  <2> QED
    BY <2>1, <2>2 DEF JumpOfNumber
<1>3. Jump(i) \in Nat \cup {NoNode}
  BY <1>1, <1>2 DEF Jump
<1>4. NextOf(i) \in Nat \cup {NoNode}
  <2>1. i + 1 \in Nat
    BY DEF Nodes, IsGraph
  <2> QED
    BY <2>1, <1>3 DEF NextOf, NoNode
<1> QED
  BY <1>3, <1>4 DEF BranchOf

LEMMA AfterIsNumber ==
  ASSUME NEW i, NEW pushed \in Int
  PROVE  After(i, pushed) \in Int /\ AtBranch(i, pushed) \in Int
BY DEF After, AtBranch

EdgeCall(n, bytes) == {c \in {[node |-> n, sp |-> bytes]} : n # NoNode}

\* The calls of path for a node are those for its edges.
LEMMA CallsAreForEdges ==
  ASSUME IsGraph(graph), NEW i \in Nodes, NEW pushed \in Int
  PROVE  /\ CallsFor(i, pushed) \in Seq(Call)
         /\ Members(CallsFor(i, pushed)) =
              EdgeCall(NextOf(i), After(i, pushed)) \cup EdgeCall(BranchOf(i), AtBranch(i, pushed))
<1>1. ASSUME NEW n \in Nat \cup {NoNode}, NEW bytes \in Int
      PROVE  /\ To(n, bytes) \in Seq(Call)
             /\ Members(To(n, bytes)) = EdgeCall(n, bytes)
  <2>1. CASE n = NoNode
    <3>1. To(n, bytes) = << >>
      BY <2>1 DEF To
    <3> QED
      BY <3>1, <2>1 DEF Members, EdgeCall
  <2>2. CASE n # NoNode
    <3>1. To(n, bytes) = << [node |-> n, sp |-> bytes] >> /\ [node |-> n, sp |-> bytes] \in Call
      BY <2>2 DEF To, Call
    <3> QED
      BY <3>1, <2>2 DEF Members, EdgeCall
  <2> QED
    BY <2>1, <2>2
<1> DEFINE next == To(NextOf(i), After(i, pushed))
           branch == To(BranchOf(i), AtBranch(i, pushed))
<1>2. /\ next \in Seq(Call) /\ Members(next) = EdgeCall(NextOf(i), After(i, pushed))
      /\ branch \in Seq(Call) /\ Members(branch) = EdgeCall(BranchOf(i), AtBranch(i, pushed))
  BY <1>1, EdgesAreNumbers, AfterIsNumber
<1>3. CallsFor(i, pushed) = next \o branch
  BY DEF CallsFor
<1> HIDE DEF next, branch
<1>4. next \o branch \in Seq(Call) /\ Members(next \o branch) = Members(next) \cup Members(branch)
  BY <1>2, ConcatProperties, MembersOfConcat
<1> QED
  BY <1>2, <1>3, <1>4

TakesCall(call, rest) ==
  /\ Members(calls) = {call} \cup rest
  /\ calls' \in Seq(Call)
  /\ UNCHANGED <<file, graph, entered>>
  /\ \/ /\ call.node \notin Nodes
        /\ Members(calls') = rest
        /\ warnings' = warnings \cup Negative(call) \cup {Warning(call.node, "node >")}
        /\ UNCHANGED <<visited, sp>>
     \/ /\ call.node \in visited
        /\ Members(calls') = rest
        /\ warnings' = warnings \cup Negative(call)
        /\ UNCHANGED <<visited, sp>>
     \/ /\ call.node \in Nodes \ visited
        /\ Members(calls') =
             rest \cup EdgeCall(NextOf(call.node), After(call.node, call.sp))
                  \cup EdgeCall(BranchOf(call.node), AtBranch(call.node, call.sp))
        /\ warnings' = warnings \cup Negative(call) \cup WrongAt(call.node, call.sp)
        /\ visited' = visited \cup {call.node}
        /\ sp' = [sp EXCEPT ![call.node] = call.sp]

\* A step of path takes the first call: of no node, of a node that was visited, or of one
\* that was not, which adds the calls for its edges.
LEMMA PathTakesCall ==
  ASSUME IsGraph(graph), TypeOK, path
  PROVE  \E call \in Call, rest \in SUBSET Call : TakesCall(call, rest)
<1> DEFINE call == Head(calls)
           more == Tail(calls)
<1>1. calls \in Seq(Call) /\ calls # << >>
  BY DEF TypeOK, Call, path
<1>2. call \in Call /\ more \in Seq(Call) /\ Members(calls) = {call} \cup Members(more)
  BY <1>1, MembersOfHeadTail
<1>3. Members(more) \in SUBSET Call
  BY <1>2, LenProperties, ElementOfSeq DEF Members
<1>4. ASSUME call.node \in Nodes
      PROVE  /\ CallsFor(call.node, call.sp) \o more \in Seq(Call)
             /\ Members(CallsFor(call.node, call.sp) \o more) =
                  Members(more) \cup EdgeCall(NextOf(call.node), After(call.node, call.sp))
                       \cup EdgeCall(BranchOf(call.node), AtBranch(call.node, call.sp))
  <2>1. call.sp \in Int
    BY <1>2 DEF Call
  <2>2. /\ CallsFor(call.node, call.sp) \in Seq(Call)
        /\ Members(CallsFor(call.node, call.sp)) =
             EdgeCall(NextOf(call.node), After(call.node, call.sp))
               \cup EdgeCall(BranchOf(call.node), AtBranch(call.node, call.sp))
    BY <1>4, <2>1, CallsAreForEdges
  <2> HIDE DEF call, more
  <2>3. /\ CallsFor(call.node, call.sp) \o more \in Seq(Call)
        /\ Members(CallsFor(call.node, call.sp) \o more) =
             Members(CallsFor(call.node, call.sp)) \cup Members(more)
    BY <1>2, <2>2, ConcatProperties, MembersOfConcat
  <2> QED
    BY <2>2, <2>3
<1>5. /\ UNCHANGED <<file, graph, entered>>
      /\ \/ /\ call.node \notin Nodes
            /\ warnings' = warnings \cup Negative(call) \cup {Warning(call.node, "node >")}
            /\ calls' = more
            /\ UNCHANGED <<visited, sp>>
         \/ /\ call.node \in visited
            /\ warnings' = warnings \cup Negative(call)
            /\ calls' = more
            /\ UNCHANGED <<visited, sp>>
         \/ /\ call.node \in Nodes \ visited
            /\ visited' = visited \cup {call.node}
            /\ sp' = [sp EXCEPT ![call.node] = call.sp]
            /\ warnings' = warnings \cup Negative(call) \cup WrongAt(call.node, call.sp)
            /\ calls' = CallsFor(call.node, call.sp) \o more
  BY Zenon DEF path
<1> HIDE DEF call, more
<1>6. calls' \in Seq(Call)
  BY <1>2, <1>4, <1>5
<1> call \in Call /\ Members(more) \in SUBSET Call
  BY <1>2, <1>3
<1> WITNESS call \in Call, Members(more) \in SUBSET Call
<1> QED
  BY <1>2, <1>4, <1>5, <1>6 DEF TakesCall

-----------------------------------------------------------------------------
(* Invariants *)

IInv == IsGraph(graph) /\ TypeOK

\* The walk from an entry point begins with nothing pushed.
LEMMA ConnectAddsCall ==
  ASSUME IInv, connect
  PROVE  /\ graph.entry_points[entered + 1] \in Nat
         /\ calls' \in Seq(Call) /\ Members(calls) = {}
         /\ Members(calls') = {[node |-> graph.entry_points[entered + 1], sp |-> 0]}
<1>1. entered + 1 \in 1 .. Len(graph.entry_points) /\ graph.entry_points \in Seq(Nat)
  BY LenProperties DEF IInv, IsGraph, TypeOK, connect
<1>2. graph.entry_points[entered + 1] \in Nat
  BY <1>1, ElementOfSeq
<1>3. calls' = << [node |-> graph.entry_points[entered + 1], sp |-> 0] >> /\ calls = << >>
  BY DEF connect
<1>4. [node |-> graph.entry_points[entered + 1], sp |-> 0] \in Call
  BY <1>2 DEF Call
<1> QED
  BY <1>2, <1>3, <1>4 DEF Members

LEMMA IInvInductive == IInv /\ [Next]_vars => IInv'
<1> SUFFICES ASSUME IInv, [Next]_vars PROVE IInv'
  OBVIOUS
<1>1. CASE connect
  <2>1. calls' \in Seq(Call)
    BY <1>1, ConnectAddsCall
  <2>2. Len(graph.entry_points) \in Nat
    BY LenProperties DEF IInv, IsGraph
  <2> QED
    BY <1>1, <2>1, <2>2 DEF connect, IInv, TypeOK, Nodes, Call
<1>2. CASE path
  <2>1. IsGraph(graph) /\ TypeOK
    BY DEF IInv
  <2>2. PICK call \in Call, rest \in SUBSET Call : TakesCall(call, rest)
    BY <1>2, <2>1, PathTakesCall
  <2> QED
    BY <2>1, <2>2 DEF TakesCall, IInv, TypeOK, Nodes, Call
<1>3. CASE UNCHANGED vars
  BY <1>3 DEF vars, IInv, TypeOK, Nodes
<1> QED
  BY <1>1, <1>2, <1>3 DEF Next

LEMMA IInvHolds == Spec => []IInv
<1>1. Init => IInv
  <2> SUFFICES ASSUME Init PROVE IInv
    OBVIOUS
  <2>1. IsGraph(graph)
    BY GraphAssumption DEF Init
  <2>2. Len(graph.entry_points) \in Nat
    BY <2>1, LenProperties DEF IsGraph
  <2> QED
    BY <2>1, <2>2 DEF Init, IInv, TypeOK
<1> QED
  BY <1>1, IInvInductive, PTL DEF Spec

\* Calls of path and the nodes it has visited are what TypeOK says, for any graph.
THEOREM TypeCorrect == Spec => []TypeOK
BY IInvHolds, PTL DEF IInv

LEMMA GraphKept ==
  ASSUME UNCHANGED graph
  PROVE  /\ Nodes' = Nodes
         /\ \A i : NextOf(i)' = NextOf(i) /\ BranchOf(i)' = BranchOf(i)
         /\ \A i, pushed : /\ After(i, pushed)' = After(i, pushed)
                           /\ AtBranch(i, pushed)' = AtBranch(i, pushed)
                           /\ WrongAt(i, pushed)' = WrongAt(i, pushed)
BY DEF Nodes, Node, NextOf, BranchOf, After, AtBranch, WrongAt, Stops, IsCode, CallsExit, Jump,
       JumpOfNumber, NodeAt, search_label

\* A call waits for a node until it is visited or warned of.
LEMMA KeptByPath ==
  ASSUME UNCHANGED graph, NEW call \in Call, NEW rest \in SUBSET Call, TakesCall(call, rest),
         NEW i, i \in visited \/ InCalls(i) \/ Outside(i)
  PROVE  (i \in visited \/ InCalls(i) \/ Outside(i))'
<1>1. Nodes' = Nodes
  BY GraphKept
<1>2. CASE i \in visited
  BY <1>2 DEF TakesCall
<1>3. CASE Outside(i)
  BY <1>1, <1>3 DEF TakesCall, Outside
<1>4. CASE InCalls(i)
  <2>1. PICK waiting \in Members(calls) : waiting.node = i
    BY <1>4 DEF InCalls, Members
  <2>2. CASE waiting \in rest
    <3>1. waiting \in Members(calls')
      BY <2>2 DEF TakesCall
    <3> QED
      BY <2>1, <3>1 DEF InCalls, Members
  <2>3. CASE waiting = call
    BY <1>1, <2>1, <2>3 DEF TakesCall, Outside
  <2> QED
    BY <2>1, <2>2, <2>3 DEF TakesCall
<1> QED
  BY <1>2, <1>3, <1>4

\* The walk of any graph follows every edge of what it visits; when it has ended, entry
\* points and edges lead to visited nodes or are warned of.
THEOREM EveryEdgeFollowed == Spec => []FollowsEdges
<1>1. Init => FollowsEdges
  BY DEF Init, FollowsEdges, Targets
<1>2. IInv /\ FollowsEdges /\ [Next]_vars => FollowsEdges'
  <2> SUFFICES ASSUME IInv, FollowsEdges, [Next]_vars PROVE FollowsEdges'
    OBVIOUS
  <2>1. CASE connect
    <3>0. PICK first : first = graph.entry_points[entered + 1]
      OBVIOUS
    <3>1. /\ UNCHANGED graph /\ visited' = visited /\ warnings' = warnings
          /\ entered' = entered + 1 /\ entered \in Nat
      BY <2>1 DEF connect, IInv, TypeOK
    <3>2. Targets' \subseteq Targets \cup {first}
      BY <3>0, <3>1, GraphKept DEF Targets
    <3>3. InCalls(first)'
      BY <3>0, <2>1 DEF connect, InCalls
    <3>4. \A i : ~InCalls(i)
      BY <2>1 DEF connect, InCalls
    <3>5. \A i : Outside(i) => Outside(i)'
      BY <3>1, GraphKept DEF Outside
    <3> QED
      BY <3>1, <3>2, <3>3, <3>4, <3>5 DEF FollowsEdges
  <2>2. CASE path
    <3>1. PICK call \in Call, rest \in SUBSET Call : TakesCall(call, rest)
      BY <2>2, PathTakesCall DEF IInv
    <3>2. UNCHANGED <<graph, entered>>
      BY <3>1 DEF TakesCall
    <3>3. CASE visited' = visited
      <4>1. Targets' = Targets
        BY <3>2, <3>3, GraphKept DEF Targets
      <4> QED
        BY <3>1, <3>2, <4>1, KeptByPath DEF FollowsEdges
    <3>4. CASE call.node \in Nodes \ visited /\ visited' = visited \cup {call.node}
      <4> DEFINE edges == {NextOf(call.node), BranchOf(call.node)} \ {NoNode}
      <4>1. Targets' = Targets \cup edges
        BY <3>2, <3>4, GraphKept DEF Targets
      <4>2. ASSUME NEW i \in edges PROVE InCalls(i)'
        <5>1. PICK bytes : EdgeCall(i, bytes) \subseteq Members(calls')
          BY <3>1, <3>4 DEF TakesCall, IInv, TypeOK
        <5>2. [node |-> i, sp |-> bytes] \in Members(calls')
          BY <5>1 DEF EdgeCall
        <5>3. PICK k \in DOMAIN calls' : calls'[k] = [node |-> i, sp |-> bytes]
          BY <5>2 DEF Members
        <5> QED
          BY <5>3 DEF InCalls
      <4> QED
        BY <3>1, <3>2, <4>1, <4>2, KeptByPath DEF FollowsEdges
    <3> QED
      BY <3>1, <3>3, <3>4 DEF TakesCall
  <2>3. CASE UNCHANGED vars
    BY <2>3, GraphKept DEF vars, FollowsEdges, Targets, InCalls, Outside
  <2> QED
    BY <2>1, <2>2, <2>3 DEF Next
<1> QED
  BY <1>1, <1>2, IInvHolds, PTL DEF Spec

-----------------------------------------------------------------------------
(* Depths *)

\* What waits and what was visited fits a solution.
Fits(nodes, depth) ==
  /\ \A call \in Members(calls) : call.node \in nodes /\ call.sp = depth[call.node]
  /\ \A i \in visited : i \in nodes /\ sp[i] = depth[i]
  /\ Right(nodes, depth) => warnings = {}

LEMMA FitsKept ==
  ASSUME IInv, [Next]_vars, NEW nodes \in SUBSET Nat, NEW depth \in [Nat -> Int],
         Solution(nodes, depth), Fits(nodes, depth)
  PROVE  Fits(nodes, depth)'
<1>1. CASE connect
  <2>1. PICK first \in Nat : first = graph.entry_points[entered + 1]
    BY <1>1, ConnectAddsCall
  <2>2. Members(calls') = {[node |-> first, sp |-> 0]}
    BY <1>1, <2>1, ConnectAddsCall
  <2>3. entered + 1 \in DOMAIN graph.entry_points
    BY <1>1, LenProperties DEF connect, IInv, IsGraph, TypeOK
  <2>4. first \in nodes /\ depth[first] = 0
    BY <2>1, <2>3 DEF Solution
  <2>5. Right(nodes, depth)' = Right(nodes, depth)
    BY <1>1, GraphKept DEF connect, Right
  <2> QED
    BY <1>1, <2>2, <2>4, <2>5 DEF connect, Fits
<1>2. CASE path
  <2>1. PICK call \in Call, rest \in SUBSET Call : TakesCall(call, rest)
    BY <1>2, PathTakesCall DEF IInv
  <2>2. call.node \in nodes /\ call.sp = depth[call.node]
    BY <2>1 DEF TakesCall, Fits
  <2>3. \A other \in rest : other.node \in nodes /\ other.sp = depth[other.node]
    BY <2>1 DEF TakesCall, Fits
  <2>4. Right(nodes, depth)' = Right(nodes, depth)
    BY <2>1, GraphKept DEF TakesCall, Right
  <2>5. Right(nodes, depth) => Negative(call) = {}
    <3> SUFFICES ASSUME Right(nodes, depth) PROVE Negative(call) = {}
      OBVIOUS
    <3>1. ~(call.sp < 0)
      BY <2>2 DEF Right, Call
    <3> QED
      BY <3>1 DEF Negative
  <2>6. CASE visited' = visited /\ sp' = sp /\ Members(calls') = rest /\ call.node \notin Nodes
    BY <2>1, <2>2, <2>3, <2>4, <2>6 DEF Fits, Right
  <2>7. CASE visited' = visited /\ sp' = sp /\ Members(calls') = rest /\ warnings' = warnings \cup Negative(call)
    BY <2>3, <2>4, <2>5, <2>7 DEF Fits
  <2>8. CASE call.node \in Nodes \ visited /\ visited' = visited \cup {call.node}
    <3>1. ASSUME NEW new \in Members(calls') PROVE new.node \in nodes /\ new.sp = depth[new.node]
      <4>1. \A n, bytes : new \in EdgeCall(n, bytes) => n # NoNode /\ new.node = n /\ new.sp = bytes
        BY DEF EdgeCall
      <4>2. CASE new \in rest
        BY <2>3, <4>2
      <4>3. CASE new \in EdgeCall(NextOf(call.node), After(call.node, call.sp))
        BY <2>2, <2>8, <4>1, <4>3, ZenonT(30) DEF Solution
      <4>4. CASE new \in EdgeCall(BranchOf(call.node), AtBranch(call.node, call.sp))
        BY <2>2, <2>8, <4>1, <4>4, ZenonT(30) DEF Solution
      <4> QED
        BY <2>1, <2>8, <4>2, <4>3, <4>4 DEF TakesCall, IInv, TypeOK
    <3>2. sp' = [sp EXCEPT ![call.node] = call.sp]
          /\ warnings' = warnings \cup Negative(call) \cup WrongAt(call.node, call.sp)
      BY <2>1, <2>8 DEF TakesCall, IInv, TypeOK
    <3>3. ASSUME NEW i \in visited' PROVE i \in nodes /\ sp'[i] = depth[i]
      BY <2>2, <2>8, <3>2 DEF Fits, IInv, TypeOK
    <3>4. Right(nodes, depth) => warnings' = {}
      BY <2>2, <2>5, <3>2 DEF Fits, Right
    <3> QED
      BY <2>4, <3>1, <3>3, <3>4 DEF Fits
  <2> QED
    BY <2>1, <2>6, <2>7, <2>8 DEF TakesCall
<1>3. CASE UNCHANGED vars
  BY <1>3, GraphKept DEF vars, Fits, Right
<1> QED
  BY <1>1, <1>2, <1>3 DEF Next

SolutionsFit ==
  \A nodes \in SUBSET Nat, depth \in [Nat -> Int] : Solution(nodes, depth) => Fits(nodes, depth)

LEMMA SolutionsAlwaysFit == Spec => []SolutionsFit
<1>1. Init => SolutionsFit
  BY DEF Init, SolutionsFit, Fits, Members
<1>2. IInv /\ SolutionsFit /\ [Next]_vars => SolutionsFit'
  <2> SUFFICES ASSUME IInv, SolutionsFit, [Next]_vars, NEW nodes \in SUBSET Nat, NEW depth \in [Nat -> Int],
                      Solution(nodes, depth)'
               PROVE  Fits(nodes, depth)'
    BY DEF SolutionsFit
  <2>1. UNCHANGED graph
    BY DEF Next, vars, connect, path
  <2>2. Solution(nodes, depth)
    BY <2>1, GraphKept DEF Solution
  <2> QED
    BY <2>2, FitsKept DEF SolutionsFit
<1> QED
  BY <1>1, <1>2, IInvHolds, PTL DEF Spec

\* The walk of any graph visits no node that a solution does without, and has the depth of
\* the solution for each that it visits, whatever way led it there first.
THEOREM DepthsKnown == Spec => []KnowsDepths
<1>1. SolutionsFit => KnowsDepths
  BY DEF SolutionsFit, KnowsDepths, Fits
<1> QED
  BY <1>1, SolutionsAlwaysFit, PTL

\* What is wrong at a visited node was warned of.
WarnedOf ==
  \A i \in visited : WrongAt(i, sp[i]) \subseteq warnings /\ Negative([node |-> i, sp |-> sp[i]]) \subseteq warnings

LEMMA WrongIsWarnedOf == Spec => []WarnedOf
<1>1. Init => WarnedOf
  BY DEF Init, WarnedOf
<1>2. IInv /\ WarnedOf /\ [Next]_vars => WarnedOf'
  <2> SUFFICES ASSUME IInv, WarnedOf, [Next]_vars, NEW i \in visited'
               PROVE  (WrongAt(i, sp[i]) \subseteq warnings)'
                      /\ (Negative([node |-> i, sp |-> sp[i]]) \subseteq warnings)'
    BY DEF WarnedOf
  <2>1. CASE i \in visited /\ sp'[i] = sp[i] /\ warnings \subseteq warnings' /\ UNCHANGED graph
    <3>1. WrongAt(i, sp[i]) \subseteq warnings /\ Negative([node |-> i, sp |-> sp[i]]) \subseteq warnings
      BY <2>1 DEF WarnedOf
    <3>2. WrongAt(i, sp[i])' = WrongAt(i, sp[i])
      BY <2>1 DEF WrongAt, IsCode, Node
    <3>3. Negative([node |-> i, sp |-> sp[i]])' = Negative([node |-> i, sp |-> sp[i]])
      BY <2>1 DEF Negative
    <3> QED
      BY <2>1, <3>1, <3>2, <3>3
  <2>2. CASE connect \/ UNCHANGED vars
    BY <2>1, <2>2 DEF connect, vars
  <2>3. CASE path
    <3>1. PICK call \in Call, rest \in SUBSET Call : TakesCall(call, rest)
      BY <2>3, PathTakesCall DEF IInv
    <3>2. CASE i \in visited
      BY <2>1, <3>1, <3>2 DEF TakesCall, IInv, TypeOK
    <3>3. CASE i \notin visited
      <4>1. /\ i = call.node /\ i \in Nodes /\ UNCHANGED graph
            /\ sp' = [sp EXCEPT ![i] = call.sp]
            /\ warnings' = warnings \cup Negative(call) \cup WrongAt(i, call.sp)
        BY <3>1, <3>3 DEF TakesCall
      <4>2. sp'[i] = call.sp /\ call = [node |-> i, sp |-> call.sp]
        BY <4>1 DEF IInv, TypeOK, Call
      <4>3. WrongAt(i, sp[i])' = WrongAt(i, call.sp)
        BY <4>1, <4>2 DEF WrongAt, IsCode, Node
      <4>4. Negative([node |-> i, sp |-> sp[i]])' = Negative(call)
        BY <4>2 DEF Negative
      <4> QED
        BY <4>1, <4>3, <4>4
    <3> QED
      BY <3>2, <3>3
  <2> QED
    BY <2>2, <2>3 DEF Next
<1> QED
  BY <1>1, <1>2, IInvHolds, PTL DEF Spec

\* Where every node has one depth, the walk of any graph is silent if and only if no
\* instruction that is reached is wrong at its depth and no edge leaves the graph.
THEOREM WarningsExact == Spec => []WarnsExactly
<1>1. ASSUME IInv, FollowsEdges, SolutionsFit, WarnedOf PROVE WarnsExactly
  <2> SUFFICES ASSUME NEW nodes \in SUBSET Nat, NEW depth \in [Nat -> Int], Solution(nodes, depth)
               PROVE  /\ Right(nodes, depth) => warnings = {}
                      /\ (Finished /\ warnings = {}) => Solution(visited, depth) /\ Right(visited, depth)
    BY DEF WarnsExactly
  <2>1. Fits(nodes, depth)
    BY <1>1 DEF SolutionsFit
  <2>2. ASSUME Finished, warnings = {} PROVE Solution(visited, depth) /\ Right(visited, depth)
    <3>1. Targets \subseteq visited
      BY <1>1, <2>2 DEF FollowsEdges, Finished, InCalls, Outside
    <3>2. ASSUME NEW e \in DOMAIN graph.entry_points PROVE graph.entry_points[e] \in visited
      BY <1>1, <2>2, <3>1, LenProperties DEF Targets, Finished, IInv, IsGraph
    <3>3. ASSUME NEW i \in visited
          PROVE  /\ NextOf(i) # NoNode => NextOf(i) \in visited
                 /\ BranchOf(i) # NoNode => BranchOf(i) \in visited
      BY <3>1 DEF Targets
    <3>4. visited \subseteq nodes /\ visited \subseteq Nodes /\ \A i \in visited : sp[i] = depth[i]
      BY <1>1, <2>1 DEF Fits, IInv, TypeOK
    <3>5. Solution(visited, depth)
      BY <3>2, <3>3, <3>4 DEF Solution
    <3>6. ASSUME NEW i \in visited PROVE depth[i] >= 0 /\ WrongAt(i, depth[i]) = {}
      <4>1. WrongAt(i, sp[i]) = {} /\ Negative([node |-> i, sp |-> sp[i]]) = {}
        BY <1>1, <2>2 DEF WarnedOf
      <4>2. sp[i] \in Int
        BY <1>1 DEF IInv, TypeOK
      <4>3. ~(sp[i] < 0)
        BY <4>1 DEF Negative
      <4> QED
        BY <3>4, <4>1, <4>2, <4>3
    <3> QED
      BY <3>4, <3>5, <3>6 DEF Right
  <2> QED
    BY <2>1, <2>2 DEF Fits
<1> QED
  BY <1>1, IInvHolds, EveryEdgeFollowed, SolutionsAlwaysFit, WrongIsWarnedOf, PTL

=============================================================================
