---------------------------- MODULE HandleCols ----------------------------
(***************************************************************************)
(* The handle-column tracker of the plan builder (planbuilder.go,         *)
(* handleColHelper): a stack of maps from table id to the handle columns  *)
(* of that table visible in the plan built so far.  The plan is built     *)
(* bottom-up and each kind of node drives the stack as the PlanBuilder    *)
(* comment says: a DataSource or TableDual pushes a new map, an           *)
(* aggregation pops one and pushes a nil map, a union pops every child's  *)
(* and pushes a nil map, a join pops both children's and pushes their     *)
(* merge, and a finished subquery pops its own map.  SELECT ... FOR       *)
(* UPDATE (buildSelectLock) reads the top map.  The node builders live    *)
(* outside this file; their use of the stack is taken from that comment.  *)
(* Beside it the builder keeps the select-offset stack, "the offsets of   *)
(* current processing select stmts": a query block pushes its offset when *)
(* it begins and pops it when it is built (getSelectOffset, which reads  *)
(* its top for the hint lookups, is left to the callers outside this      *)
(* file).                                                                 *)
(*                                                                         *)
(* Besides the code's two fields the module keeps a ghost: the plan       *)
(* fragments whose maps are on the stack, each the DataSources it scans   *)
(* (none once an aggregation or union has hidden them), and the stack     *)
(* depths at which the open subqueries began, and the offsets of the open *)
(* query blocks.                                                          *)
(***************************************************************************)
EXTENDS Integers, Sequences, FiniteSets, SequencesExt

CONSTANTS
    Tables,      \* table ids
    MaxCols,     \* bound on the handle columns allocated in one build
    MaxDepth,    \* bound on the stack depth plus the open subqueries
    MaxUnion,    \* bound on the children of one UNION
    MaxBlocks    \* bound on the query blocks (subqueries) of one build

ColIds == 1..MaxCols

(* One map: table id -> its handle columns, as a function on a subset of  *)
(* Tables; the nil map and the empty map are both the empty function.     *)
NilMap == [t \in {} |-> <<>>]

VARIABLES
    id2HandleMapStack,   \* handleColHelper.id2HandleMapStack
    stackTail,           \* handleColHelper.stackTail
    nextCol,             \* the next handle column id the session allocates
    frags,               \* ghost: DataSources (<<table, column>>) of each fragment
    subqueryBase,        \* ghost: stack depth when each open subquery began
    lockMap,             \* the map buildSelectLock read last (NilMap before)
    selectOffset,        \* PlanBuilder.selectOffset
    nextOffset           \* ghost: the offset the next query block has

vars == <<id2HandleMapStack, stackTail, nextCol, frags, subqueryBase, lockMap,
          selectOffset, nextOffset>>
offsetVars == <<selectOffset, nextOffset>>

-----------------------------------------------------------------------------
(* Mutant: popMap shrinks the slice but leaves stackTail unchanged. *)
popMapNoTail(st) ==
    [stack |-> SubSeq(st.stack, 1, st.tail - 1), tail |-> st.tail,
     ret |-> st.stack[st.tail]]

(* popMap: the map at stackTail-1 (0-based), and both fields shrunk. *)
popMap(st) ==
    [stack |-> SubSeq(st.stack, 1, st.tail - 1), tail |-> st.tail - 1,
     ret |-> st.stack[st.tail]]

pushMap(st, m) ==
    [stack |-> Append(st.stack, m), tail |-> st.tail + 1, ret |-> NilMap]

(* Mutant: a table on both sides keeps only m2's handle columns. *)
mergeAndPushOverwrite(st, m1, m2) ==
    pushMap(st, [k \in DOMAIN m1 \cup DOMAIN m2 |->
                   IF k \in DOMAIN m2 THEN m2[k] ELSE m1[k]])

(* mergeAndPush: a copy of m1, with m2's columns appended for the tables *)
(* both have (a self-join), then pushed.                                  *)
mergeAndPush(st, m1, m2) ==
    pushMap(st, [k \in DOMAIN m1 \cup DOMAIN m2 |->
                   IF k \in DOMAIN m1 /\ k \in DOMAIN m2 THEN m1[k] \o m2[k]
                   ELSE IF k \in DOMAIN m1 THEN m1[k] ELSE m2[k]])

tailMap(st) == st.stack[st.tail]

Helper == [stack |-> id2HandleMapStack, tail |-> stackTail, ret |-> NilMap]

(* Write a helper state back to the two fields. *)
Store(st) ==
    /\ id2HandleMapStack' = st.stack
    /\ stackTail' = st.tail

pushSelectOffset(so, offset) == Append(so, offset)

popSelectOffset(so) == SubSeq(so, 1, Len(so) - 1)

(* Depth of the stack available to the innermost open query block. *)
Base == IF subqueryBase = <<>> THEN 0 ELSE Last(subqueryBase)

-----------------------------------------------------------------------------
(* NewPlanBuilder: an empty stack. *)
Init ==
    /\ id2HandleMapStack = <<>>
    /\ stackTail = 0
    /\ nextCol = 1
    /\ frags = <<>>
    /\ subqueryBase = <<>>
    /\ lockMap = NilMap
    /\ selectOffset = <<>>
    /\ nextOffset = 1

(* DataSource of table t: a new map holding its freshly allocated handle *)
(* column.                                                               *)
DataSource(t) ==
    /\ nextCol <= MaxCols /\ Len(frags) < MaxDepth
    /\ Store(pushMap(Helper, [k \in {t} |-> <<nextCol>>]))
    /\ nextCol' = nextCol + 1
    /\ frags' = Append(frags, <<<<t, nextCol>>>>)
    /\ UNCHANGED <<subqueryBase, lockMap>> /\ UNCHANGED offsetVars

(* TableDual: a new map without handle columns. *)
TableDual ==
    /\ Len(frags) < MaxDepth
    /\ Store(pushMap(Helper, NilMap))
    /\ frags' = Append(frags, <<>>)
    /\ UNCHANGED <<nextCol, subqueryBase, lockMap>> /\ UNCHANGED offsetVars

(* Aggregation over the top fragment: pop its map, push a nil map. *)
Aggregation ==
    /\ Len(frags) >= Base + 1
    /\ Store(pushMap(popMap(Helper), NilMap))
    /\ frags' = [frags EXCEPT ![Len(frags)] = <<>>]
    /\ UNCHANGED <<nextCol, subqueryBase, lockMap>> /\ UNCHANGED offsetVars

(* UNION of the top n fragments: pop every child's map, push a nil map. *)
Union(n) ==
    /\ Len(frags) >= Base + n
    /\ Store(pushMap(FoldLeft(LAMBDA st, i : popMap(st), Helper, [i \in 1..n |-> i]),
                     NilMap))
    /\ frags' = Append(SubSeq(frags, 1, Len(frags) - n), <<>>)
    /\ UNCHANGED <<nextCol, subqueryBase, lockMap>> /\ UNCHANGED offsetVars

(* Join of the two top fragments, left built first: pop the right map,   *)
(* then the left, and push mergeAndPush(right, left).                    *)
Join ==
    /\ Len(frags) >= Base + 2
    /\ LET r == popMap(Helper)
           l == popMap(r)
       IN  Store(mergeAndPush(l, r.ret, l.ret))
    /\ frags' = Append(SubSeq(frags, 1, Len(frags) - 2),
                       frags[Len(frags) - 1] \o frags[Len(frags)])
    /\ UNCHANGED <<nextCol, subqueryBase, lockMap>> /\ UNCHANGED offsetVars

(* A subquery starts: it is an independent problem on top of the stack, *)
(* and a query block of its own whose offset is pushed.                 *)
BeginSubquery ==
    /\ Len(frags) + Len(subqueryBase) < MaxDepth
    /\ nextOffset <= MaxBlocks
    /\ subqueryBase' = Append(subqueryBase, Len(frags))
    /\ selectOffset' = pushSelectOffset(selectOffset, nextOffset)
    /\ nextOffset' = nextOffset + 1
    /\ UNCHANGED <<id2HandleMapStack, stackTail, nextCol, frags, lockMap>>

(* A subquery is built: its one map and its block's offset are popped. *)
EndSubquery ==
    /\ subqueryBase # <<>>
    /\ Len(frags) = Base + 1
    /\ Store(popMap(Helper))
    /\ frags' = Front(frags)
    /\ subqueryBase' = Front(subqueryBase)
    /\ selectOffset' = popSelectOffset(selectOffset)
    /\ UNCHANGED <<nextCol, lockMap, nextOffset>>

(* buildSelectLock over the plan of the current block: read tailMap. *)
SelectLock ==
    /\ Len(frags) >= Base + 1
    /\ lockMap' = tailMap(Helper)
    /\ UNCHANGED <<id2HandleMapStack, stackTail, nextCol, frags, subqueryBase>> /\ UNCHANGED offsetVars

Next ==
    \/ \E t \in Tables : DataSource(t)
    \/ TableDual \/ Aggregation \/ Join
    \/ \E n \in 2..MaxUnion : Union(n)
    \/ BeginSubquery \/ EndSubquery \/ SelectLock

Spec == Init /\ [][Next]_vars

-----------------------------------------------------------------------------
(* Properties *)

IsHandleMap(m) == DOMAIN m \subseteq Tables /\ \A t \in DOMAIN m : m[t] \in Seq(ColIds)

TypeOK ==
    /\ \A i \in DOMAIN id2HandleMapStack : IsHandleMap(id2HandleMapStack[i])
    /\ stackTail \in 0..Len(id2HandleMapStack)
    /\ nextCol \in 1..MaxCols + 1
    /\ frags \in Seq(Seq(Tables \X ColIds))
    /\ subqueryBase \in Seq(0..MaxDepth)
    /\ IsHandleMap(lockMap)
    /\ selectOffset \in Seq(1..MaxBlocks)
    /\ nextOffset \in 1..MaxBlocks + 1

(* The handle columns the DataSources of fragment f contribute, per table. *)
HandlesOf(f, t) == { f[i][2] : i \in { i \in 1..Len(f) : f[i][1] = t } }

(* After any sequence of node builds, the stack holds exactly one map per *)
(* fragment still to be consumed, stackTail agrees with the slice, and    *)
(* each map lists, for every table scanned under its fragment, all the   *)
(* handle columns of that table, each once: a self-join keeps both sides' *)
(* handles (mergeAndPush), a subquery's map never replaces the outer      *)
(* block's (popMap after the subquery), and an aggregation or union       *)
(* leaves none.  Delete, Update and SELECT ... FOR UPDATE rely on it.     *)
StackMatchesPlan ==
    /\ stackTail = Len(id2HandleMapStack)
    /\ Len(id2HandleMapStack) = Len(frags)
    /\ \A i \in 1..Len(frags) :
         LET m == id2HandleMapStack[i]
         IN  /\ DOMAIN m = { frags[i][j][1] : j \in 1..Len(frags[i]) }
             /\ \A t \in DOMAIN m :
                  ToSet(m[t]) = HandlesOf(frags[i], t)
                  /\ Len(m[t]) = Cardinality(HandlesOf(frags[i], t))

=============================================================================
