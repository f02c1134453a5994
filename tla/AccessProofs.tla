---------------------------- MODULE AccessProofs ----------------------------
(***************************************************************************)
(* Proofs about the components around identity and access: the flows of a   *)
(* sign-in, the rate limit at the edge, the terminal's pairing client, the  *)
(* web session routes, the help providers and the work that a student is    *)
(* served.  The inductive invariant of each component comes first, then one *)
(* lemma for each of its actions.                                           *)
(***************************************************************************)
EXTENDS SignInRoutes, RateLimit, PairingClient, WebRoutes, HelpProvider, StudentAccess,
        FiniteSetTheorems, WellFoundedInduction, TLAPS

-----------------------------------------------------------------------------
(***************************************************************************)
(* The flows of a sign-in (SignInRoutes)                                    *)
(***************************************************************************)

FlowStages == {"idle", "begin", "build", "redirect", "callback", "provider", "answer"}
KeptType == [kind : Kinds, expired : BOOLEAN, session : Nat]
BeganType == [kind : Kinds, visitor : Visitors]
CallbackType == [pc : FlowStages, kind : Kinds \cup {None}, id : FlowIds \cup {None},
                 visitor : Visitors \cup {None}, cookies : SUBSET FlowIds, session : Nat, ok : BOOLEAN]

SignInTypeOK ==
    /\ kept \in [FlowIds -> KeptType \cup {None}]
    /\ began \in [FlowIds -> BeganType \cup {None}]
    /\ crumbs \in [Visitors -> SUBSET FlowIds]
    /\ signed \in [Visitors -> Nat] /\ signIns \in Nat
    /\ flowCall \in [FlowCalls -> CallbackType]
    /\ handed \in SUBSET FlowIds /\ taken \in SUBSET FlowIds
    /\ completed \in [FlowIds -> Visitors \cup {None}]

CallStays(c) ==
    /\ flowCall' \in [FlowCalls -> CallbackType]
    /\ \A d \in FlowCalls \ {c} : flowCall'[d] = flowCall[d]

LEMMA CallIs ==
    ASSUME SignInTypeOK, NEW c \in FlowCalls, NEW new \in CallbackType,
           flowCall' = [flowCall EXCEPT ![c] = new]
    PROVE  CallStays(c) /\ flowCall'[c] = new
    BY DEF SignInTypeOK, CallStays

LEMMA CallGoes ==
    ASSUME SignInTypeOK, NEW c \in FlowCalls, NEW pc \in FlowStages,
           flowCall' = [flowCall EXCEPT ![c].pc = pc]
    PROVE  /\ CallStays(c)
           /\ flowCall'[c] = [flowCall[c] EXCEPT !.pc = pc]
    BY DEF SignInTypeOK, CallStays, CallbackType

LEMMA CallCloses ==
    ASSUME SignInTypeOK, NEW c \in FlowCalls, Closed(c)
    PROVE  CallStays(c) /\ flowCall'[c] = NoCallback
<1>1. NoCallback \in CallbackType
    BY DEF NoCallback, CallbackType, FlowStages
<1> QED
    BY <1>1, CallIs DEF Closed

SignInStep(c, b, i) ==
    \/ \E kind \in Kinds : open_begin(c, b, kind)
    \/ open_callback(c, b, i)
    \/ refuse_flow(c) \/ create_flow(c) \/ build_authorization(c) \/ redirect(c)
    \/ consume_flow(c) \/ complete_flow(c) \/ answer_callback(c)
    \/ flow_expires(i) \/ crumb_expires(b, i) \/ leave(b)

LEMMA NewFlowIsUnused ==
    ASSUME \E i \in FlowIds : began[i] = None
    PROVE  NewFlow \in FlowIds /\ began[NewFlow] = None
    BY DEF NewFlow


Building(c) == flowCall[c].pc \in {"build", "redirect"}
BegunBy(i, b) == i \in FlowIds /\ began[i] # None /\ began[i].visitor = b

\* A thread: the flow it builds was begun for its browser, by it alone, and is not yet in
\* any cookie, request or callback; a request carries cookies of its browser only; a flow
\* a callback took came with its cookie.
CallOK(c) ==
    /\ flowCall[c].pc = "begin" => flowCall[c].kind \in Kinds /\ flowCall[c].visitor \in Visitors
    /\ Building(c) =>
          /\ BegunBy(flowCall[c].id, flowCall[c].visitor)
          /\ flowCall[c].id \notin taken
          /\ \A b \in Visitors : flowCall[c].id \notin crumbs[b]
          /\ \A d \in FlowCalls : flowCall[c].id \notin flowCall[d].cookies
          /\ \A d \in FlowCalls : Building(d) /\ flowCall[d].id = flowCall[c].id => d = c
    /\ flowCall[c].pc = "redirect" => flowCall[c].id \in handed
    /\ flowCall[c].pc \in {"callback", "provider", "answer"} => flowCall[c].id \in handed
    /\ \A i \in flowCall[c].cookies : BegunBy(i, flowCall[c].visitor)
    /\ flowCall[c].pc \in {"provider", "answer"} =>
          flowCall[c].id \in taken /\ BegunBy(flowCall[c].id, flowCall[c].visitor)

\* A flow: what is known of it, and who may still be serving it.
FlowOK(i) ==
    /\ i \in handed \cup taken => began[i] # None
    /\ kept[i] # None =>
          /\ began[i] # None
          /\ i \in handed \/ \E c \in FlowCalls : flowCall[c].id = i /\ flowCall[c].pc = "build"
    /\ completed[i] # None => BegunBy(i, completed[i])

\* A cookie is in the browser its flow was begun in, and stays behind a flow that was
\* taken only while the callback is not answered, or when its answer was lost.
CrumbOK(b, i) ==
    i \in crumbs[b] =>
       /\ BegunBy(i, b)
       /\ i \in taken =>
             \/ i \in lost
             \/ \E c \in FlowCalls : flowCall[c].id = i /\ flowCall[c].pc \in {"provider", "answer"}

SignInInv ==
    /\ SignInTypeOK
    /\ \A c \in FlowCalls : CallOK(c)
    /\ \A i \in FlowIds : FlowOK(i)
    /\ \A b \in Visitors, i \in FlowIds : CrumbOK(b, i)
    /\ \A kind \in Kinds : Cardinality(Stored(kind)) <= MaxFlows

\* Fewer flows of a kind are stored when no flow is added.
LEMMA FewerStored ==
    ASSUME SignInAssumption, SignInInv,
           \A i \in FlowIds : kept'[i] # None =>
              /\ kept[i] # None
              /\ kept'[i].kind = kept[i].kind
    PROVE  \A kind \in Kinds : Cardinality(Stored(kind)') <= MaxFlows
<1> TAKE kind \in Kinds
<1>1. Stored(kind)' \subseteq Stored(kind) /\ Stored(kind) \subseteq FlowIds
    BY DEF Stored
<1>2. IsFiniteSet(Stored(kind)) /\ IsFiniteSet(Stored(kind)')
    BY <1>1, FS_Subset DEF SignInAssumption
<1>3. Cardinality(Stored(kind)') <= Cardinality(Stored(kind))
    BY <1>1, <1>2, FS_Subset
<1>4. /\ Cardinality(Stored(kind)) \in Nat /\ Cardinality(Stored(kind)') \in Nat
      /\ Cardinality(Stored(kind)) <= MaxFlows /\ MaxFlows \in Nat
    BY <1>2, FS_CardinalityType DEF SignInInv, SignInAssumption
<1> QED
    BY <1>3, <1>4

LEMMA OpenBeginKeepsInv ==
    ASSUME SignInAssumption, SignInInv, NEW c \in FlowCalls, NEW b \in Visitors, NEW kind \in Kinds, open_begin(c, b, kind)
    PROVE  SignInInv'
<1> DEFINE new == [NoCallback EXCEPT !.pc = "begin", !.kind = kind, !.visitor = b, !.session = signed[b]]
<1>0. SignInTypeOK
    BY DEF SignInInv
<1>1. new \in CallbackType
    BY <1>0 DEF NoCallback, CallbackType, FlowStages, SignInTypeOK
<1>2. CallStays(c) /\ flowCall'[c] = new
    BY <1>0, <1>1, CallIs DEF open_begin
<1>3. /\ flowCall'[c].pc = "begin" /\ flowCall'[c].cookies = {}
      /\ flowCall'[c].kind = kind /\ flowCall'[c].visitor = b
      /\ flowCall[c].pc = "idle"
    BY <1>2, ZenonT(60) DEF NoCallback, open_begin
<1>4. UNCHANGED << kept, crumbs, signed, alive, signIns, began, handed, taken, completed, lost >>
    BY DEF open_begin
<1>5. SignInTypeOK'
    BY <1>0, <1>2, <1>4 DEF SignInTypeOK, CallStays
<1> HIDE DEF new
<1>6. \A d \in FlowCalls : CallOK(d)'
    BY <1>2, <1>3, <1>4 DEF SignInInv, CallOK, CallStays, Building, BegunBy
<1>7. \A i \in FlowIds : FlowOK(i)'
    BY <1>2, <1>3, <1>4 DEF SignInInv, FlowOK, CallStays, BegunBy
<1>8. \A x \in Visitors, i \in FlowIds : CrumbOK(x, i)'
    BY <1>2, <1>3, <1>4 DEF SignInInv, CrumbOK, CallStays, BegunBy
<1>9. \A k \in Kinds : Cardinality(Stored(k)') <= MaxFlows
    BY <1>4 DEF SignInInv, Stored
<1> QED
    BY <1>5, <1>6, <1>7, <1>8, <1>9 DEF SignInInv

LEMMA RefuseKeepsInv ==
    ASSUME SignInAssumption, SignInInv, NEW c \in FlowCalls, refuse_flow(c)
    PROVE  SignInInv'
<1>0. SignInTypeOK
    BY DEF SignInInv
<1>1. CallStays(c) /\ flowCall'[c] = NoCallback
    BY <1>0, CallCloses DEF refuse_flow
<1>2. /\ flowCall'[c].pc = "idle" /\ flowCall'[c].cookies = {}
      /\ flowCall[c].pc \in {"begin", "callback"}
    BY <1>1 DEF NoCallback, refuse_flow
<1>3. UNCHANGED << kept, crumbs, signed, alive, signIns, began, handed, taken, completed, lost >>
    BY DEF refuse_flow
<1>5. SignInTypeOK'
    BY <1>0, <1>1, <1>3 DEF SignInTypeOK, CallStays
<1>6. \A d \in FlowCalls : CallOK(d)'
    BY <1>1, <1>2, <1>3 DEF SignInInv, SignInTypeOK, CallOK, CallStays, Building, BegunBy
<1>7. \A j \in FlowIds : FlowOK(j)'
    BY <1>1, <1>2, <1>3 DEF SignInInv, SignInTypeOK, CallOK, FlowOK, CallStays, BegunBy
<1>8. \A x \in Visitors, j \in FlowIds : CrumbOK(x, j)'
    BY <1>1, <1>2, <1>3 DEF SignInInv, SignInTypeOK, CallOK, CrumbOK, CallStays, BegunBy
<1>9. \A k \in Kinds : Cardinality(Stored(k)') <= MaxFlows
    BY <1>1, <1>2, <1>3 DEF SignInInv, Stored
<1> QED
    BY <1>5, <1>6, <1>7, <1>8, <1>9 DEF SignInInv

LEMMA OpenCallbackKeepsInv ==
    ASSUME SignInAssumption, SignInInv, NEW c \in FlowCalls, NEW b \in Visitors, NEW i \in FlowIds, open_callback(c, b, i)
    PROVE  SignInInv'
<1> DEFINE kind == began[i].kind
           new == [NoCallback EXCEPT !.pc = "callback", !.kind = kind, !.id = i, !.visitor = b,
                                     !.cookies = crumbs[b], !.session = signed[b]]
<1>0. SignInTypeOK
    BY DEF SignInInv
<1>1. kind \in Kinds
    BY <1>0 DEF SignInInv, FlowOK, open_callback, SignInTypeOK, BeganType
<1>2. new \in CallbackType
  <2> HIDE DEF kind
  <2> QED
    BY <1>0, <1>1 DEF NoCallback, CallbackType, FlowStages, SignInTypeOK
<1>3. CallStays(c) /\ flowCall'[c] = new
    BY <1>0, <1>2, CallIs DEF open_callback
<1>4. /\ flowCall'[c].pc = "callback" /\ flowCall'[c].cookies = crumbs[b]
      /\ flowCall'[c].visitor = b /\ flowCall'[c].id = i
    BY <1>3 DEF NoCallback
<1>40. flowCall[c].pc = "idle" /\ i \in handed
    BY DEF open_callback
<1>41. UNCHANGED << kept, crumbs, signed, alive, signIns, began, handed, taken, completed, lost >>
    BY DEF open_callback
<1>5. SignInTypeOK'
    BY <1>0, <1>3, <1>41 DEF SignInTypeOK, CallStays
<1> HIDE DEF kind, new
<1>51. \A j \in crumbs[b] : BegunBy(j, b)
    BY <1>0 DEF SignInInv, CrumbOK, SignInTypeOK
<1>6. \A d \in FlowCalls : CallOK(d)'
    BY <1>3, <1>4, <1>40, <1>41, <1>51 DEF SignInInv, SignInTypeOK, CallOK, CallStays, Building, BegunBy
<1>7. \A j \in FlowIds : FlowOK(j)'
    BY <1>3, <1>4, <1>40, <1>41 DEF SignInInv, SignInTypeOK, CallOK, FlowOK, CallStays, BegunBy
<1>8. \A x \in Visitors, j \in FlowIds : CrumbOK(x, j)'
    BY <1>3, <1>4, <1>40, <1>41 DEF SignInInv, SignInTypeOK, CallOK, CrumbOK, CallStays, BegunBy
<1>9. \A k \in Kinds : Cardinality(Stored(k)') <= MaxFlows
    BY <1>3, <1>4, <1>40, <1>41 DEF SignInInv, Stored
<1> QED
    BY <1>5, <1>6, <1>7, <1>8, <1>9 DEF SignInInv

LEMMA BuildKeepsInv ==
    ASSUME SignInAssumption, SignInInv, NEW c \in FlowCalls, build_authorization(c)
    PROVE  SignInInv'
<1>0. SignInTypeOK
    BY DEF SignInInv
<1>01. flowCall[c].pc = "build" /\ BegunBy(flowCall[c].id, flowCall[c].visitor)
    BY DEF SignInInv, CallOK, Building, build_authorization
<1>02. UNCHANGED << crumbs, signed, alive, signIns, began, taken, completed, lost >>
    BY DEF build_authorization
<1>1. CASE /\ flowCall' = [flowCall EXCEPT ![c].pc = "redirect"]
           /\ handed' = handed \cup {flowCall[c].id}
           /\ UNCHANGED kept
  <2>1. CallStays(c) /\ flowCall'[c] = [flowCall[c] EXCEPT !.pc = "redirect"]
    BY <1>0, <1>1, CallGoes DEF FlowStages
  <2>2. /\ flowCall'[c].pc = "redirect" /\ flowCall'[c].cookies = flowCall[c].cookies
        /\ flowCall'[c].visitor = flowCall[c].visitor /\ flowCall'[c].id = flowCall[c].id
    BY <1>0, <2>1 DEF SignInTypeOK, CallbackType
  <2>3. SignInTypeOK'
    BY <1>0, <1>01, <1>02, <1>1, <2>1 DEF SignInTypeOK, CallStays, BegunBy
  <2>6. \A d \in FlowCalls : CallOK(d)'
      BY <1>01, <1>02, <1>1, <2>1, <2>2 DEF SignInInv, SignInTypeOK, CallOK, CallStays, Building, BegunBy
  <2>7. \A j \in FlowIds : FlowOK(j)'
      BY <1>01, <1>02, <1>1, <2>1, <2>2 DEF SignInInv, SignInTypeOK, CallOK, FlowOK, CallStays, BegunBy
  <2>8. \A x \in Visitors, j \in FlowIds : CrumbOK(x, j)'
      BY <1>01, <1>02, <1>1, <2>1, <2>2 DEF SignInInv, SignInTypeOK, CallOK, CrumbOK, CallStays, BegunBy
  <2>9. \A k \in Kinds : Cardinality(Stored(k)') <= MaxFlows
      BY <1>01, <1>02, <1>1, <2>1, <2>2 DEF SignInInv, Stored
  <2> QED
      BY <2>3, <2>6, <2>7, <2>8, <2>9 DEF SignInInv
<1>2. CASE kept' = discard_created_flow(flowCall[c].id) /\ Closed(c) /\ UNCHANGED handed
  <2>1. CallStays(c) /\ flowCall'[c] = NoCallback
    BY <1>0, <1>2, CallCloses
  <2>2. flowCall'[c].pc = "idle" /\ flowCall'[c].cookies = {}
    BY <2>1 DEF NoCallback
  <2>21. /\ kept'[flowCall[c].id] = None
         /\ \A j \in FlowIds : kept'[j] # None => kept'[j] = kept[j] /\ j # flowCall[c].id
    BY <1>0, <1>01, <1>2 DEF discard_created_flow, SignInTypeOK, BegunBy
  <2>3. SignInTypeOK'
    BY <1>0, <1>01, <1>02, <1>2, <2>1 DEF SignInTypeOK, CallStays, BegunBy, discard_created_flow
  <2>6. \A d \in FlowCalls : CallOK(d)'
      BY <1>01, <1>02, <1>2, <2>1, <2>2, <2>21 DEF SignInInv, SignInTypeOK, CallOK, CallStays, Building, BegunBy
  <2>7. \A j \in FlowIds : FlowOK(j)'
      BY <1>01, <1>02, <1>2, <2>1, <2>2, <2>21 DEF SignInInv, SignInTypeOK, CallOK, FlowOK, CallStays, BegunBy
  <2>8. \A x \in Visitors, j \in FlowIds : CrumbOK(x, j)'
      BY <1>01, <1>02, <1>2, <2>1, <2>2, <2>21 DEF SignInInv, SignInTypeOK, CallOK, CrumbOK, CallStays, BegunBy
  <2>9. \A k \in Kinds : Cardinality(Stored(k)') <= MaxFlows
    <3>1. \A j \in FlowIds : kept'[j] # None => kept[j] # None /\ kept'[j].kind = kept[j].kind
      BY <2>21 DEF SignInTypeOK, KeptType
    <3> QED
      BY <3>1, FewerStored
  <2> QED
      BY <2>3, <2>6, <2>7, <2>8, <2>9 DEF SignInInv
<1> QED
    BY <1>1, <1>2 DEF build_authorization

LEMMA RedirectKeepsInv ==
    ASSUME SignInAssumption, SignInInv, NEW c \in FlowCalls, redirect(c)
    PROVE  SignInInv'
<1>0. SignInTypeOK
    BY DEF SignInInv
<1>01. /\ flowCall[c].pc = "redirect" /\ BegunBy(flowCall[c].id, flowCall[c].visitor)
       /\ flowCall[c].id \in handed /\ flowCall[c].id \notin taken
    BY DEF SignInInv, CallOK, Building, redirect
<1>1. CallStays(c) /\ flowCall'[c] = NoCallback
    BY <1>0, CallCloses DEF redirect
<1>2. flowCall'[c].pc = "idle" /\ flowCall'[c].cookies = {}
    BY <1>1 DEF NoCallback
<1>3. UNCHANGED << kept, signed, alive, signIns, began, handed, taken, completed, lost >>
    BY DEF redirect
<1>4. /\ crumbs' \in [Visitors -> SUBSET FlowIds]
      /\ \A x \in Visitors, j \in FlowIds :
            j \in crumbs'[x] =>
               j \in crumbs[x] \/ (j = flowCall[c].id /\ x = flowCall[c].visitor)
  <2>1. CASE crumbs' = crumbs
    BY <1>0, <2>1 DEF SignInTypeOK
  <2>2. CASE crumbs' = [crumbs EXCEPT ![flowCall[c].visitor] = @ \cup {flowCall[c].id}]
    <3>1. flowCall[c].id \in FlowIds
        BY <1>01 DEF BegunBy
    <3> QED
        BY <1>0, <3>1, <2>2 DEF SignInTypeOK
  <2> QED
    BY <2>1, <2>2 DEF redirect
<1>5. SignInTypeOK'
    BY <1>0, <1>1, <1>3, <1>4 DEF SignInTypeOK, CallStays
<1>6. \A d \in FlowCalls : CallOK(d)'
    BY <1>01, <1>1, <1>2, <1>3, <1>4 DEF SignInInv, SignInTypeOK, CallOK, CallStays, Building, BegunBy
<1>7. \A j \in FlowIds : FlowOK(j)'
    BY <1>01, <1>1, <1>2, <1>3, <1>4 DEF SignInInv, SignInTypeOK, CallOK, FlowOK, CallStays, BegunBy
<1>8. \A x \in Visitors, j \in FlowIds : CrumbOK(x, j)'
    BY <1>01, <1>1, <1>2, <1>3, <1>4 DEF SignInInv, SignInTypeOK, CallOK, CrumbOK, CallStays, BegunBy
<1>9. \A k \in Kinds : Cardinality(Stored(k)') <= MaxFlows
    BY <1>01, <1>1, <1>2, <1>3, <1>4 DEF SignInInv, Stored
<1> QED
    BY <1>5, <1>6, <1>7, <1>8, <1>9 DEF SignInInv

LEMMA ConsumeKeepsInv ==
    ASSUME SignInAssumption, SignInInv, NEW c \in FlowCalls, consume_flow(c)
    PROVE  SignInInv'
<1>0. SignInTypeOK
    BY DEF SignInInv
<1>01. /\ flowCall[c].pc = "callback" /\ flowCall[c].id \in handed
       /\ flowCall[c].id \in FlowIds
       /\ \A j \in flowCall[c].cookies : BegunBy(j, flowCall[c].visitor)
    BY <1>0 DEF SignInInv, CallOK, consume_flow, SignInTypeOK
<1>02. UNCHANGED << crumbs, signed, alive, signIns, began, handed, completed, lost >>
    BY DEF consume_flow
<1>1. CASE /\ transaction_binding(c) /\ kept[flowCall[c].id] # None /\ link_context(c)
  <2> DEFINE pc == IF kept[flowCall[c].id].expired THEN "answer" ELSE "provider"
  <2>0. /\ kept' = [kept EXCEPT ![flowCall[c].id] = None]
        /\ taken' = taken \cup {flowCall[c].id}
        /\ flowCall' = [flowCall EXCEPT ![c].pc = pc]
    BY <1>1 DEF consume_flow
  <2>01. pc \in {"answer", "provider"} /\ pc \in FlowStages
    BY DEF FlowStages
  <2>02. flowCall[c].id \in flowCall[c].cookies /\ BegunBy(flowCall[c].id, flowCall[c].visitor)
    BY <1>01, <1>1 DEF transaction_binding
  <2> HIDE DEF pc
  <2>1. CallStays(c) /\ flowCall'[c] = [flowCall[c] EXCEPT !.pc = pc]
    BY <1>0, <2>0, <2>01, CallGoes
  <2>2. /\ flowCall'[c].pc = pc /\ flowCall'[c].cookies = flowCall[c].cookies
        /\ flowCall'[c].visitor = flowCall[c].visitor /\ flowCall'[c].id = flowCall[c].id
    BY <1>0, <2>1 DEF SignInTypeOK, CallbackType
  <2>21. \A j \in FlowIds : kept'[j] # None => kept'[j] = kept[j]
    BY <1>0, <1>01, <2>0 DEF SignInTypeOK
  <2>3. SignInTypeOK'
    BY <1>0, <1>01, <1>02, <2>0, <2>1 DEF SignInTypeOK, CallStays, BegunBy
  <2>6. \A d \in FlowCalls : CallOK(d)'
      BY <1>01, <1>02, <2>0, <2>01, <2>02, <2>1, <2>2, <2>21 DEF SignInInv, SignInTypeOK, CallOK, CallStays, Building, BegunBy
  <2>7. \A j \in FlowIds : FlowOK(j)'
      BY <1>01, <1>02, <2>0, <2>01, <2>02, <2>1, <2>2, <2>21 DEF SignInInv, SignInTypeOK, CallOK, FlowOK, CallStays, BegunBy
  <2>8. \A x \in Visitors, j \in FlowIds : CrumbOK(x, j)'
      BY <1>01, <1>02, <2>0, <2>01, <2>02, <2>1, <2>2, <2>21 DEF SignInInv, SignInTypeOK, CallOK, CrumbOK, CallStays, BegunBy
  <2>9. \A k \in Kinds : Cardinality(Stored(k)') <= MaxFlows
    <3>1. \A j \in FlowIds : kept'[j] # None => kept[j] # None /\ kept'[j].kind = kept[j].kind
      BY <2>21 DEF SignInTypeOK, KeptType
    <3> QED
      BY <3>1, FewerStored
  <2> QED
      BY <2>3, <2>6, <2>7, <2>8, <2>9 DEF SignInInv
<1>2. CASE Closed(c) /\ UNCHANGED << kept, taken >>
  <2>1. CallStays(c) /\ flowCall'[c] = NoCallback
    BY <1>0, <1>2, CallCloses
  <2>2. flowCall'[c].pc = "idle" /\ flowCall'[c].cookies = {}
    BY <2>1 DEF NoCallback
  <2>3. SignInTypeOK'
    BY <1>0, <1>02, <1>2, <2>1 DEF SignInTypeOK, CallStays
  <2>6. \A d \in FlowCalls : CallOK(d)'
      BY <1>01, <1>02, <1>2, <2>1, <2>2 DEF SignInInv, SignInTypeOK, CallOK, CallStays, Building, BegunBy
  <2>7. \A j \in FlowIds : FlowOK(j)'
      BY <1>01, <1>02, <1>2, <2>1, <2>2 DEF SignInInv, SignInTypeOK, CallOK, FlowOK, CallStays, BegunBy
  <2>8. \A x \in Visitors, j \in FlowIds : CrumbOK(x, j)'
      BY <1>01, <1>02, <1>2, <2>1, <2>2 DEF SignInInv, SignInTypeOK, CallOK, CrumbOK, CallStays, BegunBy
  <2>9. \A k \in Kinds : Cardinality(Stored(k)') <= MaxFlows
      BY <1>01, <1>02, <1>2, <2>1, <2>2 DEF SignInInv, Stored
  <2> QED
      BY <2>3, <2>6, <2>7, <2>8, <2>9 DEF SignInInv
<1> QED
    BY <1>1, <1>2 DEF consume_flow

LEMMA CreateKeepsInv ==
    ASSUME SignInAssumption, SignInInv, NEW c \in FlowCalls, create_flow(c)
    PROVE  SignInInv'
<1> DEFINE q == flowCall[c]
           live == {i \in Stored(q.kind) : ~kept[i].expired}
           row == [kind |-> q.kind, expired |-> FALSE, session |-> q.session]
           new == [kind |-> q.kind, visitor |-> q.visitor]
<1>0. SignInTypeOK
    BY DEF SignInInv
<1>00. PICK f \in FlowIds : f = NewFlow /\ began[f] = None
    BY NewFlowIsUnused DEF create_flow
<1>01. q.pc = "begin" /\ q \in CallbackType
    BY <1>0 DEF create_flow, SignInTypeOK
<1>02. UNCHANGED << crumbs, signed, alive, signIns, handed, taken, completed, lost >>
    BY DEF create_flow
<1>03. /\ Purged(q.kind) \in [FlowIds -> KeptType \cup {None}]
       /\ \A j \in FlowIds : Purged(q.kind)[j] # None => Purged(q.kind)[j] = kept[j]
       /\ \A j \in FlowIds : Purged(q.kind)[j] # None /\ kept[j].kind = q.kind => j \in live
    BY <1>0 DEF SignInTypeOK, Purged, Stored
<1>04. f \notin handed \cup taken
    BY <1>00, <1>01 DEF SignInInv, FlowOK
<1>05. ASSUME NEW j \in FlowIds, NEW x, BegunBy(j, x) PROVE j # f
    BY <1>00, <1>01, <1>05 DEF BegunBy
<1>06. /\ \A x \in Visitors : f \notin crumbs[x]
       /\ \A d \in FlowCalls : f \notin flowCall[d].cookies
    BY <1>00, <1>01, <1>05 DEF SignInInv, CrumbOK, CallOK
<1>07. \A d \in FlowCalls : Building(d) => flowCall[d].id # f
    BY <1>00, <1>01, <1>05 DEF SignInInv, CallOK, BegunBy
<1>08. q.kind \in Kinds /\ q.visitor \in Visitors
    BY <1>00, <1>01 DEF SignInInv, CallOK
<1>09. row \in KeptType /\ new \in BeganType /\ new # None /\ row.kind = q.kind /\ new.visitor = q.visitor
    BY <1>00, <1>01, <1>08 DEF KeptType, BeganType, CallbackType, SignInAssumption
<1>1. CASE Cardinality(live) < MaxFlows
  <2>0. /\ kept' = [Purged(q.kind) EXCEPT ![f] = row]
        /\ began' = [began EXCEPT ![f] = new]
        /\ flowCall' = [flowCall EXCEPT ![c].pc = "build", ![c].id = f]
    BY <1>00, <1>1 DEF create_flow
  <2>1. CallStays(c) /\ flowCall'[c] = [flowCall[c] EXCEPT !.pc = "build", !.id = f]
    BY <1>0, <1>00, <1>01, <2>0 DEF CallStays, SignInTypeOK, CallbackType, FlowStages
  <2>2. /\ flowCall'[c].pc = "build" /\ flowCall'[c].cookies = flowCall[c].cookies
        /\ flowCall'[c].visitor = flowCall[c].visitor /\ flowCall'[c].id = f
    BY <1>0, <2>1 DEF SignInTypeOK, CallbackType
  <2> HIDE DEF row, new
  <2>3. SignInTypeOK'
    BY <1>0, <1>00, <1>01, <1>02, <1>03, <1>09, <2>0, <2>1 DEF SignInTypeOK, CallStays
  <2>31. /\ kept'[f] = row /\ began'[f] = new
         /\ \A j \in FlowIds \ {f} :
               /\ began'[j] = began[j]
               /\ kept'[j] # None => kept'[j] = kept[j]
               /\ kept'[j] # None /\ kept[j].kind = q.kind => j \in live
    BY <1>0, <1>00, <1>01, <1>03, <2>0 DEF SignInTypeOK
  <2>32. \A j, x : BegunBy(j, x) => BegunBy(j, x)'
    BY <1>05, <2>31 DEF BegunBy
  <2>33. BegunBy(f, flowCall[c].visitor)'
    BY <1>00, <1>09, <2>2, <2>31 DEF BegunBy
  <2> HIDE DEF live
  <2>6. \A d \in FlowCalls : CallOK(d)'
    <3> SUFFICES ASSUME NEW d \in FlowCalls PROVE CallOK(d)'
        OBVIOUS
    <3>1. CASE d = c
        BY <1>02, <1>04, <1>06, <1>07, <2>1, <2>2, <2>32, <2>33, <3>1, ZenonT(60)
           DEF SignInInv, CallOK, CallStays, Building
    <3>2. CASE d # c
      <4>1. flowCall'[d] = flowCall[d] /\ CallOK(d)
        BY <2>1, <3>2 DEF CallStays, SignInInv
      <4>2. ASSUME Building(d)
            PROVE  /\ \A e \in FlowCalls : flowCall[d].id \notin flowCall'[e].cookies
                   /\ \A e \in FlowCalls : Building(e)' /\ flowCall'[e].id = flowCall[d].id => d = e
        BY <1>07, <2>1, <2>2, <4>1, <4>2 DEF CallOK, CallStays, Building
      <4> QED
        BY <1>02, <2>32, <4>1, <4>2 DEF CallOK, Building
    <3> QED
        BY <3>1, <3>2
  <2>7. \A j \in FlowIds : FlowOK(j)'
    <3> SUFFICES ASSUME NEW j \in FlowIds PROVE FlowOK(j)'
        OBVIOUS
    <3>1. FlowOK(j)
        BY DEF SignInInv
    <3>2. CASE j = f
      <4>1. began'[f] # None /\ completed'[f] = None
        BY <1>00, <1>02, <1>09, <2>31, <3>1, <3>2 DEF FlowOK, BegunBy
      <4> QED
        BY <2>1, <2>2, <3>2, <4>1 DEF FlowOK
    <3>3. CASE j # f
      <4>1. ASSUME NEW d \in FlowCalls, flowCall[d].pc = "build" PROVE flowCall'[d] = flowCall[d]
        BY <1>01, <2>1, <4>1 DEF CallStays
      <4> QED
        BY <1>02, <2>31, <2>32, <3>1, <3>3, <4>1 DEF FlowOK
    <3> QED
        BY <3>2, <3>3
  <2>8. \A x \in Visitors, j \in FlowIds : CrumbOK(x, j)'
    BY <1>00, <1>01, <1>02, <2>1, <2>2, <2>32 DEF SignInInv, CrumbOK, CallStays
  <2>9. ASSUME NEW k \in Kinds PROVE Cardinality(Stored(k)') <= MaxFlows
    <3>0. /\ IsFiniteSet(Stored(k)) /\ IsFiniteSet(live)
          /\ Cardinality(Stored(k)) \in Nat /\ Cardinality(live) \in Nat
      <4>1. Stored(k) \subseteq FlowIds /\ live \subseteq FlowIds
        BY DEF live, Stored
      <4> QED
        BY <4>1, FS_Subset, FS_CardinalityType DEF SignInAssumption
    <3>1. CASE k = q.kind
      <4>1. Stored(k)' \subseteq live \cup {f}
        BY <2>31, <3>1 DEF Stored
      <4>2. IsFiniteSet(live \cup {f}) /\ Cardinality(live \cup {f}) <= Cardinality(live) + 1
        <5>1. /\ IsFiniteSet(live \cup {f})
              /\ \/ Cardinality(live \cup {f}) = Cardinality(live)
                 \/ Cardinality(live \cup {f}) = Cardinality(live) + 1
            BY ONLY <3>0, FS_AddElement
        <5> QED
            BY <3>0, <5>1
      <4>3. /\ IsFiniteSet(Stored(k)') /\ Cardinality(Stored(k)') <= Cardinality(live \cup {f})
        BY <4>1, <4>2, FS_Subset
      <4>4. Cardinality(Stored(k)') \in Nat /\ Cardinality(live \cup {f}) \in Nat /\ MaxFlows \in Nat
        BY <4>2, <4>3, FS_CardinalityType DEF SignInAssumption
      <4> QED
        BY <1>1, <3>0, <4>2, <4>3, <4>4
    <3>2. CASE k # q.kind
      <4>1. Stored(k)' \subseteq Stored(k)
        BY <1>09, <2>31, <3>2 DEF Stored
      <4>2. IsFiniteSet(Stored(k)') /\ Cardinality(Stored(k)') <= Cardinality(Stored(k))
        BY <3>0, <4>1, FS_Subset
      <4>3. Cardinality(Stored(k)') \in Nat /\ Cardinality(Stored(k)) <= MaxFlows /\ MaxFlows \in Nat
        BY <4>2, FS_CardinalityType DEF SignInAssumption, SignInInv
      <4> QED
        BY <3>0, <4>2, <4>3
    <3> QED
        BY <3>1, <3>2
  <2> QED
    BY <2>3, <2>6, <2>7, <2>8, <2>9 DEF SignInInv
<1>2. CASE kept' = Purged(q.kind) /\ Closed(c) /\ UNCHANGED began
  <2>1. CallStays(c) /\ flowCall'[c] = NoCallback
    BY <1>0, <1>2, CallCloses
  <2>2. flowCall'[c].pc = "idle" /\ flowCall'[c].cookies = {}
    BY <2>1 DEF NoCallback
  <2>3. SignInTypeOK'
    BY <1>0, <1>02, <1>03, <1>2, <2>1 DEF SignInTypeOK, CallStays
  <2> HIDE DEF live
  <2>6. \A d \in FlowCalls : CallOK(d)'
      BY <1>00, <1>01, <1>02, <1>03, <1>2, <2>1, <2>2 DEF SignInInv, SignInTypeOK, CallOK, CallStays, Building, BegunBy
  <2>7. \A j \in FlowIds : FlowOK(j)'
      BY <1>00, <1>01, <1>02, <1>03, <1>2, <2>1, <2>2 DEF SignInInv, SignInTypeOK, CallOK, FlowOK, CallStays, BegunBy
  <2>8. \A x \in Visitors, j \in FlowIds : CrumbOK(x, j)'
      BY <1>00, <1>01, <1>02, <1>03, <1>2, <2>1, <2>2 DEF SignInInv, SignInTypeOK, CallOK, CrumbOK, CallStays, BegunBy
  <2>9. \A k \in Kinds : Cardinality(Stored(k)') <= MaxFlows
    <3>1. \A j \in FlowIds : kept'[j] # None => kept[j] # None /\ kept'[j].kind = kept[j].kind
      BY <1>2, <1>03 DEF SignInTypeOK, KeptType
    <3> QED
      BY <3>1, FewerStored
  <2> QED
      BY <2>3, <2>6, <2>7, <2>8, <2>9 DEF SignInInv
<1> QED
    BY <1>1, <1>2 DEF create_flow

LEMMA CompleteKeepsInv ==
    ASSUME SignInAssumption, SignInInv, NEW c \in FlowCalls, complete_flow(c)
    PROVE  SignInInv'
<1> DEFINE q == flowCall[c]
<1>0. SignInTypeOK
    BY DEF SignInInv
<1>01. /\ q.pc = "provider" /\ q \in CallbackType
       /\ q.id \in FlowIds /\ q.visitor \in Visitors /\ BegunBy(q.id, q.visitor)
    BY <1>0 DEF SignInInv, CallOK, complete_flow, SignInTypeOK, BegunBy, BeganType
<1>02. UNCHANGED << kept, crumbs, signed, began, handed, taken, lost >>
    BY DEF complete_flow
<1>1. PICK ok \in BOOLEAN, issued \in Nat :
         flowCall' = [flowCall EXCEPT ![c] = [q EXCEPT !.pc = "answer", !.ok = ok, !.session = issued]]
  <2>1. CASE flowCall' = [flowCall EXCEPT ![c].pc = "answer"]
    <3>1. flowCall' = [flowCall EXCEPT ![c] = [q EXCEPT !.pc = "answer", !.ok = q.ok, !.session = q.session]]
        BY <1>0, <1>01, <2>1 DEF SignInTypeOK, CallbackType
    <3>2. q.ok \in BOOLEAN /\ q.session \in Nat
        BY <1>01 DEF CallbackType
    <3> QED
        BY <3>1, <3>2
  <2>2. CASE flowCall' = [flowCall EXCEPT ![c].pc = "answer", ![c].ok = TRUE,
                             ![c].session = IF q.kind = "login" THEN signIns + 1 ELSE @]
    <3> DEFINE issued == IF q.kind = "login" THEN signIns + 1 ELSE q.session
    <3>1. issued \in Nat
        BY <1>0, <1>01 DEF SignInTypeOK, CallbackType
    <3>2. flowCall' = [flowCall EXCEPT ![c] = [q EXCEPT !.pc = "answer", !.ok = TRUE, !.session = issued]]
        BY <1>0, <2>2 DEF SignInTypeOK
    <3> QED
        BY <3>1, <3>2
  <2> QED
    BY <2>1, <2>2 DEF complete_flow
<1> DEFINE new == [q EXCEPT !.pc = "answer", !.ok = ok, !.session = issued]
<1>2. new \in CallbackType
    BY <1>01, <1>1 DEF CallbackType, FlowStages
<1>3. /\ new.pc = "answer" /\ new.cookies = q.cookies /\ new.visitor = q.visitor /\ new.id = q.id
    BY <1>01 DEF CallbackType
<1> HIDE DEF new
<1>31. CallStays(c) /\ flowCall'[c] = new
    BY <1>0, <1>1, <1>2, CallIs DEF new
<1>4. /\ completed' \in [FlowIds -> Visitors \cup {None}] /\ signIns' \in Nat
      /\ \A j \in FlowIds : completed'[j] # completed[j] => j = q.id /\ completed'[j] = q.visitor
  <2>1. CASE UNCHANGED << completed, alive, signIns >>
    BY <1>0, <2>1 DEF SignInTypeOK
  <2>2. CASE /\ signIns' = IF q.kind = "login" THEN signIns + 1 ELSE signIns
             /\ completed' = [completed EXCEPT ![q.id] = q.visitor]
    BY <1>0, <1>01, <2>2 DEF SignInTypeOK
  <2> QED
    BY <2>1, <2>2 DEF complete_flow
<1>5. SignInTypeOK'
    BY <1>0, <1>02, <1>31, <1>4 DEF SignInTypeOK, CallStays
<1>6. \A d \in FlowCalls : CallOK(d)'
    BY <1>01, <1>02, <1>3, <1>31, <1>4 DEF SignInInv, SignInTypeOK, CallOK, CallStays, Building, BegunBy
<1>7. \A j \in FlowIds : FlowOK(j)'
    BY <1>01, <1>02, <1>3, <1>31, <1>4 DEF SignInInv, SignInTypeOK, CallOK, FlowOK, CallStays, BegunBy
<1>8. \A x \in Visitors, j \in FlowIds : CrumbOK(x, j)'
    BY <1>01, <1>02, <1>3, <1>31, <1>4 DEF SignInInv, SignInTypeOK, CallOK, CrumbOK, CallStays, BegunBy
<1>9. \A k \in Kinds : Cardinality(Stored(k)') <= MaxFlows
    BY <1>01, <1>02, <1>3, <1>31, <1>4 DEF SignInInv, Stored
<1> QED
    BY <1>5, <1>6, <1>7, <1>8, <1>9 DEF SignInInv

LEMMA AnswerKeepsInv ==
    ASSUME SignInAssumption, SignInInv, NEW c \in FlowCalls, answer_callback(c)
    PROVE  SignInInv'
<1> DEFINE q == flowCall[c]
<1>0. SignInTypeOK
    BY DEF SignInInv
<1>01. /\ q.pc = "answer" /\ q \in CallbackType
       /\ q.id \in FlowIds /\ q.id \in handed /\ BegunBy(q.id, q.visitor)
    BY <1>0 DEF SignInInv, CallOK, answer_callback, SignInTypeOK, BegunBy
<1>02. UNCHANGED << kept, signIns, began, handed, taken, completed >>
    BY DEF answer_callback
<1>1. CallStays(c) /\ flowCall'[c] = NoCallback
    BY <1>0, CallCloses DEF answer_callback
<1>2. flowCall'[c].pc = "idle" /\ flowCall'[c].cookies = {}
    BY <1>1 DEF NoCallback
<1>3. /\ crumbs' \in [Visitors -> SUBSET FlowIds] /\ signed' \in [Visitors -> Nat]
      /\ lost \subseteq lost'
      /\ \A x \in Visitors, j \in FlowIds :
            j \in crumbs'[x] =>
               j \in crumbs[x] /\ (j = q.id /\ x = q.visitor => j \in lost')
  <2>1. CASE /\ crumbs' = [crumbs EXCEPT ![q.visitor] = @ \ {q.id}]
             /\ UNCHANGED << alive, lost >>
             /\ signed' = [signed EXCEPT ![q.visitor] = q.session] \/ signed' = signed
    <3>1. q.session \in Nat
        BY <1>01 DEF CallbackType
    <3>2. signed' \in [Visitors -> Nat]
        BY <1>0, <2>1, <3>1 DEF SignInTypeOK
    <3> QED
        BY <1>0, <2>1, <3>2 DEF SignInTypeOK
  <2>2. CASE lost' = lost \cup {q.id} /\ UNCHANGED << crumbs, signed >>
    BY <1>0, <2>2 DEF SignInTypeOK
  <2> QED
    BY <2>1, <2>2 DEF answer_callback
<1>5. SignInTypeOK'
    BY <1>0, <1>02, <1>1, <1>3 DEF SignInTypeOK, CallStays
<1>6. \A d \in FlowCalls : CallOK(d)'
    BY <1>01, <1>02, <1>1, <1>2, <1>3 DEF SignInInv, SignInTypeOK, CallOK, CallStays, Building, BegunBy
<1>7. \A j \in FlowIds : FlowOK(j)'
    BY <1>01, <1>02, <1>1, <1>2, <1>3 DEF SignInInv, SignInTypeOK, CallOK, FlowOK, CallStays, BegunBy
<1>8. \A x \in Visitors, j \in FlowIds : CrumbOK(x, j)'
    BY <1>01, <1>02, <1>1, <1>2, <1>3 DEF SignInInv, SignInTypeOK, CallOK, CrumbOK, CallStays, BegunBy
<1>9. \A k \in Kinds : Cardinality(Stored(k)') <= MaxFlows
    BY <1>01, <1>02, <1>1, <1>2, <1>3 DEF SignInInv, Stored
<1> QED
    BY <1>5, <1>6, <1>7, <1>8, <1>9 DEF SignInInv

LEMMA FlowExpiresKeepsInv ==
    ASSUME SignInAssumption, SignInInv, NEW i \in FlowIds, flow_expires(i)
    PROVE  SignInInv'
<1>0. SignInTypeOK
    BY DEF SignInInv
<1>1. UNCHANGED << crumbs, signed, alive, signIns, flowCall, began, handed, taken, completed, lost >>
    BY DEF flow_expires
<1>2. /\ kept[i] \in KeptType /\ kept[i] # None
      /\ kept' = [kept EXCEPT ![i] = [kept[i] EXCEPT !.expired = TRUE]]
    BY <1>0 DEF flow_expires, SignInTypeOK
<1> DEFINE new == [kept[i] EXCEPT !.expired = TRUE]
<1>3. new \in KeptType /\ new.kind = kept[i].kind
    BY <1>2 DEF KeptType
<1> HIDE DEF new
<1>4. /\ kept' \in [FlowIds -> KeptType \cup {None}]
      /\ \A j \in FlowIds : kept'[j] # None => kept[j] # None /\ kept'[j].kind = kept[j].kind
    BY <1>0, <1>2, <1>3 DEF SignInTypeOK, new
<1>5. SignInTypeOK'
    BY <1>0, <1>1, <1>4 DEF SignInTypeOK
<1>6. \A d \in FlowCalls : CallOK(d)'
    BY <1>1, <1>4 DEF SignInInv, SignInTypeOK, CallOK, CallStays, Building, BegunBy
<1>7. \A j \in FlowIds : FlowOK(j)'
    BY <1>1, <1>4 DEF SignInInv, SignInTypeOK, CallOK, FlowOK, CallStays, BegunBy
<1>8. \A x \in Visitors, j \in FlowIds : CrumbOK(x, j)'
    BY <1>1, <1>4 DEF SignInInv, SignInTypeOK, CallOK, CrumbOK, CallStays, BegunBy
<1>9. \A k \in Kinds : Cardinality(Stored(k)') <= MaxFlows
  <2>1. \A j \in FlowIds : kept'[j] # None => kept[j] # None /\ kept'[j].kind = kept[j].kind
    BY <1>4 DEF SignInTypeOK, KeptType
  <2> QED
    BY <2>1, FewerStored
<1> QED
    BY <1>5, <1>6, <1>7, <1>8, <1>9 DEF SignInInv

LEMMA CrumbExpiresKeepsInv ==
    ASSUME SignInAssumption, SignInInv, NEW b \in Visitors, NEW i \in FlowIds, crumb_expires(b, i)
    PROVE  SignInInv'
<1>0. SignInTypeOK
    BY DEF SignInInv
<1>1. UNCHANGED << kept, signed, alive, signIns, flowCall, began, handed, taken, completed, lost >>
    BY DEF crumb_expires
<1>2. /\ crumbs' \in [Visitors -> SUBSET FlowIds]
      /\ \A x \in Visitors : crumbs'[x] \subseteq crumbs[x]
    BY <1>0 DEF crumb_expires, SignInTypeOK
<1>5. SignInTypeOK'
    BY <1>0, <1>1, <1>2 DEF SignInTypeOK
<1>6. \A d \in FlowCalls : CallOK(d)'
    BY <1>1, <1>2 DEF SignInInv, SignInTypeOK, CallOK, CallStays, Building, BegunBy
<1>7. \A j \in FlowIds : FlowOK(j)'
    BY <1>1, <1>2 DEF SignInInv, SignInTypeOK, CallOK, FlowOK, CallStays, BegunBy
<1>8. \A x \in Visitors, j \in FlowIds : CrumbOK(x, j)'
    BY <1>1, <1>2 DEF SignInInv, SignInTypeOK, CallOK, CrumbOK, CallStays, BegunBy
<1>9. \A k \in Kinds : Cardinality(Stored(k)') <= MaxFlows
    BY <1>1, <1>2 DEF SignInInv, Stored
<1> QED
    BY <1>5, <1>6, <1>7, <1>8, <1>9 DEF SignInInv

LEMMA LeaveKeepsInv ==
    ASSUME SignInAssumption, SignInInv, NEW b \in Visitors, leave(b)
    PROVE  SignInInv'
<1>0. SignInTypeOK
    BY DEF SignInInv
<1>1. UNCHANGED << kept, crumbs, signIns, flowCall, began, handed, taken, completed, lost >>
    BY DEF leave
<1>5. SignInTypeOK'
    BY <1>0, <1>1 DEF SignInTypeOK, leave
<1>6. \A d \in FlowCalls : CallOK(d)'
    BY <1>1 DEF SignInInv, SignInTypeOK, CallOK, CallStays, Building, BegunBy
<1>7. \A j \in FlowIds : FlowOK(j)'
    BY <1>1 DEF SignInInv, SignInTypeOK, CallOK, FlowOK, CallStays, BegunBy
<1>8. \A x \in Visitors, j \in FlowIds : CrumbOK(x, j)'
    BY <1>1 DEF SignInInv, SignInTypeOK, CallOK, CrumbOK, CallStays, BegunBy
<1>9. \A k \in Kinds : Cardinality(Stored(k)') <= MaxFlows
    BY <1>1 DEF SignInInv, Stored
<1> QED
    BY <1>5, <1>6, <1>7, <1>8, <1>9 DEF SignInInv

LEMMA SignInInvStep ==
    ASSUME SignInAssumption, SignInInv, [SignInNext]_signInVars
    PROVE  SignInInv'
<1>1. CASE UNCHANGED signInVars
    BY <1>1 DEF SignInInv, SignInTypeOK, CallOK, FlowOK, CrumbOK, Building, BegunBy, Stored,
                signInVars, signInState
<1>2. CASE SignInNext
    BY <1>2, OpenBeginKeepsInv, OpenCallbackKeepsInv, RefuseKeepsInv, CreateKeepsInv, BuildKeepsInv,
       RedirectKeepsInv, ConsumeKeepsInv, CompleteKeepsInv, AnswerKeepsInv, FlowExpiresKeepsInv,
       CrumbExpiresKeepsInv, LeaveKeepsInv DEF SignInNext
<1> QED
    BY <1>1, <1>2

\* Sign-ins and links of several tabs and browsers do not disturb each other: a flow is
\* completed only in the browser that began it, a failed begin leaves nothing in the
\* store, and no more flows are kept than the store may hold (FlowsStayInTheirBrowser).
THEOREM FlowsStayInTheirBrowserAlways == SignInSpec => []FlowsStayInTheirBrowser
<1>1. SignInInit => SignInInv
  <2> SUFFICES ASSUME SignInInit PROVE SignInInv
    OBVIOUS
  <2>1. NoCallback \in CallbackType /\ NoCallback.pc = "idle" /\ NoCallback.cookies = {}
    BY DEF NoCallback, CallbackType, FlowStages
  <2>2. SignInTypeOK
    BY <2>1 DEF SignInInit, SignInTypeOK
  <2>3. /\ \A c \in FlowCalls : CallOK(c)
        /\ \A i \in FlowIds : FlowOK(i)
        /\ \A b \in Visitors, i \in FlowIds : CrumbOK(b, i)
    BY <2>1 DEF SignInInit, CallOK, FlowOK, CrumbOK, Building
  <2>4. ASSUME NEW kind \in Kinds PROVE Cardinality(Stored(kind)) <= MaxFlows
    <3>1. Stored(kind) = {}
        BY DEF SignInInit, Stored
    <3> QED
        BY <3>1, FS_EmptySet, SignInAssumption DEF SignInAssumption
  <2> QED
    BY <2>2, <2>3, <2>4 DEF SignInInv
<1>2. SignInInv => FlowsStayInTheirBrowser
  <2> SUFFICES ASSUME SignInInv PROVE FlowsStayInTheirBrowser
    OBVIOUS
  <2>1. \A i \in FlowIds : completed[i] # None => completed[i] = began[i].visitor
    BY DEF SignInInv, FlowOK, BegunBy
  <2>2. \A i \in FlowIds : kept[i] # None => i \in handed \/ Serving(i)
    BY DEF SignInInv, FlowOK, Serving
  <2>3. \A b \in Visitors : \A i \in crumbs[b] \cap taken : i \in lost \/ Serving(i)
    BY DEF SignInInv, SignInTypeOK, CrumbOK, Serving
  <2> QED
    BY <2>1, <2>2, <2>3 DEF FlowsStayInTheirBrowser, SignInInv
<1> QED
    BY <1>1, <1>2, SignInInvStep, SignInAssumption, PTL DEF SignInSpec

-----------------------------------------------------------------------------
(***************************************************************************)
(* The rate limit at the edge (RateLimit)                                   *)
(***************************************************************************)

\* A window that contains an instant ends after it.
LEMMA WindowEndsLater ==
    ASSUME NEW epoch \in Nat, NEW w \in Nat \ {0}
    PROVE  ((epoch \div w) + 1) * w > epoch /\ epoch \div w \in Nat
    OBVIOUS

Clients == {resolve(peer, chain) : peer \in Addresses, chain \in Chains} \cup {None}
RequestType == [pc : {"idle", "admit", "login"}, client : Clients, now : Nat]

\* A key: a rule, and the number of a window.
IsKey(k) == k[1] \in {"global", "client"} /\ k[3] \in Nat
CurrentKey(k, epoch) == (k[3] + 1) * Window(k) > epoch

\* The counters are the history of the windows that have not ended for the store.
RateInv ==
    /\ rateRequest \in [Workers -> RequestType]
    /\ highWater \in Nat
    /\ IsFiniteSet(DOMAIN counters) /\ Cardinality(DOMAIN counters) <= MaxCounters
    /\ \A k \in DOMAIN admissions :
          /\ IsKey(k)
          /\ admissions[k] \in Nat /\ admissions[k] <= Limit(k)
          /\ CurrentKey(k, highWater) => k \in DOMAIN counters
    /\ \A k \in DOMAIN counters : k \in DOMAIN admissions /\ counters[k] = admissions[k]

LEMMA RuleOfKey ==
    ASSUME NEW k, IsKey(k)
    PROVE  Limit(k) \in Nat \ {0} /\ Window(k) \in Nat \ {0}
    BY RateAssumption DEF IsKey, Limit, Window, RateAssumption

LEMMA EpochAdvances ==
    ASSUME highWater \in Nat, NEW now \in Nat
    PROVE  Epoch(now) \in Nat /\ Epoch(now) >= highWater
    BY DEF Epoch

\* The keys of a request are of windows that have not ended.
LEMMA KeysAreCurrent ==
    ASSUME NEW w \in Workers, NEW epoch \in Nat,
           NEW k \in {KeyAt(b, epoch) : b \in Buckets(w)}
    PROVE  IsKey(k) /\ CurrentKey(k, epoch)
<1>1. PICK b \in Buckets(w) : k = KeyAt(b, epoch)
    OBVIOUS
<1>2. b[1] \in {"global", "client"}
    BY DEF Buckets
<1>3. k[1] = b[1] /\ k[3] = epoch \div Window(b) /\ Window(k) = Window(b)
    BY <1>1 DEF KeyAt, Window
<1>4. Window(b) \in Nat \ {0}
    BY <1>2, RateAssumption DEF Window, RateAssumption
<1> QED
    BY <1>2, <1>3, <1>4, WindowEndsLater DEF IsKey, CurrentKey

LEMMA Pruned ==
    ASSUME RateInv, NEW epoch \in Nat, epoch >= highWater
    PROVE  /\ DOMAIN ActiveRule(epoch) \subseteq DOMAIN counters
           /\ IsFiniteSet(DOMAIN ActiveRule(epoch))
           /\ Cardinality(DOMAIN ActiveRule(epoch)) <= Cardinality(DOMAIN counters)
           /\ Cardinality(DOMAIN ActiveRule(epoch)) <= MaxCounters
           /\ \A k \in DOMAIN ActiveRule(epoch) :
                 k \in DOMAIN admissions /\ ActiveRule(epoch)[k] = admissions[k]
           /\ \A k \in DOMAIN admissions :
                 CurrentKey(k, epoch) => k \in DOMAIN ActiveRule(epoch)
<1>1. DOMAIN ActiveRule(epoch) = {k \in DOMAIN counters : CurrentKey(k, epoch)}
    BY DEF ActiveRule, CurrentKey
<1>2. \A k \in DOMAIN ActiveRule(epoch) : ActiveRule(epoch)[k] = counters[k]
    BY DEF ActiveRule
<1>3. ASSUME NEW k \in DOMAIN admissions, CurrentKey(k, epoch) PROVE CurrentKey(k, highWater)
  <2>1. (k[3] + 1) * Window(k) \in Nat /\ highWater \in Nat
    BY RuleOfKey DEF RateInv, IsKey
  <2> QED
    BY <1>3, <2>1 DEF CurrentKey
<1>4. /\ IsFiniteSet(DOMAIN ActiveRule(epoch))
      /\ Cardinality(DOMAIN ActiveRule(epoch)) <= Cardinality(DOMAIN counters)
    BY <1>1, FS_Subset DEF RateInv
<1>5. /\ Cardinality(DOMAIN ActiveRule(epoch)) \in Nat /\ Cardinality(DOMAIN counters) \in Nat
      /\ MaxCounters \in Nat
    BY <1>4, FS_CardinalityType, RateAssumption DEF RateInv, RateAssumption
<1> QED
    BY <1>1, <1>2, <1>3, <1>4, <1>5 DEF RateInv

LEMMA AdmitKeepsInv ==
    ASSUME RateInv, NEW w \in Workers, admit(w)
    PROVE  RateInv'
<1> DEFINE epoch == Epoch(rateRequest[w].now)
           active == ActiveRule(epoch)
           keys == {KeyAt(b, epoch) : b \in Buckets(w)}
           counted == Increment(active, keys)
<1>1. epoch \in Nat /\ epoch >= highWater
    BY EpochAdvances DEF RateInv, RequestType
<1>2. /\ DOMAIN active \subseteq DOMAIN counters
      /\ IsFiniteSet(DOMAIN active)
      /\ Cardinality(DOMAIN active) <= MaxCounters
      /\ \A k \in DOMAIN active : k \in DOMAIN admissions /\ active[k] = admissions[k]
      /\ \A k \in DOMAIN admissions : CurrentKey(k, epoch) => k \in DOMAIN active
    BY <1>1, Pruned
<1>3. \A k \in keys : IsKey(k) /\ CurrentKey(k, epoch)
    BY <1>1, KeysAreCurrent
<1>4. rateRequest' \in [Workers -> RequestType]
  <2>1. Nobody \in RequestType
    BY DEF Nobody, RequestType, Clients
  <2>2. \/ rateRequest' = [rateRequest EXCEPT ![w].pc = "login"]
        \/ rateRequest' = [rateRequest EXCEPT ![w] = Nobody]
    BY DEF admit
  <2> QED
    BY <2>1, <2>2 DEF RateInv, RequestType
<1> HIDE DEF epoch, active
<1>5. CASE /\ admitted(active, keys) /\ Cardinality(DOMAIN counted) <= MaxCounters
           /\ counters' = counted /\ highWater' = epoch
           /\ admissions' = Increment(admissions, keys)
  <2>1. /\ DOMAIN counters' = DOMAIN active \cup keys
        /\ DOMAIN admissions' = DOMAIN admissions \cup keys
        /\ \A k \in DOMAIN counters' : counters'[k] = Count(active, k) + (IF k \in keys THEN 1 ELSE 0)
        /\ \A k \in DOMAIN admissions' :
              admissions'[k] = Count(admissions, k) + (IF k \in keys THEN 1 ELSE 0)
    BY <1>5 DEF Increment
  <2>2. IsFiniteSet(keys)
    <3>1. PICK a, b : keys = {a} \cup {b}
        BY DEF Buckets
    <3>2. IsFiniteSet({a}) /\ IsFiniteSet({b})
        BY FS_Singleton
    <3>3. IsFiniteSet({a} \cup {b})
        BY ONLY <3>2, FS_Union
    <3> QED
        BY ONLY <3>1, <3>3
  <2>3. IsFiniteSet(DOMAIN counters')
    <3>1. DOMAIN counters' = DOMAIN active \cup keys
        BY <2>1
    <3>2. IsFiniteSet(DOMAIN active)
        BY <1>2
    <3> HIDE DEF keys
    <3>3. IsFiniteSet(DOMAIN active \cup keys)
        BY ONLY <3>2, <2>2, FS_Union
    <3> QED
        BY ONLY <3>1, <3>3
  <2>4. \A k \in DOMAIN admissions : Count(admissions, k) = admissions[k] /\ admissions[k] \in Nat
    BY DEF Count, RateInv
  <2>5. \A k : k \notin DOMAIN admissions => Count(admissions, k) = 0
    BY DEF Count
  <2>6. ASSUME NEW k \in DOMAIN active \cup keys PROVE Count(active, k) = Count(admissions, k)
    BY <1>2, <1>3, <2>6 DEF Count
  <2>7. ASSUME NEW k \in keys PROVE Count(admissions, k) < Limit(k)
    <3>1. Count(active, k) = Count(admissions, k)
        BY <2>6
    <3>2. ~(Count(active, k) >= Limit(k))
        BY <1>5 DEF admitted, Full
    <3>3. Count(admissions, k) \in Nat /\ Limit(k) \in Nat
        BY <1>3, <2>4, <2>5, RuleOfKey
    <3> QED
        BY <3>1, <3>2, <3>3
  <2>8. ASSUME NEW k \in DOMAIN admissions'
        PROVE  /\ IsKey(k) /\ admissions'[k] \in Nat /\ admissions'[k] <= Limit(k)
               /\ CurrentKey(k, epoch) => k \in DOMAIN counters'
    <3>1. CASE k \in keys
      <4>1. IsKey(k) /\ Limit(k) \in Nat /\ Count(admissions, k) \in Nat
        BY <1>3, <2>4, <2>5, <3>1, RuleOfKey
      <4>2. admissions'[k] = Count(admissions, k) + 1
        BY <2>1, <3>1
      <4> HIDE DEF keys
      <4> QED
        BY <2>1, <2>7, <3>1, <4>1, <4>2
    <3>2. CASE k \notin keys
      <4>1. k \in DOMAIN admissions /\ admissions'[k] = admissions[k]
        BY <2>1, <2>4, <2>8, <3>2
      <4> HIDE DEF keys
      <4> QED
        BY <1>2, <2>1, <4>1 DEF RateInv
    <3> QED
        BY <3>1, <3>2
  <2>9. ASSUME NEW k \in DOMAIN counters'
        PROVE  k \in DOMAIN admissions' /\ counters'[k] = admissions'[k]
    <3> HIDE DEF keys
    <3> QED
        BY <1>2, <2>1, <2>6, <2>9
  <2>10. \A k : CurrentKey(k, highWater)' <=> CurrentKey(k, epoch)
    BY <1>5 DEF CurrentKey, Window
  <2> HIDE DEF keys
  <2> QED
    BY <1>1, <1>4, <1>5, <2>3, <2>8, <2>9, <2>10 DEF RateInv, IsKey, Limit
<1>6. CASE counters' = active /\ highWater' = epoch /\ UNCHANGED admissions
  <2>1. \A k : CurrentKey(k, highWater)' <=> CurrentKey(k, epoch)
    BY <1>6 DEF CurrentKey, Window
  <2> QED
    BY <1>1, <1>2, <1>4, <1>6, <2>1 DEF RateInv, IsKey, Limit
<1>7. CASE UNCHANGED <<counters, highWater, admissions>>
    BY <1>4, <1>7 DEF RateInv, IsKey, Limit, CurrentKey, Window
<1> QED
    BY <1>5, <1>6, <1>7 DEF admit, epoch, active

\* No window of a bucket admits more than its limit, whatever the workers' clocks say and
\* whatever was pruned, and the table of counters never outgrows its bound (LimitHolds).
THEOREM LimitHoldsAlways == RateSpec => []LimitHolds
<1>1. RateInit => RateInv
  <2> SUFFICES ASSUME RateInit PROVE RateInv
    OBVIOUS
  <2>1. Nobody \in RequestType
    BY DEF Nobody, RequestType, Clients
  <2>2. DOMAIN counters = {} /\ DOMAIN admissions = {}
    BY DEF RateInit
  <2> QED
    BY <2>1, <2>2, FS_EmptySet, RateAssumption DEF RateInit, RateInv, RateAssumption
<1>2. RateInv /\ [RateNext]_rateVars => RateInv'
  <2> SUFFICES ASSUME RateInv, [RateNext]_rateVars PROVE RateInv'
    OBVIOUS
  <2>1. CASE UNCHANGED rateVars
    BY <2>1 DEF RateInv, rateVars, rateState, IsKey, Limit, CurrentKey, Window
  <2>2. ASSUME NEW w \in Workers, admit_login(w) PROVE RateInv'
    <3>1. PICK peer \in Addresses, chain \in Chains, now \in 0..MaxEpoch :
             rateRequest' = [rateRequest EXCEPT ![w] =
                      [pc |-> "admit", client |-> resolve(peer, chain), now |-> now]]
        BY <2>2 DEF admit_login
    <3>2. [pc |-> "admit", client |-> resolve(peer, chain), now |-> now] \in RequestType
        BY RateAssumption DEF RequestType, Clients, RateAssumption
    <3>3. rateRequest' \in [Workers -> RequestType]
        BY <3>1, <3>2 DEF RateInv
    <3> QED
        BY <2>2, <3>3 DEF admit_login, RateInv, IsKey, Limit, CurrentKey, Window
  <2>3. ASSUME NEW w \in Workers, start_login(w) PROVE RateInv'
    <3>1. Nobody \in RequestType
        BY DEF Nobody, RequestType, Clients
    <3>2. rateRequest' \in [Workers -> RequestType]
        BY <2>3, <3>1 DEF start_login, RateInv
    <3> QED
        BY <2>3, <3>2 DEF start_login, RateInv, IsKey, Limit, CurrentKey, Window
  <2> QED
    BY <2>1, <2>2, <2>3, AdmitKeepsInv DEF RateNext
<1>3. RateInv => LimitHolds
    BY DEF RateInv, LimitHolds
<1> QED
    BY <1>1, <1>2, <1>3, PTL DEF RateSpec

-----------------------------------------------------------------------------
(***************************************************************************)
(* The pairing client of the terminal (PairingClient)                       *)
(***************************************************************************)

ClientPhases == {"begin", "poll", "using", "logout", "ended", "failed"}
WireRequests == [id : Nat, kind : {"begin", "consume", "logout"}]

ClientTypeOK ==
    /\ time \in Nat /\ expires \in Nat /\ sent \in Nat
    /\ tui \in [pc : ClientPhases, deadline : Nat, until : Nat, wake : Nat, request : Nat,
                warned : BOOLEAN, credential : BOOLEAN]
    /\ process \in {"none", "launching", "sent"}
    /\ wire \in SUBSET WireRequests
    /\ outcome \in Outcomes \cup {None}
    /\ pairing \in {"none", "pending", "authorized", "consumed"}
    /\ terminalSession \in {"none", "live", "revoked"}

\* A request on the wire with the number of the one that is waited for is that one.
WireIsNumbered ==
    /\ tui.request <= sent
    /\ \A r \in wire : r.id <= sent
    /\ process = "launching" => \A r \in wire : r.id # tui.request
    /\ process = "sent" => \A r \in wire : r.id = tui.request => r.kind = Asks[tui.pc]

\* An outcome is printed by a process that has ended, of a phase that waits for it.
OutcomeIsOfAPhase ==
    /\ process # "none" => outcome = None
    /\ process # "none" \/ outcome # None => tui.pc \in {"begin", "poll", "logout"}

\* A code is asked for once, before anything else.
BeginIsFirst ==
    /\ tui.pc = "begin" =>
          /\ terminalSession = "none"
          /\ \A r \in wire : r.id = tui.request /\ r.kind = "begin"
          /\ process # "sent" => wire = {}
    /\ \A r \in wire : r.kind = "begin" =>
          /\ tui.pc \in {"begin", "failed"}
          /\ terminalSession = "none"
          /\ \A q \in wire : q.kind = "begin"

\* The session exists once the code is consumed, and the terminal that got to use it
\* or asks for its end knows that it exists.
SessionIsConsumed ==
    /\ terminalSession # "none" => pairing = "consumed"
    /\ tui.pc \in {"using", "logout"} => terminalSession # "none"
    /\ tui.pc = "poll" /\ outcome = "ok" => terminalSession # "none"
    /\ \A r \in wire : r.kind = "logout" => terminalSession # "none"

LogoutIsKnown == tui.pc = "logout" /\ outcome = "ok" => terminalSession = "revoked"

ClientInv ==
    /\ ClientTypeOK /\ WireIsNumbered /\ OutcomeIsOfAPhase /\ BeginIsFirst
    /\ SessionIsConsumed /\ LogoutIsKnown /\ SilentExitIsLoggedOut

\* The terminal's record, after a step of the phase it is in.
LEMMA ClientGoes ==
    ASSUME ClientTypeOK, NEW pc \in ClientPhases, Gives(pc)
    PROVE  /\ tui'.pc = pc /\ tui'.request = tui.request /\ tui'.warned = tui.warned
           /\ tui' \in [pc : ClientPhases, deadline : Nat, until : Nat, wake : Nat, request : Nat,
                        warned : BOOLEAN, credential : BOOLEAN]
    BY DEF ClientTypeOK, Gives

LEMMA ClientSleeps ==
    ASSUME ClientTypeOK, Sleeps(1)
    PROVE  /\ tui'.pc = tui.pc /\ tui'.request = tui.request /\ tui'.warned = tui.warned
           /\ tui' \in [pc : ClientPhases, deadline : Nat, until : Nat, wake : Nat, request : Nat,
                        warned : BOOLEAN, credential : BOOLEAN]
    BY DEF ClientTypeOK, Sleeps, Earlier

LEMMA ClientWarns ==
    ASSUME ClientTypeOK, tui' = [tui EXCEPT !.pc = "ended", !.warned = TRUE]
    PROVE  /\ tui'.pc = "ended" /\ tui'.request = tui.request /\ tui'.warned
           /\ tui' \in [pc : ClientPhases, deadline : Nat, until : Nat, wake : Nat, request : Nat,
                        warned : BOOLEAN, credential : BOOLEAN]
    BY DEF ClientTypeOK, ClientPhases

\* A request that leaves the wire leaves the others as they were.
LEMMA ServedLeaves ==
    ASSUME ClientInv, NEW r \in wire, wire' = wire \ {r}, UNCHANGED << tui, sent, time >>,
           NEW o \in Outcomes, Answer(r, o)
    PROVE  /\ wire' \in SUBSET WireRequests
           /\ process' \in {"none", "launching", "sent"} /\ outcome' \in Outcomes \cup {None}
           /\ WireIsNumbered' /\ OutcomeIsOfAPhase'
           /\ tui.pc = "begin" => (process' # "sent" => wire' = {})
           /\ outcome' # outcome => outcome' = o /\ r.kind = Asks[tui.pc]
<1>1. r \in WireRequests
    BY DEF ClientInv, ClientTypeOK
<1>2. CASE process = "sent" /\ tui.request = r.id
  <2>1. outcome' = o /\ process' = "none" /\ r.kind = Asks[tui.pc]
    BY <1>2 DEF Answer, ClientInv, WireIsNumbered
  <2>2. ASSUME tui.pc = "begin" PROVE wire' = {}
    <3>1. \A q \in wire : q = r
        BY <1>1, <1>2, <2>2 DEF ClientInv, ClientTypeOK, BeginIsFirst, WireRequests
    <3> QED
        BY <3>1
  <2> QED
    BY <1>2, <2>1, <2>2 DEF ClientInv, ClientTypeOK, WireIsNumbered, OutcomeIsOfAPhase
<1>3. CASE ~(process = "sent" /\ tui.request = r.id)
  <2>1. outcome' = outcome /\ process' = process
    BY <1>3 DEF Answer
  <2> QED
    BY <1>1, <1>3, <2>1 DEF ClientInv, ClientTypeOK, WireIsNumbered, OutcomeIsOfAPhase, BeginIsFirst
<1> QED
    BY <1>2, <1>3

LEMMA BeginServed ==
    ASSUME ClientInv, NEW r \in wire, serve(r), r.kind = "begin"
    PROVE  ClientInv'
<1>1. /\ pairing' = "pending" /\ expires' = time + PairingLife /\ Answer(r, "ok")
      /\ UNCHANGED << terminalSession, time, tui, sent >> /\ wire' = wire \ {r}
    BY DEF serve
<1>2. "ok" \in Outcomes
    BY DEF Outcomes
<1>3. /\ wire' \in SUBSET WireRequests
      /\ process' \in {"none", "launching", "sent"} /\ outcome' \in Outcomes \cup {None}
      /\ WireIsNumbered' /\ OutcomeIsOfAPhase'
      /\ tui.pc = "begin" => (process' # "sent" => wire' = {})
      /\ outcome' # outcome => r.kind = Asks[tui.pc]
    BY <1>1, <1>2, ServedLeaves
<1>4. tui.pc \in {"begin", "failed"} /\ terminalSession = "none" /\ \A q \in wire : q.kind = "begin"
    BY DEF ClientInv, BeginIsFirst
<1>5. ClientTypeOK'
    BY <1>1, <1>3, ClientAssumption DEF ClientInv, ClientTypeOK, ClientAssumption
<1>6. BeginIsFirst'
    BY <1>1, <1>3, <1>4 DEF ClientInv, BeginIsFirst
<1>7. SessionIsConsumed' /\ LogoutIsKnown' /\ SilentExitIsLoggedOut'
    BY <1>1, <1>4 DEF ClientInv, SessionIsConsumed, LogoutIsKnown, SilentExitIsLoggedOut
<1> QED
    BY <1>3, <1>5, <1>6, <1>7 DEF ClientInv

LEMMA ConsumeServed ==
    ASSUME ClientInv, NEW r \in wire, serve(r), r.kind = "consume"
    PROVE  ClientInv'
<1>1. /\ UNCHANGED << expires, time, tui, sent >> /\ wire' = wire \ {r}
      /\ \/ pairing = "authorized" /\ pairing' = "consumed" /\ terminalSession' = "live" /\ Answer(r, "ok")
         \/ \E o \in {"error", "pending"} : Answer(r, o) /\ UNCHANGED << pairing, terminalSession >>
    BY DEF serve
<1>2. \A q \in wire : q.kind # "begin"
    BY DEF ClientInv, BeginIsFirst
<1>3. PICK o \in {"ok", "error", "pending"} :
        /\ Answer(r, o)
        /\ o = "ok" => pairing = "authorized" /\ pairing' = "consumed" /\ terminalSession' = "live"
        /\ o # "ok" => UNCHANGED << pairing, terminalSession >>
    BY <1>1
<1>4. o \in Outcomes
    BY DEF Outcomes
<1>5. /\ wire' \in SUBSET WireRequests
      /\ process' \in {"none", "launching", "sent"} /\ outcome' \in Outcomes \cup {None}
      /\ WireIsNumbered' /\ OutcomeIsOfAPhase'
      /\ tui.pc = "begin" => (process' # "sent" => wire' = {})
      /\ outcome' # outcome => outcome' = o /\ r.kind = Asks[tui.pc]
    BY <1>1, <1>3, <1>4, ServedLeaves
<1>6. ClientTypeOK'
    BY <1>1, <1>3, <1>5 DEF ClientInv, ClientTypeOK
<1>7. tui.pc # "begin"
    BY DEF ClientInv, BeginIsFirst
<1>8. BeginIsFirst'
    BY <1>1, <1>2, <1>7 DEF BeginIsFirst
<1>9. SessionIsConsumed'
  <2>1. CASE o = "ok"
    BY <1>1, <1>3, <2>1 DEF SessionIsConsumed
  <2>2. CASE o # "ok"
    BY <1>1, <1>3, <1>5, <2>2 DEF ClientInv, SessionIsConsumed
  <2> QED
    BY <2>1, <2>2
<1>10. LogoutIsKnown' /\ SilentExitIsLoggedOut'
  <2>1. terminalSession = "revoked" => terminalSession' = "revoked"
    BY <1>3 DEF ClientInv, SessionIsConsumed
  <2>2. tui.pc = "logout" => outcome' = outcome
    BY <1>5 DEF Asks
  <2> QED
    BY <1>1, <2>1, <2>2 DEF ClientInv, LogoutIsKnown, SilentExitIsLoggedOut
<1> QED
    BY <1>5, <1>6, <1>8, <1>9, <1>10 DEF ClientInv

\* A logout is served, or fails after or before its work: the session may only end.
LEMMA LogoutServed ==
    ASSUME ClientInv, NEW r \in wire, NEW o \in Outcomes, Answer(r, o),
           wire' = wire \ {r}, UNCHANGED << time, tui, sent, expires, pairing >>,
           \/ terminalSession' = "revoked" /\ r.kind = "logout"
           \/ terminalSession' = terminalSession /\ o # "ok"
    PROVE  ClientInv'
<1>1. /\ wire' \in SUBSET WireRequests
      /\ process' \in {"none", "launching", "sent"} /\ outcome' \in Outcomes \cup {None}
      /\ WireIsNumbered' /\ OutcomeIsOfAPhase'
      /\ tui.pc = "begin" => (process' # "sent" => wire' = {})
      /\ outcome' # outcome => outcome' = o /\ r.kind = Asks[tui.pc]
    BY ServedLeaves
<1>2. r.kind = "logout" => terminalSession # "none"
    BY DEF ClientInv, SessionIsConsumed
<1>3. terminalSession' = "none" <=> terminalSession = "none"
    BY <1>2
<1>4. terminalSession = "revoked" => terminalSession' = "revoked"
    OBVIOUS
<1>5. ClientTypeOK'
    BY <1>1 DEF ClientInv, ClientTypeOK
<1>6. BeginIsFirst'
    BY <1>1, <1>3 DEF ClientInv, BeginIsFirst
<1>7. SessionIsConsumed'
  <2>1. tui.pc = "poll" /\ outcome' = "ok" => outcome = "ok" \/ terminalSession' # "none"
    BY <1>1 
  <2> QED
    BY <1>3, <2>1 DEF ClientInv, SessionIsConsumed
<1>8. LogoutIsKnown' /\ SilentExitIsLoggedOut'
  <2>1. tui.pc = "logout" /\ outcome' = "ok" => outcome = "ok" \/ terminalSession' = "revoked"
    BY <1>1
  <2> QED
    BY <1>4, <2>1 DEF ClientInv, LogoutIsKnown, SilentExitIsLoggedOut
<1> QED
    BY <1>1, <1>5, <1>6, <1>7, <1>8 DEF ClientInv

\* A step of the client that reads an outcome, or gives up.
LEMMA ClientMoves ==
    ASSUME ClientInv, process = "none", tui.pc # "failed",
           UNCHANGED << time, process, wire, pairing, expires, terminalSession, sent >>,
           outcome' = None,
           tui' \in [pc : ClientPhases, deadline : Nat, until : Nat, wake : Nat, request : Nat,
                     warned : BOOLEAN, credential : BOOLEAN],
           tui'.request = tui.request,
           tui'.pc # "begin",
           tui'.pc \in {"using", "logout"} => terminalSession # "none",
           tui'.pc = "ended" /\ ~tui'.warned => terminalSession = "revoked"
    PROVE  ClientInv'
<1>1. ClientTypeOK'
    BY DEF ClientInv, ClientTypeOK
<1>2. WireIsNumbered' /\ OutcomeIsOfAPhase'
    BY DEF ClientInv, WireIsNumbered, OutcomeIsOfAPhase
<1>3. BeginIsFirst'
  <2>1. \A q \in wire : q.kind # "begin"
    BY DEF ClientInv, BeginIsFirst
  <2> QED
    BY <2>1 DEF BeginIsFirst
<1>4. SessionIsConsumed'
    BY ClientAssumption DEF ClientInv, SessionIsConsumed, ClientAssumption, Outcomes
<1>5. LogoutIsKnown' /\ SilentExitIsLoggedOut'
    BY ClientAssumption DEF LogoutIsKnown, SilentExitIsLoggedOut, ClientAssumption, Outcomes
<1> QED
    BY <1>1, <1>2, <1>3, <1>4, <1>5 DEF ClientInv

LEMMA LaunchKeepsClientInv ==
    ASSUME ClientInv, launch
    PROVE  ClientInv'
<1>1. /\ tui.pc \in DOMAIN Asks /\ process = "none" /\ outcome = None
      /\ process' = "launching" /\ sent' = sent + 1
      /\ UNCHANGED << time, wire, outcome, pairing, expires, terminalSession >>
    BY DEF launch
<1>2. tui.pc \in {"begin", "poll", "logout"}
    BY <1>1 DEF Asks
<1>3. PICK until \in Nat : tui' = [tui EXCEPT !.request = sent + 1, !.until = until]
  <2> DEFINE until == IF tui.pc = "begin" THEN time + RequestTime
                      ELSE IF tui.pc = "poll" THEN Earlier(time + RequestTime, tui.deadline)
                      ELSE tui.deadline
  <2>1. until \in Nat
    BY ClientAssumption DEF Earlier, ClientInv, ClientTypeOK, ClientAssumption
  <2> QED
    BY <2>1 DEF launch
<1>4. /\ tui'.pc = tui.pc /\ tui'.request = sent + 1 /\ tui'.warned = tui.warned
      /\ tui' \in [pc : ClientPhases, deadline : Nat, until : Nat, wake : Nat, request : Nat,
                      warned : BOOLEAN, credential : BOOLEAN]
  <2>1. PICK n \in Nat : n = sent + 1
    BY DEF ClientInv, ClientTypeOK
  <2>2. tui' = [tui EXCEPT !.request = n, !.until = until]
    BY <1>3, <2>1
  <2> QED
    BY ONLY ClientInv, <2>1, <2>2, until \in Nat DEF ClientInv, ClientTypeOK
<1>5. ClientTypeOK'
    BY <1>1, <1>4 DEF ClientInv, ClientTypeOK
<1>6. WireIsNumbered'
  <2>1. sent \in Nat /\ \A r \in wire : r.id \in Nat /\ r.id <= sent
    BY DEF ClientInv, ClientTypeOK, WireIsNumbered, WireRequests
  <2>2. \A r \in wire : r.id <= sent + 1 /\ r.id # sent + 1
    BY <2>1
  <2> QED
    BY <1>1, <1>4, <2>1, <2>2 DEF WireIsNumbered
<1>7. OutcomeIsOfAPhase' /\ LogoutIsKnown' /\ SilentExitIsLoggedOut' /\ SessionIsConsumed'
    BY <1>1, <1>2, <1>4 DEF ClientInv, OutcomeIsOfAPhase, LogoutIsKnown, SilentExitIsLoggedOut,
       SessionIsConsumed
<1>8. BeginIsFirst'
    BY <1>1, <1>4 DEF ClientInv, BeginIsFirst
<1> QED
    BY <1>5, <1>6, <1>7, <1>8 DEF ClientInv

LEMMA CommunicateKeepsClientInv ==
    ASSUME ClientInv, communicate
    PROVE  ClientInv'
<1> DEFINE r == [id |-> tui.request, kind |-> Asks[tui.pc]]
<1>1. /\ process = "launching" /\ process' = "sent" /\ wire' = wire \cup {r}
      /\ UNCHANGED << time, tui, outcome, pairing, expires, terminalSession, sent >>
    BY DEF communicate
<1>2. tui.pc \in {"begin", "poll", "logout"}
    BY <1>1 DEF ClientInv, OutcomeIsOfAPhase
<1>3. /\ tui.pc = "begin" => r.kind = "begin"
      /\ tui.pc = "poll" => r.kind = "consume"
      /\ tui.pc = "logout" => r.kind = "logout"
      /\ r.id = tui.request /\ r.kind = Asks[tui.pc]
    BY DEF Asks
<1>4. r \in WireRequests
    BY <1>2, <1>3 DEF ClientInv, ClientTypeOK, WireRequests
<1> HIDE DEF r
<1>5. ClientTypeOK'
    BY <1>1, <1>4 DEF ClientInv, ClientTypeOK
<1>6. WireIsNumbered'
    BY <1>1, <1>3 DEF ClientInv, WireIsNumbered
<1>7. OutcomeIsOfAPhase' /\ LogoutIsKnown' /\ SilentExitIsLoggedOut'
    BY <1>1, <1>2 DEF ClientInv, OutcomeIsOfAPhase, LogoutIsKnown, SilentExitIsLoggedOut
<1>8. SessionIsConsumed'
    BY <1>1, <1>2, <1>3 DEF ClientInv, SessionIsConsumed
<1>9. BeginIsFirst'
  <2>1. CASE tui.pc = "begin"
    <3>1. wire = {} /\ terminalSession = "none"
        BY <1>1, <2>1 DEF ClientInv, BeginIsFirst
    <3> QED
        BY <1>1, <1>3, <2>1, <3>1 DEF BeginIsFirst
  <2>2. CASE tui.pc # "begin"
    <3>1. \A q \in wire' : q.kind # "begin"
        BY <1>1, <1>2, <1>3, <2>2 DEF ClientInv, BeginIsFirst
    <3> QED
        BY <1>1, <2>2, <3>1 DEF BeginIsFirst
  <2> QED
    BY <2>1, <2>2
<1> QED
    BY <1>5, <1>6, <1>7, <1>8, <1>9 DEF ClientInv

LEMMA KillKeepsClientInv ==
    ASSUME ClientInv, kill_process
    PROVE  ClientInv'
<1> DEFINE pc == IF tui.pc = "logout" THEN "ended" ELSE "failed"
<1>1. /\ process # "none" /\ process' = "none"
      /\ tui' = [tui EXCEPT !.pc = pc, !.warned = (tui.pc = "logout")]
      /\ UNCHANGED << time, wire, outcome, pairing, expires, terminalSession, sent >>
    BY DEF kill_process
<1>2. pc \in {"ended", "failed"} /\ (pc = "ended" <=> tui.pc = "logout")
    OBVIOUS
<1> HIDE DEF pc
<1>3. /\ tui'.pc = pc /\ tui'.request = tui.request /\ (tui'.warned <=> tui.pc = "logout")
      /\ tui' \in [pc : ClientPhases, deadline : Nat, until : Nat, wake : Nat, request : Nat,
                      warned : BOOLEAN, credential : BOOLEAN]
    BY <1>1, <1>2 DEF ClientInv, ClientTypeOK, ClientPhases
<1>4. outcome = None
    BY <1>1 DEF ClientInv, OutcomeIsOfAPhase
<1>5. ClientTypeOK'
    BY <1>1, <1>3 DEF ClientInv, ClientTypeOK
<1>6. WireIsNumbered' /\ OutcomeIsOfAPhase'
    BY <1>1, <1>3, <1>4 DEF ClientInv, WireIsNumbered, OutcomeIsOfAPhase
<1>7. LogoutIsKnown' /\ SilentExitIsLoggedOut' /\ SessionIsConsumed'
    BY <1>1, <1>2, <1>3 DEF ClientInv, LogoutIsKnown, SilentExitIsLoggedOut, SessionIsConsumed
<1>8. BeginIsFirst'
    BY <1>1, <1>2, <1>3 DEF ClientInv, BeginIsFirst
<1> QED
    BY <1>5, <1>6, <1>7, <1>8 DEF ClientInv

\* An outcome is read when its process has ended; None is no outcome.
LEMMA OutcomeIsThere ==
    ASSUME ClientInv, NEW o \in Outcomes, Takes(o)
    PROVE  process = "none" /\ outcome' = None /\ outcome = o
    BY ClientAssumption DEF ClientInv, OutcomeIsOfAPhase, Takes, ClientAssumption

LEMMA BeginKeepsClientInv ==
    ASSUME ClientInv, begin
    PROVE  ClientInv'
<1>1. PICK o \in Outcomes : Takes(o)
    BY DEF begin, Outcomes
<1>2. process = "none" /\ outcome' = None
    BY <1>1, OutcomeIsThere
<1>3. /\ tui.pc = "begin"
      /\ UNCHANGED << time, process, wire, pairing, expires, terminalSession, sent >>
    BY DEF begin
<1>4. CASE tui' = [tui EXCEPT !.pc = "poll", !.deadline = expires]
  <2>1. /\ tui' \in [pc : ClientPhases, deadline : Nat, until : Nat, wake : Nat, request : Nat,
                        warned : BOOLEAN, credential : BOOLEAN]
        /\ tui'.pc = "poll" /\ tui'.request = tui.request
    BY <1>4 DEF ClientInv, ClientTypeOK, ClientPhases
  <2> QED
    BY <1>2, <1>3, <2>1, ClientMoves
<1>5. CASE Gives("failed")
  <2>1. /\ tui' \in [pc : ClientPhases, deadline : Nat, until : Nat, wake : Nat, request : Nat,
                        warned : BOOLEAN, credential : BOOLEAN]
        /\ tui'.pc = "failed" /\ tui'.request = tui.request
    BY <1>5, ClientGoes DEF ClientInv, ClientPhases
  <2> QED
    BY <1>2, <1>3, <2>1, ClientMoves
<1> QED
    BY <1>4, <1>5 DEF begin

LEMMA PollKeepsClientInv ==
    ASSUME ClientInv, poll
    PROVE  ClientInv'
<1>1. PICK o \in Outcomes : Takes(o)
    BY DEF poll, Outcomes
<1>2. process = "none" /\ outcome' = None
    BY <1>1, OutcomeIsThere
<1>3. /\ tui.pc = "poll"
      /\ UNCHANGED << time, process, wire, pairing, expires, terminalSession, sent >>
    BY DEF poll
<1>4. CASE Takes("ok") /\ tui' = [tui EXCEPT !.pc = "using", !.credential = TRUE]
  <2>1. /\ tui' \in [pc : ClientPhases, deadline : Nat, until : Nat, wake : Nat, request : Nat,
                        warned : BOOLEAN, credential : BOOLEAN]
        /\ tui'.pc = "using" /\ tui'.request = tui.request
    BY <1>4 DEF ClientInv, ClientTypeOK, ClientPhases
  <2>2. terminalSession # "none"
    BY <1>3, <1>4 DEF Takes, ClientInv, SessionIsConsumed
  <2> QED
    BY <1>2, <1>3, <2>1, <2>2, ClientMoves
<1>5. CASE Gives("failed")
  <2>1. /\ tui' \in [pc : ClientPhases, deadline : Nat, until : Nat, wake : Nat, request : Nat,
                        warned : BOOLEAN, credential : BOOLEAN]
        /\ tui'.pc = "failed" /\ tui'.request = tui.request
    BY <1>5, ClientGoes DEF ClientInv, ClientPhases
  <2> QED
    BY <1>2, <1>3, <2>1, ClientMoves
<1>6. CASE Sleeps(1)
  <2>1. /\ tui' \in [pc : ClientPhases, deadline : Nat, until : Nat, wake : Nat, request : Nat,
                        warned : BOOLEAN, credential : BOOLEAN]
        /\ tui'.pc = "poll" /\ tui'.request = tui.request
    BY <1>3, <1>6, ClientSleeps DEF ClientInv
  <2> QED
    BY <1>2, <1>3, <2>1, ClientMoves
<1> QED
    BY <1>4, <1>5, <1>6 DEF poll

LEMMA ExpiredKeepsClientInv ==
    ASSUME ClientInv, expired
    PROVE  ClientInv'
<1> DEFINE pc == IF tui.pc = "logout" THEN "ended" ELSE "failed"
<1>1. /\ tui.pc \in {"poll", "logout"} /\ process = "none" /\ outcome' = None
      /\ tui' = [tui EXCEPT !.pc = pc, !.warned = (tui.pc = "logout")]
      /\ UNCHANGED << time, process, wire, pairing, expires, terminalSession, sent >>
    BY DEF expired
<1>2. pc \in {"ended", "failed"} /\ (pc = "ended" <=> tui.pc = "logout")
    OBVIOUS
<1> HIDE DEF pc
<1>3. /\ tui'.pc = pc /\ tui'.request = tui.request /\ (tui'.warned <=> tui.pc = "logout")
      /\ tui' \in [pc : ClientPhases, deadline : Nat, until : Nat, wake : Nat, request : Nat,
                      warned : BOOLEAN, credential : BOOLEAN]
    BY <1>1, <1>2 DEF ClientInv, ClientTypeOK, ClientPhases
<1> QED
    BY <1>1, <1>2, <1>3, ClientMoves

LEMMA RevokeKeepsClientInv ==
    ASSUME ClientInv, revoke_tui_bearer
    PROVE  ClientInv'
<1>1. /\ tui.pc = "using"
      /\ tui' = [tui EXCEPT !.pc = "logout", !.deadline = time + RequestTime, !.wake = time]
      /\ UNCHANGED << time, process, wire, outcome, pairing, expires, terminalSession, sent >>
    BY DEF revoke_tui_bearer
<1>2. process = "none" /\ outcome = None
    BY <1>1 DEF ClientInv, OutcomeIsOfAPhase
<1>3. /\ tui'.pc = "logout" /\ tui'.request = tui.request
      /\ tui' \in [pc : ClientPhases, deadline : Nat, until : Nat, wake : Nat, request : Nat,
                      warned : BOOLEAN, credential : BOOLEAN]
  <2>1. PICK deadline \in Nat : deadline = time + RequestTime
    BY ClientAssumption DEF ClientInv, ClientTypeOK, ClientAssumption
  <2>2. tui' = [tui EXCEPT !.pc = "logout", !.deadline = deadline, !.wake = time]
    BY <1>1, <2>1
  <2> QED
    BY <2>2 DEF ClientInv, ClientTypeOK, ClientPhases
<1>4. terminalSession # "none"
    BY <1>1 DEF ClientInv, SessionIsConsumed
<1> QED
    BY <1>1, <1>2, <1>3, <1>4, ClientMoves

LEMMA LogoutKeepsClientInv ==
    ASSUME ClientInv, logout_terminal
    PROVE  ClientInv'
<1>1. PICK o \in Outcomes : Takes(o)
    BY DEF logout_terminal, Outcomes
<1>2. process = "none" /\ outcome' = None
    BY <1>1, OutcomeIsThere
<1>3. /\ tui.pc = "logout" /\ terminalSession # "none"
      /\ UNCHANGED << time, process, wire, pairing, expires, terminalSession, sent >>
    BY DEF logout_terminal, ClientInv, SessionIsConsumed
<1>4. CASE Takes("ok") /\ Gives("ended")
  <2>1. /\ tui' \in [pc : ClientPhases, deadline : Nat, until : Nat, wake : Nat, request : Nat,
                        warned : BOOLEAN, credential : BOOLEAN]
        /\ tui'.pc = "ended" /\ tui'.request = tui.request
    BY <1>4, ClientGoes DEF ClientInv, ClientPhases
  <2>2. terminalSession = "revoked"
    BY <1>3, <1>4 DEF Takes, ClientInv, LogoutIsKnown
  <2> QED
    BY <1>2, <1>3, <2>1, <2>2, ClientMoves
<1>5. CASE Sleeps(1)
  <2>1. /\ tui' \in [pc : ClientPhases, deadline : Nat, until : Nat, wake : Nat, request : Nat,
                        warned : BOOLEAN, credential : BOOLEAN]
        /\ tui'.pc = "logout" /\ tui'.request = tui.request
    BY <1>3, <1>5, ClientSleeps DEF ClientInv
  <2> QED
    BY <1>2, <1>3, <2>1, ClientMoves
<1>6. CASE tui' = [tui EXCEPT !.pc = "ended", !.warned = TRUE]
  <2>1. /\ tui' \in [pc : ClientPhases, deadline : Nat, until : Nat, wake : Nat, request : Nat,
                        warned : BOOLEAN, credential : BOOLEAN]
        /\ tui'.pc = "ended" /\ tui'.request = tui.request /\ tui'.warned
    BY <1>6, ClientWarns DEF ClientInv
  <2> QED
    BY <1>2, <1>3, <2>1, ClientMoves
<1> QED
    BY <1>4, <1>5, <1>6 DEF logout_terminal

LEMMA ServerKeepsClientInv ==
    ASSUME ClientInv, NEW r \in wire,
           serve(r) \/ \E o \in {"rate", "unavailable", "error"} : refuse(r, o)
    PROVE  ClientInv'
<1>1. r.kind \in {"begin", "consume", "logout"}
    BY DEF ClientInv, ClientTypeOK, WireRequests
<1>2. CASE serve(r) /\ r.kind = "logout"
  <2>1. /\ Answer(r, "ok") /\ terminalSession' = "revoked" /\ wire' = wire \ {r}
        /\ UNCHANGED << time, tui, sent, expires, pairing >>
    BY <1>2 DEF serve
  <2>2. "ok" \in Outcomes
    BY DEF Outcomes
  <2> QED
    BY <1>2, <2>1, <2>2, LogoutServed
<1>3. ASSUME NEW o \in {"rate", "unavailable", "error"}, refuse(r, o) PROVE ClientInv'
  <2>1. /\ Answer(r, o) /\ wire' = wire \ {r}
        /\ UNCHANGED << time, tui, sent, expires, pairing >>
        /\ terminalSession' = terminalSession \/ (terminalSession' = "revoked" /\ r.kind = "logout")
    BY <1>3 DEF refuse
  <2>2. o \in Outcomes /\ o # "ok"
    BY DEF Outcomes
  <2> QED
    BY <2>1, <2>2, LogoutServed
<1> QED
    BY <1>1, <1>2, <1>3, BeginServed, ConsumeServed

LEMMA OthersKeepClientInv ==
    ASSUME ClientInv, authorize \/ tick \/ UNCHANGED clientVars
    PROVE  ClientInv'
<1>1. /\ UNCHANGED << tui, process, wire, outcome, expires, terminalSession, sent >>
      /\ time' \in Nat
      /\ pairing' \in {"none", "pending", "authorized", "consumed"}
      /\ pairing = "consumed" => pairing' = "consumed"
    BY DEF authorize, tick, clientVars, clientState, ClientInv, ClientTypeOK
<1>2. ClientTypeOK'
    BY <1>1 DEF ClientInv, ClientTypeOK
<1>3. WireIsNumbered' /\ OutcomeIsOfAPhase' /\ BeginIsFirst'
    BY <1>1 DEF ClientInv, WireIsNumbered, OutcomeIsOfAPhase, BeginIsFirst
<1>4. SessionIsConsumed' /\ LogoutIsKnown' /\ SilentExitIsLoggedOut'
    BY <1>1 DEF ClientInv, SessionIsConsumed, LogoutIsKnown, SilentExitIsLoggedOut
<1> QED
    BY <1>2, <1>3, <1>4 DEF ClientInv

\* A terminal that held a credential and ends without a warning has no live session left
\* on the server, whatever was retried, refused or served late (SilentExitIsLoggedOut).
THEOREM SilentExitIsLoggedOutAlways == ClientSpec => []SilentExitIsLoggedOut
<1>1. ClientInit => ClientInv
  <2> SUFFICES ASSUME ClientInit PROVE ClientInv
    OBVIOUS
  <2>1. ClientTypeOK
    BY DEF ClientInit, ClientTypeOK, ClientPhases
  <2>2. /\ WireIsNumbered /\ OutcomeIsOfAPhase /\ BeginIsFirst
        /\ SessionIsConsumed /\ LogoutIsKnown /\ SilentExitIsLoggedOut
    BY DEF ClientInit, WireIsNumbered, OutcomeIsOfAPhase, BeginIsFirst, SessionIsConsumed,
       LogoutIsKnown, SilentExitIsLoggedOut
  <2> QED
    BY <2>1, <2>2 DEF ClientInv
<1>2. ClientInv /\ [ClientNext]_clientVars => ClientInv'
    BY LaunchKeepsClientInv, CommunicateKeepsClientInv, KillKeepsClientInv, BeginKeepsClientInv, PollKeepsClientInv,
       ExpiredKeepsClientInv, RevokeKeepsClientInv, LogoutKeepsClientInv, ServerKeepsClientInv, OthersKeepClientInv DEF ClientNext
<1>3. ClientInv => SilentExitIsLoggedOut
    BY DEF ClientInv
<1> QED
    BY <1>1, <1>2, <1>3, PTL DEF ClientSpec

-----------------------------------------------------------------------------
(***************************************************************************)
(* The routes of the web session (WebRoutes)                                *)
(***************************************************************************)

WebStages == {"idle", "authenticate", "session", "admin", "approve", "create_class", "logout",
              "cleared", "rotate", "issue", "confirm", "write"}
WebRouteNames == {"session", "admin", "approve", "create_class", "logout", "callback"}
Cookies == WebSessions \cup {None}
AccountType == [role : {"admin", "pending", "teacher", "student"}, active : BOOLEAN, rev : Nat]
SessionType == [user : WebUsers \cup {None}, live : BOOLEAN]
WebRequestType ==
    [pc : WebStages, browser : WebBrowsers \cup {None}, route : WebRouteNames \cup {None},
     cookie : Cookies, csrf : Cookies, user : WebUsers \cup {None}, rev : Nat,
     target : WebUsers \cup {None}, expected : Nat, new : Cookies]

WebDataOK ==
    /\ account \in [WebUsers -> AccountType]
    /\ session \in [WebSessions -> SessionType]
    /\ jar \in [WebBrowsers -> Cookies] /\ token \in [WebBrowsers -> Cookies]
    /\ seen \in [WebBrowsers -> [WebUsers -> Nat]]
    /\ \A s \in WebSessions : session[s].live => session[s].user \in WebUsers

WebTypeOK == WebDataOK /\ request \in [WebRequests -> WebRequestType]

\* Only the end of a login holds a new session, and a mutation that passed its checks
\* carries the token of its cookie.
ServedOK(q) ==
    /\ q.pc \notin {"confirm", "write"} => q.new = None
    /\ q.pc = "authenticate" => q.route \in WebRouteNames \ {"callback"}
    /\ q.pc \in {"approve", "create_class"} => q.route = q.pc /\ q.csrf = q.cookie

WebInv ==
    /\ WebTypeOK
    /\ \A r \in WebRequests : ServedOK(request[r])
    /\ SessionsAreBound

\* A step of one request: it ends no other, a session that it makes live or leaves behind
\* is in its hands or delivered, and what it does is bound, current and fresh.
LEMMA OneRequestMoves ==
    ASSUME WebInv, NEW r \in WebRequests, NEW q \in WebRequestType,
           request' = [request EXCEPT ![r] = q], ServedOK(q),
           WebDataOK',
           delivered \subseteq delivered',
           \A s \in WebSessions : session'[s].live => session[s].live \/ q.new = s,
           \A s \in WebSessions : session'[s].live /\ request[r].new = s =>
                                     q.new = s \/ s \in delivered',
           stale' \subseteq stale
    PROVE  WebInv'
<1>1. /\ request' \in [WebRequests -> WebRequestType] /\ request'[r] = q
      /\ \A x \in WebRequests \ {r} : request'[x] = request[x]
    BY DEF WebInv, WebTypeOK
<1>2. WebTypeOK' /\ \A x \in WebRequests : ServedOK(request'[x])
    BY <1>1 DEF WebInv, WebTypeOK
<1>3. ASSUME NEW s \in WebSessions, session'[s].live
      PROVE  s \in delivered' \/ \E x \in WebRequests : request'[x].new = s
  <2>1. CASE q.new = s
    BY <1>1, <2>1
  <2>2. CASE q.new # s /\ s \notin delivered'
    <3>1. session[s].live /\ s \notin delivered
        BY <1>3, <2>2
    <3>2. PICK x \in WebRequests : request[x].new = s
        BY <3>1 DEF WebInv, SessionsAreBound, UndeliveredLoginIsDead
    <3>3. x # r
        BY <1>3, <2>2, <3>2
    <3> QED
        BY <1>1, <3>2, <3>3
  <2> QED
    BY <2>1, <2>2
<1>4. MutationsAreCurrent'
    BY DEF WebInv, SessionsAreBound, MutationsAreCurrent
<1> QED
    BY <1>2, <1>3, <1>4 DEF WebInv, SessionsAreBound, UndeliveredLoginIsDead

LEMMA NoRequestIsARequest == NoRequest \in WebRequestType /\ ServedOK(NoRequest) /\ NoRequest.new = None
    BY DEF NoRequest, WebRequestType, WebStages, ServedOK, Cookies

LEMMA RequestSteps ==
    ASSUME WebTypeOK, NEW r \in WebRequests, NEW pc \in WebStages, Step(r, pc)
    PROVE  LET q == [request[r] EXCEPT !.pc = pc] IN
           /\ request' = [request EXCEPT ![r] = q]
           /\ q \in WebRequestType /\ q.pc = pc /\ q.new = request[r].new
           /\ q.target = request[r].target /\ q.route = request[r].route /\ q.csrf = request[r].csrf /\ q.cookie = request[r].cookie
    BY DEF WebTypeOK, Step, WebRequestType

\* Nothing but the request changes.
LEMMA QuietWebStep ==
    ASSUME WebInv, NEW r \in WebRequests, NEW q \in WebRequestType,
           request' = [request EXCEPT ![r] = q], ServedOK(q), q.new = request[r].new,
           WebDataOK', delivered' = delivered, stale' = stale, session' = session
    PROVE  WebInv'
    BY OneRequestMoves

\* The request is answered, and it held no new session.
LEMMA QuietWebAnswer ==
    ASSUME WebInv, NEW r \in WebRequests, Answered(r), request[r].pc \notin {"confirm", "write"},
           WebDataOK', delivered' = delivered, session' = session,
           stale' \subseteq stale
    PROVE  WebInv'
<1>1. request[r].new = None
    BY DEF WebInv, ServedOK
<1> QED
    BY <1>1, NoRequestIsARequest, NoCookieIsNoSession, OneRequestMoves DEF Answered, NoCookieIsNoSession

LEMMA WebDataStays ==
    ASSUME WebInv, UNCHANGED << account, session, jar, token, seen >>
    PROVE  WebDataOK'
    BY DEF WebInv, WebTypeOK, WebDataOK

LEMMA SendKeepsInv ==
    ASSUME WebInv, NEW r \in WebRequests, NEW b \in WebBrowsers, send(r, b)
    PROVE  WebInv'
<1>1. PICK route \in WebRouteNames, u \in WebUsers :
        /\ request' = [request EXCEPT ![r] =
              [NoRequest EXCEPT !.pc = IF route = "callback" THEN "rotate" ELSE "authenticate",
                                !.browser = b, !.route = route, !.cookie = jar[b],
                                !.csrf = IF route \in Unsafe THEN token[b] ELSE None,
                                !.target = u,
                                !.expected = IF route = "approve" THEN seen[b][u] ELSE 0]]
        /\ token' = IF route \in Unsafe THEN [token EXCEPT ![b] = None] ELSE token
    BY DEF send, WebRouteNames
<1> DEFINE q == [NoRequest EXCEPT !.pc = IF route = "callback" THEN "rotate" ELSE "authenticate",
                                !.browser = b, !.route = route, !.cookie = jar[b],
                                !.csrf = IF route \in Unsafe THEN token[b] ELSE None,
                                !.target = u,
                                !.expected = IF route = "approve" THEN seen[b][u] ELSE 0]
<1>2. /\ request[r].pc = "idle" /\ UNCHANGED << account, session, jar, seen, delivered, stale >>
    BY DEF send
<1>3. /\ jar[b] \in Cookies /\ token[b] \in Cookies /\ seen[b][u] \in Nat
    BY DEF WebInv, WebTypeOK, WebDataOK
<1>4. /\ q \in WebRequestType /\ q.new = None /\ q.target \in WebUsers /\ q.pc \in {"rotate", "authenticate"}
      /\ q.pc = "authenticate" => q.route \in WebRouteNames \ {"callback"}
    BY <1>3, ZenonT(60) DEF NoRequest, WebRequestType, WebStages, Cookies, WebRouteNames
<1>5. ServedOK(q)
    BY <1>4 DEF ServedOK
<1>6. WebDataOK'
    BY <1>1, <1>2 DEF WebInv, WebTypeOK, WebDataOK, Cookies
<1>7. request[r].new = None
    BY <1>2 DEF WebInv, ServedOK
<1>8. request' = [request EXCEPT ![r] = q]
    BY <1>1
<1> HIDE DEF q
<1> QED
    BY <1>2, <1>4, <1>5, <1>6, <1>7, <1>8, QuietWebStep

LEMMA AuthenticateKeepsInv ==
    ASSUME WebInv, NEW r \in WebRequests, authenticate(r)
    PROVE  WebInv'
<1>1. /\ UNCHANGED << account, session, jar, token, seen, delivered, stale >>
      /\ request[r].pc = "authenticate" /\ request[r] \in WebRequestType
    BY DEF authenticate, WebInv, WebTypeOK
<1>2. WebDataOK'
    BY <1>1, WebDataStays
<1>3. request[r].new = None
    BY <1>1 DEF WebInv, ServedOK
<1> DEFINE c == request[r].cookie
           u == session[c].user
           q == [request[r] EXCEPT !.pc = request[r].route, !.user = u, !.rev = account[u].rev]
<1>4. CASE /\ Valid(c)
           /\ request[r].route \in Unsafe => CsrfAccepted(r)
           /\ request' = [request EXCEPT ![r].pc = request[r].route, ![r].user = u,
                                         ![r].rev = account[u].rev]
  <2>1. c \in WebSessions /\ u \in WebUsers /\ account[u].rev \in Nat
    BY <1>1, <1>4 DEF Valid, WebInv, WebTypeOK, WebDataOK, Cookies, WebRequestType, SessionType,
       AccountType
  <2>2. request' = [request EXCEPT ![r] = q]
    BY <1>1, <1>4 DEF WebInv, WebTypeOK
  <2>3. CASE request[r].route \in WebRouteNames \ {"callback"}
    <3>1. q \in WebRequestType /\ q.pc = request[r].route /\ q.new = None /\ q.route = q.pc
          /\ q.csrf = request[r].csrf /\ q.cookie = c
        BY <1>1, <1>3, <2>1, <2>3 DEF WebRequestType, WebStages, WebRouteNames
    <3>4. q.pc \notin {"authenticate", "rotate", "issue"}
        BY <2>3, <3>1 DEF WebRouteNames
    <3>2. ServedOK(q)
        BY <1>4, <2>3, <3>1, <3>4 DEF ServedOK, CsrfAccepted, Unsafe, WebRouteNames
    <3> HIDE DEF q
    <3> QED
        BY <1>1, <1>2, <1>3, <2>2, <3>1, <3>2, QuietWebStep
  <2>4. request[r].route \in WebRouteNames \ {"callback"}
    BY <1>1 DEF WebInv, ServedOK
  <2> QED
    BY <2>3, <2>4
<1>5. CASE Step(r, "cleared")
  <2> DEFINE p == [request[r] EXCEPT !.pc = "cleared"]
  <2>1. /\ request' = [request EXCEPT ![r] = p]
        /\ p \in WebRequestType /\ p.pc = "cleared" /\ p.new = request[r].new
    BY <1>5, RequestSteps DEF WebInv, WebStages
  <2>2. ServedOK(p)
    BY <1>3, <2>1 DEF ServedOK
  <2> QED
    BY <1>1, <1>2, <2>1, <2>2, QuietWebStep
<1>6. CASE Answered(r)
    BY <1>1, <1>2, <1>6, QuietWebAnswer
<1> QED
    BY <1>4, <1>5, <1>6 DEF authenticate

LEMMA ReadsKeepInv ==
    ASSUME WebInv, NEW r \in WebRequests,
           reject(r) \/ show_session(r) \/ show_admin(r) \/ cleared(r)
    PROVE  WebInv'
<1>1. /\ Answered(r) /\ request[r].pc \notin {"confirm", "write"}
      /\ UNCHANGED << account, session, delivered, stale >>
    BY DEF reject, show_session, show_admin, cleared
<1>2. request[r] \in WebRequestType
    BY DEF WebInv, WebTypeOK
<1>3. jar' \in [WebBrowsers -> Cookies]
  <2>1. jar' = jar \/ jar' = [jar EXCEPT ![request[r].browser] = None]
    BY DEF reject, show_session, show_admin, cleared
  <2> QED
    BY <2>1 DEF WebInv, WebTypeOK, WebDataOK, Cookies
<1>4. token' \in [WebBrowsers -> Cookies]
  <2>1. token' = token \/ token' = [token EXCEPT ![request[r].browser] = request[r].cookie]
    BY DEF reject, show_session, show_admin, cleared
  <2> QED
    BY <1>2, <2>1 DEF WebInv, WebTypeOK, WebDataOK, WebRequestType
<1>5. seen' \in [WebBrowsers -> [WebUsers -> Nat]]
  <2> DEFINE pending == [u \in WebUsers |-> IF account[u].role = "pending" THEN account[u].rev ELSE 0]
  <2>1. seen' = seen \/ seen' = [seen EXCEPT ![request[r].browser] = pending]
    BY DEF reject, show_session, show_admin, cleared
  <2>2. pending \in [WebUsers -> Nat]
    BY DEF WebInv, WebTypeOK, WebDataOK, AccountType
  <2> QED
    BY <2>1, <2>2 DEF WebInv, WebTypeOK, WebDataOK
<1>6. WebDataOK'
    BY <1>1, <1>3, <1>4, <1>5 DEF WebInv, WebTypeOK, WebDataOK
<1> QED
    BY <1>1, <1>6, QuietWebAnswer

\* An account that is revised ends its live sessions; no session comes to life.
LEMMA RevisedIsTyped ==
    ASSUME WebInv, NEW u \in WebUsers, NEW role \in {"admin", "pending", "teacher", "student"},
           NEW active \in BOOLEAN, Revised(u, role, active)
    PROVE  /\ account' \in [WebUsers -> AccountType] /\ session' \in [WebSessions -> SessionType]
           /\ \A s \in WebSessions : session'[s].live => session[s].live /\ session'[s].user = session[s].user
<1>1. account' \in [WebUsers -> AccountType]
  <2>1. account[u].rev + 1 \in Nat
    BY DEF WebInv, WebTypeOK, WebDataOK, AccountType
  <2> DEFINE new == [role |-> role, active |-> active, rev |-> account[u].rev + 1]
  <2>2. new \in AccountType
    BY <2>1 DEF AccountType
  <2>3. account' = [account EXCEPT ![u] = new]
    BY DEF Revised
  <2> HIDE DEF new
  <2> QED
    BY <2>2, <2>3 DEF WebInv, WebTypeOK, WebDataOK
<1>2. ASSUME NEW s \in WebSessions
      PROVE  /\ session'[s] \in SessionType
             /\ session'[s].live => session[s].live /\ session'[s].user = session[s].user
  <2>1. session[s] \in SessionType
    BY DEF WebInv, WebTypeOK, WebDataOK
  <2>2. session'[s] = session[s] \/ session'[s] = [session[s] EXCEPT !.live = FALSE]
    BY DEF Revised
  <2> QED
    BY <2>1, <2>2 DEF SessionType
<1>3. session' = [s \in WebSessions |-> session'[s]]
    BY DEF Revised
<1> QED
    BY <1>1, <1>2, <1>3

LEMMA MutateKeepsInv ==
    ASSUME WebInv, NEW r \in WebRequests, mutate(r)
    PROVE  WebInv'
<1> DEFINE q == request[r]
<1>1. /\ q.pc \in {"approve", "create_class"} /\ q \in WebRequestType
      /\ q.route = q.pc /\ q.csrf = q.cookie /\ q.new = None
      /\ Answered(r) /\ UNCHANGED << jar, token, seen, delivered >>
    BY DEF mutate, WebInv, WebTypeOK, ServedOK
<1>2. stale' \subseteq stale
  <2>1. CurrentAdmin(r) /\ (q.pc = "approve" => Current(r)) => Sound(Mutation(r))
    BY <1>1 DEF Mutation, Sound, CurrentAdmin, Current
  <2> QED
    BY <2>1 DEF mutate
<1>3. CASE UNCHANGED << account, session >>
  <2>1. WebDataOK'
    BY <1>1, <1>3, WebDataStays
  <2> QED
    BY <1>1, <1>2, <1>3, <2>1, QuietWebAnswer
<1>4. CASE q.pc = "approve" /\ CurrentAdmin(r) /\ Current(r)
           /\ \E role \in {"teacher", "student"} : Revised(q.target, role, account[q.target].active)
  <2>1. PICK role \in {"teacher", "student"} : Revised(q.target, role, account[q.target].active)
    BY <1>4
  <2>2. CASE q.target \in WebUsers
    <3>1. account[q.target].active \in BOOLEAN
        BY <2>2 DEF WebInv, WebTypeOK, WebDataOK, AccountType
    <3>2. /\ account' \in [WebUsers -> AccountType] /\ session' \in [WebSessions -> SessionType]
          /\ \A s \in WebSessions : session'[s].live => session[s].live /\ session'[s].user = session[s].user
        BY <2>1, <2>2, <3>1, RevisedIsTyped
    <3>3. WebDataOK'
        BY <1>1, <3>2 DEF WebInv, WebTypeOK, WebDataOK
    <3>4. request' = [request EXCEPT ![r] = NoRequest]
        BY <1>1 DEF Answered
    <3> HIDE DEF q
    <3> QED
        BY <1>1, <1>2, <3>2, <3>3, <3>4, NoRequestIsARequest, NoCookieIsNoSession, OneRequestMoves
        DEF q, NoCookieIsNoSession
  <2>3. CASE q.target \notin WebUsers
    <3>1. account' = account
        BY <2>1, <2>3 DEF Revised, WebInv, WebTypeOK, WebDataOK
    <3>2. /\ session' \in [WebSessions -> SessionType]
          /\ \A s \in WebSessions : session'[s].live => session[s].live /\ session'[s].user = session[s].user
        BY <2>1 DEF Revised, WebInv, WebTypeOK, WebDataOK, SessionType
    <3>3. WebDataOK'
        BY <1>1, <3>1, <3>2 DEF WebInv, WebTypeOK, WebDataOK
    <3>4. request' = [request EXCEPT ![r] = NoRequest]
        BY <1>1 DEF Answered
    <3> QED
        BY <1>1, <1>2, <3>2, <3>3, <3>4, NoRequestIsARequest, NoCookieIsNoSession, OneRequestMoves
        DEF NoCookieIsNoSession
  <2> QED
    BY <2>2, <2>3
<1> QED
    BY <1>3, <1>4 DEF mutate

\* A session that is revoked is dead, or its revocation failed and it counts as delivered.
LEMMA RevokedStays ==
    ASSUME WebInv, NEW s, Revoke(s)
    PROVE  /\ session' \in [WebSessions -> SessionType]
           /\ delivered \subseteq delivered'
           /\ \A t \in WebSessions :
                 /\ session'[t].live => session[t].live
                 /\ session'[t].user = session[t].user
           /\ s \in WebSessions => ~session'[s].live \/ s \in delivered'
<1>1. session' = session \/ session' = [session EXCEPT ![s].live = FALSE]
    BY DEF Revoke
<1>2. session \in [WebSessions -> SessionType]
    BY DEF WebInv, WebTypeOK, WebDataOK
<1>3. ASSUME NEW t \in WebSessions
      PROVE  /\ session'[t] \in SessionType
             /\ session'[t].live => session[t].live
             /\ session'[t].user = session[t].user
  <2>1. session[t] \in SessionType
    BY <1>2
  <2>2. session'[t] = session[t] \/ session'[t] = [session[t] EXCEPT !.live = FALSE]
    BY <1>1, <1>2
  <2> QED
    BY <2>1, <2>2 DEF SessionType
<1>4. session' \in [WebSessions -> SessionType]
    BY <1>1, <1>2, <1>3
<1>5. s \in WebSessions => ~session'[s].live \/ s \in delivered'
    BY <1>2 DEF Revoke, SessionType
<1> QED
    BY <1>3, <1>4, <1>5 DEF Revoke

LEMMA RevokeKeepsData ==
    ASSUME WebInv, NEW s, Revoke(s), UNCHANGED << account, token, seen >>,
           jar' \in [WebBrowsers -> Cookies]
    PROVE  WebDataOK'
    BY RevokedStays DEF WebInv, WebTypeOK, WebDataOK

\* A request that revoked something is answered, or goes on without a new session.
LEMMA RevokedThen ==
    ASSUME WebInv, NEW r \in WebRequests, request[r].new = None,
           NEW pc \in {"cleared", "issue"}, Step(r, pc) \/ Answered(r),
           WebDataOK', delivered \subseteq delivered', stale' = stale,
           \A t \in WebSessions : session'[t].live => session[t].live
    PROVE  WebInv'
<1>1. CASE Step(r, pc)
  <2> DEFINE p == [request[r] EXCEPT !.pc = pc]
  <2>0. pc \in WebStages
    BY DEF WebStages
  <2>1. /\ request' = [request EXCEPT ![r] = p]
        /\ p \in WebRequestType /\ p.pc = pc /\ p.new = request[r].new
        /\ p.target = request[r].target
    BY <1>1, <2>0, RequestSteps DEF WebInv
  <2>2. ServedOK(p)
    BY <2>1 DEF ServedOK
  <2> HIDE DEF p
  <2> QED
    BY <2>1, <2>2, NoCookieIsNoSession, OneRequestMoves DEF NoCookieIsNoSession
<1>2. CASE Answered(r)
    BY <1>2, NoRequestIsARequest, NoCookieIsNoSession, OneRequestMoves DEF Answered, NoCookieIsNoSession
<1> QED
    BY <1>1, <1>2

LEMMA LogoutKeepsWebInv ==
    ASSUME WebInv, NEW r \in WebRequests, logout(r) \/ rotate(r)
    PROVE  WebInv'
<1>1. /\ request[r].new = None /\ UNCHANGED << account, jar, token, seen, stale >>
    BY DEF WebInv, ServedOK, logout, rotate
<1>2. jar' \in [WebBrowsers -> Cookies]
    BY <1>1 DEF WebInv, WebTypeOK, WebDataOK
<1>3. Step(r, "cleared") \/ Step(r, "issue") \/ Answered(r)
    BY DEF logout, rotate, WebInv, ServedOK
<1>4. WebDataOK' /\ delivered \subseteq delivered'
      /\ \A t \in WebSessions : session'[t].live => session[t].live
  <2>1. CASE UNCHANGED << session, delivered >>
    BY <1>1, <2>1, WebDataStays
  <2>2. CASE Revoke(request[r].cookie)
    BY <1>1, <1>2, <2>2, RevokedStays, RevokeKeepsData
  <2> QED
    BY <2>1, <2>2 DEF logout, rotate
<1> QED
    BY <1>1, <1>3, <1>4, RevokedThen

LEMMA IssueKeepsInv ==
    ASSUME WebInv, NEW r \in WebRequests, NEW u \in WebUsers, issue(r, u)
    PROVE  WebInv'
<1>1. /\ request[r].pc = "issue" /\ request[r] \in WebRequestType
      /\ UNCHANGED << account, jar, token, seen, delivered, stale >>
    BY DEF issue, WebInv, WebTypeOK
<1>2. request[r].new = None
    BY <1>1 DEF WebInv, ServedOK
<1>3. CASE Answered(r) /\ UNCHANGED session
    BY <1>1, <1>3, WebDataStays, QuietWebAnswer
<1>4. ASSUME NEW s \in NewSession, account[u].active,
             session' = [session EXCEPT ![s] = [user |-> u, live |-> TRUE]],
             request' = [request EXCEPT ![r].pc = "confirm", ![r].new = s]
      PROVE  WebInv'
  <2>1. s \in WebSessions
    BY <1>4 DEF NewSession
  <2> DEFINE p == [request[r] EXCEPT !.pc = "confirm", !.new = s]
  <2>2. request' = [request EXCEPT ![r] = p]
    BY <1>4 DEF WebInv, WebTypeOK
  <2>3. p \in WebRequestType /\ p.pc = "confirm" /\ p.new = s
    BY <1>1, <2>1 DEF WebRequestType, WebStages, Cookies
  <2>4. ServedOK(p)
    BY <2>3 DEF ServedOK
  <2>5. /\ session' \in [WebSessions -> SessionType]
        /\ \A t \in WebSessions : t # s => session'[t] = session[t]
        /\ session'[s].user = u
    BY <1>1, <1>4, <2>1 DEF WebInv, WebTypeOK, WebDataOK, SessionType, WebRequestType
  <2>6. WebDataOK'
    BY <1>1, <2>5 DEF WebInv, WebTypeOK, WebDataOK
  <2> HIDE DEF p
  <2> QED
    BY <1>1, <1>2, <2>2, <2>3, <2>4, <2>5, <2>6, NoCookieIsNoSession, OneRequestMoves
    DEF NoCookieIsNoSession
<1> QED
    BY <1>3, <1>4 DEF issue

\* The new session is revoked, and the request answered.
LEMMA DiscardKeepsInv ==
    ASSUME WebInv, NEW r \in WebRequests, discard(r),
           UNCHANGED << account, jar, token, seen, stale >>
    PROVE  WebInv'
<1> DEFINE s == request[r].new
<1>1. Revoke(s) /\ request' = [request EXCEPT ![r] = NoRequest]
    BY DEF discard, Answered
<1>2. jar' \in [WebBrowsers -> Cookies]
    BY DEF WebInv, WebTypeOK, WebDataOK
<1>3. WebDataOK'
    BY <1>1, <1>2, RevokeKeepsData
<1>4. /\ delivered \subseteq delivered'
      /\ \A t \in WebSessions : session'[t].live => session[t].live
      /\ s \in WebSessions => ~session'[s].live \/ s \in delivered'
    BY <1>1, RevokedStays
<1> QED
    BY <1>1, <1>3, <1>4, NoRequestIsARequest, OneRequestMoves

LEMMA ConfirmKeepsInv ==
    ASSUME WebInv, NEW r \in WebRequests, confirm(r)
    PROVE  WebInv'
<1>1. /\ request[r].pc = "confirm" /\ UNCHANGED << account, jar, token, seen, stale >>
    BY DEF confirm
<1>2. CASE Step(r, "write") /\ UNCHANGED << session, delivered >>
  <2> DEFINE p == [request[r] EXCEPT !.pc = "write"]
  <2>1. /\ request' = [request EXCEPT ![r] = p]
        /\ p \in WebRequestType /\ p.pc = "write" /\ p.new = request[r].new
    BY <1>2, RequestSteps DEF WebInv, WebStages
  <2>2. ServedOK(p)
    BY <2>1 DEF ServedOK
  <2>3. WebDataOK'
    BY <1>1, <1>2, WebDataStays
  <2> HIDE DEF p
  <2> QED
    BY <1>1, <1>2, <2>1, <2>2, <2>3, QuietWebStep
<1>3. CASE discard(r)
    BY <1>1, <1>3, DiscardKeepsInv
<1> QED
    BY <1>2, <1>3 DEF confirm

LEMMA WriteKeepsInv ==
    ASSUME WebInv, NEW r \in WebRequests, write_response(r)
    PROVE  WebInv'
<1> DEFINE q == request[r]
<1>1. /\ q.pc = "write" /\ q \in WebRequestType /\ UNCHANGED << account, token, seen, stale >>
    BY DEF write_response, WebInv, WebTypeOK
<1>2. CASE /\ jar' = [jar EXCEPT ![q.browser] = q.new]
           /\ delivered' = delivered \cup {q.new}
           /\ Answered(r) /\ UNCHANGED session
  <2>1. WebDataOK'
    BY <1>1, <1>2 DEF WebInv, WebTypeOK, WebDataOK, WebRequestType
  <2>2. request' = [request EXCEPT ![r] = NoRequest]
    BY <1>2 DEF Answered
  <2>3. q.new \in delivered' /\ delivered \subseteq delivered'
    BY <1>2
  <2> QED
    BY <1>1, <1>2, <2>1, <2>2, <2>3, NoRequestIsARequest, OneRequestMoves
<1>3. CASE discard(r) /\ UNCHANGED jar
    BY <1>1, <1>3, DiscardKeepsInv
<1> QED
    BY <1>2, <1>3 DEF write_response

LEMMA ChangeKeepsInv ==
    ASSUME WebInv, NEW u \in WebUsers, change_account(u)
    PROVE  WebInv'
<1>1. UNCHANGED << jar, token, seen, request, delivered, stale >>
    BY DEF change_account
<1>2. PICK role \in {"admin", "pending", "teacher", "student"}, active \in BOOLEAN :
         Revised(u, role, active)
  <2>1. account[u].role \in {"admin", "pending", "teacher", "student"}
    BY DEF WebInv, WebTypeOK, WebDataOK, AccountType
  <2> QED
    BY <2>1 DEF change_account
<1>3. /\ account' \in [WebUsers -> AccountType] /\ session' \in [WebSessions -> SessionType]
      /\ \A s \in WebSessions : session'[s].live => session[s].live /\ session'[s].user = session[s].user
    BY <1>2, RevisedIsTyped
<1>4. WebTypeOK'
    BY <1>1, <1>3 DEF WebInv, WebTypeOK, WebDataOK
<1>5. SessionsAreBound'
    BY <1>1, <1>3 DEF WebInv, SessionsAreBound, UndeliveredLoginIsDead, MutationsAreCurrent
<1> QED
    BY <1>1, <1>4, <1>5 DEF WebInv

\* A live session is delivered, on its way, or could not be revoked, and what is done with
\* a session is bound to its token, done by the administrator it still is, about the
\* account as the page showed it (SessionsAreBound).
THEOREM SessionsAreBoundAlways == WebSpec => []SessionsAreBound
<1>1. WebInit => WebInv
  <2> SUFFICES ASSUME WebInit PROVE WebInv
    OBVIOUS
  <2>1. WebTypeOK
    BY NoRequestIsARequest DEF WebInit, WebTypeOK, WebDataOK, AccountType, SessionType, Cookies, NothingSeen
  <2>2. \A r \in WebRequests : ServedOK(request[r])
    BY NoRequestIsARequest DEF WebInit
  <2>3. SessionsAreBound
    BY DEF WebInit, SessionsAreBound, UndeliveredLoginIsDead, MutationsAreCurrent
  <2> QED
    BY <2>1, <2>2, <2>3 DEF WebInv
<1>2. WebInv /\ [WebNext]_webVars => WebInv'
  <2> SUFFICES ASSUME WebInv, [WebNext]_webVars PROVE WebInv'
    OBVIOUS
  <2>1. CASE UNCHANGED webVars
    BY <2>1 DEF webVars, webState, WebInv, WebTypeOK, WebDataOK, SessionsAreBound,
       UndeliveredLoginIsDead, MutationsAreCurrent
  <2> QED
    BY <2>1, SendKeepsInv, AuthenticateKeepsInv, ReadsKeepInv, MutateKeepsInv, LogoutKeepsWebInv,
       IssueKeepsInv, ConfirmKeepsInv, WriteKeepsInv, ChangeKeepsInv DEF WebNext
<1>3. WebInv => SessionsAreBound
    BY DEF WebInv
<1> QED
    BY <1>1, <1>2, <1>3, PTL DEF WebSpec

-----------------------------------------------------------------------------
(***************************************************************************)
(* The providers of students' help (HelpProvider)                           *)
(***************************************************************************)

LEMMA LeastNatural ==
    ASSUME NEW T \in SUBSET Nat, T # {}
    PROVE  \E x \in T : \A y \in T : x <= y
<1> DEFINE R == {ss \in Nat \X Nat : ss[1] < ss[2]}
<1>1. IsWellFoundedOn(R, Nat)
    BY NatLessThanWellFounded DEF OpToRel
<1> HIDE DEF R
<1>2. PICK x \in T : \A y \in T : ~(<<y, x>> \in R)
    BY <1>1, WFMin
<1>3. ASSUME NEW y \in T, y < x PROVE FALSE
    BY <1>2, <1>3 DEF R
<1> QED
    BY <1>3

LEMMA LargestIndex ==
    ASSUME NEW n \in Nat, NEW S \in SUBSET (1..n), S # {}
    PROVE  \E i \in S : \A j \in S : j <= i
<1> DEFINE D == {n - i : i \in S}
<1>1. D \in SUBSET Nat
    OBVIOUS
<1>2. D # {}
    OBVIOUS
<1>3. PICK d \in D : \A e \in D : d <= e
  <2> HIDE DEF D
  <2> QED
    BY <1>1, <1>2, LeastNatural
<1>4. PICK i \in S : d = n - i
    OBVIOUS
<1>5. ASSUME NEW j \in S PROVE j <= i
  <2>1. n - j \in D
    OBVIOUS
  <2>2. n - i <= n - j
    BY <1>3, <1>4, <2>1
  <2> QED
    BY <2>2
<1> QED
    BY <1>5

\* A step of ProviderNext.
ProviderStep(t) ==
    \/ respond(t) \/ codex_help_package(t) \/ run_codex_process(t)
    \/ communicate_ends(t) \/ time_out(t) \/ collect(t)
    \/ read_response(t) \/ leave_call(t) \/ parse_response(t) \/ fallback(t)
    \/ (\E event \in Events : codex_prints(t, event)) \/ codex_ends_line(t)
    \/ codex_forks(t) \/ codex_exits(t) \/ child_exits(t) \/ hangs(t) \/ returns(t)

AskerStages == InCall \cup {"idle", "parse", "answer", "fallback"}
ProcessStates == {"none", "alive", "stuck"}

AskerType == [pc : AskerStages, usage : Nat, out : Seq(Events), late : BOOLEAN]
TreeType == [main : ProcessStates, child : ProcessStates, pipe : BOOLEAN,
             out : Seq(Events), torn : BOOLEAN, code : Nat]

ProviderTypeOK ==
    /\ platform \in {"posix", "nt"}
    /\ codexSlot \in HelpThreads \cup {None}
    /\ asker \in [HelpThreads -> AskerType]
    /\ tree \in [HelpThreads -> TreeType]

\* What a call may rely on.  A command runs only while its thread waits for it; a child
\* outlives a call only on POSIX and when the call did not time out.
CallInv(t) ==
    /\ codexSlot = t <=> asker[t].pc \in InCall
    /\ tree[t].main = "alive" => asker[t].pc = "communicate"
    /\ tree[t].child = "alive" /\ platform = "nt" => asker[t].pc = "communicate"
    /\ asker[t].late => tree[t].child # "alive"
    /\ asker[t].pc \in {"package", "launch", "communicate", "exited"} => ~asker[t].late

LEMMA WholeIsSeq ==
    ASSUME NEW out \in Seq(Events), NEW torn \in BOOLEAN
    PROVE  /\ Whole(out, torn) \in Seq(Events)
           /\ Len(Whole(out, torn)) <= Len(out)
           /\ \A i \in 1..Len(Whole(out, torn)) : Whole(out, torn)[i] = out[i]
<1>1. CASE torn /\ out # << >>
  <2>1. Len(out) \in Nat /\ Len(out) - 1 \in Nat
    BY <1>1
  <2>2. Whole(out, torn) = SubSeq(out, 1, Len(out) - 1)
    BY <1>1 DEF Whole
  <2> HIDE DEF Events
  <2> QED
    BY <2>1, <2>2
<1>2. CASE ~(torn /\ out # << >>)
    BY <1>2 DEF Whole
<1> QED
    BY <1>1, <1>2

\* The last completed turn exists when there is one, and its usage is a natural number.
LEMMA UsageHasATurn ==
    ASSUME NEW lines \in Seq(Events)
    PROVE  /\ OrZero(codex_usage_from_jsonl(lines)) \in Nat
           /\ OrZero(codex_usage_from_jsonl(lines)) # 0 =>
                 \E i \in 1..Len(lines) :
                    /\ lines[i].type = "turn.completed"
                    /\ lines[i].usage = OrZero(codex_usage_from_jsonl(lines))
<1>1. CASE (\E i \in 1..Len(lines) : lines[i].type = "invalid") \/ TurnsOf(lines) = {}
    BY <1>1 DEF codex_usage_from_jsonl, OrZero
<1>2. CASE ~((\E i \in 1..Len(lines) : lines[i].type = "invalid") \/ TurnsOf(lines) = {})
  <2>1. Len(lines) \in Nat /\ TurnsOf(lines) \in SUBSET (1..Len(lines)) /\ TurnsOf(lines) # {}
    BY <1>2 DEF TurnsOf
  <2>2. LastOf(TurnsOf(lines)) \in TurnsOf(lines)
    BY <2>1, LargestIndex DEF LastOf
  <2>3. PICK i \in 1..Len(lines) : i = LastOf(TurnsOf(lines)) /\ lines[i].type = "turn.completed"
    BY <2>2 DEF TurnsOf
  <2>4. codex_usage_from_jsonl(lines) = lines[i].usage
    BY <1>2, <2>3 DEF codex_usage_from_jsonl
  <2>5. lines[i] \in Events
    OBVIOUS
  <2>6. lines[i].usage \in Nat
    BY <2>5 DEF Events
  <2> QED
    BY <2>3, <2>4, <2>6 DEF OrZero
<1> QED
    BY <1>1, <1>2

\* A torn last line makes the printed text invalid.
LEMMA TornIsInvalid ==
    ASSUME NEW out \in Seq(Events), out # << >>
    PROVE  codex_usage_from_jsonl(Printed(out, TRUE)) = None
<1> DEFINE w == Whole(out, TRUE)
           p == Append(w, [type |-> "invalid", usage |-> 0])
<1>1. w \in Seq(Events)
    BY WholeIsSeq
<1>2. Printed(out, TRUE) = p
    BY DEF Printed
<1> HIDE DEF w
<1>3. Len(p) \in 1..Len(p) /\ p[Len(p)].type = "invalid"
    BY <1>1
<1> QED
    BY <1>2, <1>3 DEF codex_usage_from_jsonl

\* After a timeout: the usage of the whole lines.
LEMMA UsageAfterTimeout ==
    ASSUME NEW out \in Seq(Events), NEW torn \in BOOLEAN
    PROVE  codex_usage_or_zero(out, torn, TRUE) = OrZero(codex_usage_from_jsonl(Whole(out, torn)))
<1>1. CASE torn /\ out # << >>
    BY <1>1, TornIsInvalid DEF codex_usage_or_zero
<1>2. CASE ~(torn /\ out # << >>)
    BY <1>2 DEF codex_usage_or_zero, Whole, Printed
<1> QED
    BY <1>1, <1>2

\* After the end of the process: the same, when its last line is whole.
LEMMA UsageAfterExit ==
    ASSUME NEW out \in Seq(Events), NEW torn \in BOOLEAN
    PROVE  /\ torn /\ out # << >> => codex_usage_or_zero(out, torn, FALSE) = 0
           /\ ~(torn /\ out # << >>) =>
                 codex_usage_or_zero(out, torn, FALSE) = OrZero(codex_usage_from_jsonl(Whole(out, torn)))
<1>1. CASE torn /\ out # << >>
    BY <1>1, TornIsInvalid DEF codex_usage_or_zero, OrZero
<1>2. CASE ~(torn /\ out # << >>)
    BY <1>2 DEF codex_usage_or_zero, Whole, Printed
<1> QED
    BY <1>1, <1>2

\* A usage that is recorded is a natural number, and not 0 only when a turn printed it.
LEMMA UsageIsPrinted ==
    ASSUME NEW out \in Seq(Events), NEW torn \in BOOLEAN, NEW allow \in BOOLEAN
    PROVE  /\ codex_usage_or_zero(out, torn, allow) \in Nat
           /\ codex_usage_or_zero(out, torn, allow) # 0 =>
                 \E i \in 1..Len(out) :
                    /\ out[i].type = "turn.completed"
                    /\ out[i].usage = codex_usage_or_zero(out, torn, allow)
<1> DEFINE w == Whole(out, torn)
           u == OrZero(codex_usage_from_jsonl(w))
<1>1. w \in Seq(Events) /\ Len(w) <= Len(out) /\ \A i \in 1..Len(w) : w[i] = out[i]
    BY WholeIsSeq
<1>2. u \in Nat /\ (u # 0 => \E i \in 1..Len(w) : w[i].type = "turn.completed" /\ w[i].usage = u)
  <2> HIDE DEF w
  <2> QED
    BY <1>1, UsageHasATurn
<1>3. codex_usage_or_zero(out, torn, allow) \in {0, u}
    BY UsageAfterTimeout, UsageAfterExit
<1> HIDE DEF w, u
<1>4. Len(w) \in Nat /\ Len(out) \in Nat
    BY <1>1
<1>5. 1..Len(w) \subseteq 1..Len(out)
    BY <1>1, <1>4
<1>6. u # 0 => \E i \in 1..Len(out) : out[i].type = "turn.completed" /\ out[i].usage = u
    BY <1>1, <1>2, <1>5
<1> QED
    BY <1>2, <1>3, <1>6

\* The next stage of a thread's call, and the new tree of its processes.
LEMMA AskerGoesTo ==
    ASSUME ProviderTypeOK, NEW t \in HelpThreads, NEW pc \in AskerStages, AskerGoes(t, pc)
    PROVE  /\ asker' \in [HelpThreads -> AskerType]
           /\ asker'[t].pc = pc /\ asker'[t].usage = asker[t].usage
           /\ asker'[t].out = asker[t].out /\ asker'[t].late = asker[t].late
           /\ \A u \in HelpThreads \ {t} : asker'[u] = asker[u]
<1> HIDE DEF AskerStages
<1>1. asker \in [HelpThreads -> AskerType]
    BY DEF ProviderTypeOK
<1>2. asker' = [asker EXCEPT ![t].pc = pc]
    BY DEF AskerGoes
<1> QED
    BY <1>1, <1>2 DEF AskerType

LEMMA AskerIs ==
    ASSUME ProviderTypeOK, NEW t \in HelpThreads, NEW new \in AskerType,
           asker' = [asker EXCEPT ![t] = new]
    PROVE  /\ asker' \in [HelpThreads -> AskerType]
           /\ asker'[t] = new
           /\ \A u \in HelpThreads \ {t} : asker'[u] = asker[u]
    BY DEF ProviderTypeOK

LEMMA TreeIs ==
    ASSUME ProviderTypeOK, NEW t \in HelpThreads, NEW new \in TreeType,
           tree' = [tree EXCEPT ![t] = new]
    PROVE  /\ tree' \in [HelpThreads -> TreeType]
           /\ tree'[t] = new
           /\ \A u \in HelpThreads \ {t} : tree'[u] = tree[u]
    BY DEF ProviderTypeOK

LEMMA ProviderTypeStep ==
    ASSUME ProviderTypeOK, NEW t \in HelpThreads, ProviderStep(t)
    PROVE  ProviderTypeOK'
<1>0. /\ asker \in [HelpThreads -> AskerType] /\ tree \in [HelpThreads -> TreeType]
      /\ asker[t] \in AskerType /\ tree[t] \in TreeType
    BY DEF ProviderTypeOK
<1>01. /\ tree[t].out \in Seq(Events) /\ tree[t].torn \in BOOLEAN
       /\ asker[t].out \in Seq(Events) /\ asker[t].usage \in Nat
    BY <1>0 DEF AskerType, TreeType
<1>02. << >> \in Seq(Events)
    OBVIOUS
<1>03. InCall \subseteq AskerStages /\ {"idle", "parse", "answer", "fallback"} \subseteq AskerStages
    BY DEF AskerStages
<1>1. CASE respond(t)
  <2>1. CASE AskerGoes(t, "fallback") /\ UNCHANGED << codexSlot, tree >>
    <3>1. asker' \in [HelpThreads -> AskerType]
        BY <2>1, <1>03, AskerGoesTo
    <3> QED
        BY <1>1, <2>1, <3>1 DEF ProviderTypeOK, respond
  <2>2. CASE /\ codexSlot' = t
             /\ tree' = [tree EXCEPT ![t] = NoTree]
             /\ asker' = [asker EXCEPT ![t] = [NoAsker EXCEPT !.pc = "package"]]
    <3>1. [NoAsker EXCEPT !.pc = "package"] \in AskerType
        BY <1>02 DEF NoAsker, AskerType, AskerStages, InCall
    <3>2. NoTree \in TreeType
        BY <1>02 DEF NoTree, TreeType, ProcessStates
    <3>3. asker' \in [HelpThreads -> AskerType]
        BY <2>2, <3>1, AskerIs
    <3>4. tree' \in [HelpThreads -> TreeType]
        BY <2>2, <3>2, TreeIs
    <3> QED
        BY <1>1, <2>2, <3>3, <3>4 DEF ProviderTypeOK, respond
  <2> QED
    BY <1>1, <2>1, <2>2 DEF respond
<1>2. CASE codex_help_package(t)
  <2>1. asker' \in [HelpThreads -> AskerType]
    <3>1. AskerGoes(t, "launch") \/ AskerGoes(t, "release")
        BY <1>2 DEF codex_help_package
    <3>2. "launch" \in AskerStages /\ "release" \in AskerStages
        BY DEF AskerStages, InCall
    <3> QED
        BY <3>1, <3>2, AskerGoesTo
  <2> QED
    BY <1>2, <2>1 DEF ProviderTypeOK, codex_help_package
<1>3. CASE run_codex_process(t)
  <2>1. asker' \in [HelpThreads -> AskerType]
    <3>1. AskerGoes(t, "communicate") \/ AskerGoes(t, "release")
        BY <1>3 DEF run_codex_process
    <3>2. "communicate" \in AskerStages /\ "release" \in AskerStages
        BY DEF AskerStages, InCall
    <3> QED
        BY <3>1, <3>2, AskerGoesTo
  <2>2. tree' \in [HelpThreads -> TreeType]
    <3>1. tree' = [tree EXCEPT ![t].main = "alive"] \/ tree' = tree
        BY <1>3 DEF run_codex_process
    <3>2. "alive" \in ProcessStates
        BY DEF ProcessStates
    <3> QED
        BY <1>0, <3>1, <3>2 DEF TreeType
  <2> QED
    BY <1>3, <2>1, <2>2 DEF ProviderTypeOK, run_codex_process
<1>4. CASE communicate_ends(t)
  <2>1. asker' \in [HelpThreads -> AskerType]
    BY <1>0, <1>01, <1>02, <1>4, UsageIsPrinted DEF communicate_ends, AskerType, AskerStages, InCall
  <2>2. tree' \in [HelpThreads -> TreeType]
    BY <1>0, <1>01, <1>02, <1>4 DEF communicate_ends, close_windows_job, TreeType, ProcessStates
  <2> QED
    BY <1>4, <2>1, <2>2 DEF ProviderTypeOK, communicate_ends
<1>5. CASE time_out(t)
  <2>1. asker' \in [HelpThreads -> AskerType]
    BY <1>0, <1>01, <1>02, <1>5 DEF time_out, AskerType, AskerStages, InCall
  <2>2. tree' \in [HelpThreads -> TreeType]
    BY <1>0, <1>01, <1>02, <1>5 DEF time_out, terminate_process_tree, TreeType, ProcessStates
  <2> QED
    BY <1>5, <2>1, <2>2 DEF ProviderTypeOK, time_out
<1>6. CASE collect(t)
  <2>1. asker' \in [HelpThreads -> AskerType]
    BY <1>0, <1>01, <1>02, <1>6, UsageIsPrinted DEF collect, AskerType, AskerStages, InCall
  <2>2. tree' \in [HelpThreads -> TreeType]
    BY <1>0, <1>01, <1>02, <1>6 DEF collect, terminate_process_tree, TreeType, ProcessStates
  <2> QED
    BY <1>6, <2>1, <2>2 DEF ProviderTypeOK, collect
<1>7. CASE read_response(t)
  <2>1. asker' \in [HelpThreads -> AskerType]
    <3>1. AskerGoes(t, "release") \/ AskerGoes(t, "answered")
        BY <1>7 DEF read_response
    <3>2. "release" \in AskerStages /\ "answered" \in AskerStages
        BY DEF AskerStages, InCall
    <3> QED
        BY <3>1, <3>2, AskerGoesTo
  <2> QED
    BY <1>7, <2>1 DEF ProviderTypeOK, read_response
<1>8. CASE leave_call(t)
  <2>1. asker' \in [HelpThreads -> AskerType]
    BY <1>0, <1>01, <1>02, <1>8 DEF leave_call, AskerType, AskerStages, InCall
  <2>2. tree' \in [HelpThreads -> TreeType]
    BY <1>0, <1>01, <1>02, <1>8 DEF leave_call, TreeType, ProcessStates
  <2> QED
    BY <1>8, <2>1, <2>2 DEF ProviderTypeOK, leave_call
<1>9. CASE parse_response(t)
  <2>1. asker' \in [HelpThreads -> AskerType]
    <3>1. AskerGoes(t, "answer") \/ AskerGoes(t, "fallback")
        BY <1>9 DEF parse_response
    <3>2. "answer" \in AskerStages /\ "fallback" \in AskerStages
        BY DEF AskerStages, InCall
    <3> QED
        BY <3>1, <3>2, AskerGoesTo
  <2> QED
    BY <1>9, <2>1 DEF ProviderTypeOK, parse_response
<1>10. CASE fallback(t)
  <2>1. asker' \in [HelpThreads -> AskerType]
    BY <1>0, <1>01, <1>02, <1>10 DEF fallback, NoAsker, AskerType, AskerStages, InCall
  <2> QED
    BY <1>10, <2>1 DEF ProviderTypeOK, fallback
<1>11. CASE codex_ends_line(t)
  <2>2. tree' \in [HelpThreads -> TreeType]
    BY <1>0, <1>01, <1>02, <1>11 DEF codex_ends_line, TreeBecomes, TreeType, ProcessStates
  <2> QED
    BY <1>11, <2>2 DEF ProviderTypeOK, codex_ends_line, TreeBecomes
<1>12. CASE codex_forks(t)
  <2>2. tree' \in [HelpThreads -> TreeType]
    <3>1. PICK pipe \in BOOLEAN : tree' = [tree EXCEPT ![t] = [tree[t] EXCEPT !.child = "alive", !.pipe = pipe]]
        BY <1>12 DEF codex_forks, TreeBecomes
    <3>2. [tree[t] EXCEPT !.child = "alive", !.pipe = pipe] \in TreeType
        BY <1>0 DEF TreeType, ProcessStates
    <3> QED
        BY <3>1, <3>2, TreeIs
  <2> QED
    BY <1>12, <2>2 DEF ProviderTypeOK, codex_forks, TreeBecomes
<1>13. CASE codex_exits(t)
  <2>2. tree' \in [HelpThreads -> TreeType]
    <3>1. PICK code \in {0, 1} : tree' = [tree EXCEPT ![t] = [tree[t] EXCEPT !.main = "none", !.code = code]]
        BY <1>13 DEF codex_exits, TreeBecomes
    <3>2. code \in Nat
        OBVIOUS
    <3>3. [tree[t] EXCEPT !.main = "none", !.code = code] \in TreeType
        BY <1>0, <3>2 DEF TreeType, ProcessStates
    <3> QED
        BY <3>1, <3>3, TreeIs
  <2> QED
    BY <1>13, <2>2 DEF ProviderTypeOK, codex_exits, TreeBecomes
<1>14. CASE child_exits(t)
  <2>2. tree' \in [HelpThreads -> TreeType]
    BY <1>0, <1>01, <1>02, <1>14 DEF child_exits, TreeBecomes, TreeType, ProcessStates
  <2> QED
    BY <1>14, <2>2 DEF ProviderTypeOK, child_exits, TreeBecomes
<1>15. CASE hangs(t)
  <2>2. tree' \in [HelpThreads -> TreeType]
    <3>1. \/ tree' = [tree EXCEPT ![t] = [tree[t] EXCEPT !.main = "stuck"]]
          \/ tree' = [tree EXCEPT ![t] = [tree[t] EXCEPT !.child = "stuck"]]
        BY <1>15 DEF hangs, TreeBecomes
    <3>2. /\ [tree[t] EXCEPT !.main = "stuck"] \in TreeType
          /\ [tree[t] EXCEPT !.child = "stuck"] \in TreeType
        BY <1>0 DEF TreeType, ProcessStates
    <3> QED
        BY <3>1, <3>2, TreeIs
  <2> QED
    BY <1>15, <2>2 DEF ProviderTypeOK, hangs, TreeBecomes
<1>16. CASE returns(t)
  <2>2. tree' \in [HelpThreads -> TreeType]
    BY <1>0, <1>01, <1>02, <1>16 DEF returns, TreeBecomes, TreeType, ProcessStates
  <2> QED
    BY <1>16, <2>2 DEF ProviderTypeOK, returns, TreeBecomes
<1>17. ASSUME NEW event \in Events, codex_prints(t, event) PROVE ProviderTypeOK'
  <2>1. Append(tree[t].out, event) \in Seq(Events)
    BY <1>01
  <2>2. tree' \in [HelpThreads -> TreeType]
    BY <1>0, <2>1, <1>17, ZenonT(60) DEF codex_prints, TreeBecomes, TreeType
  <2> QED
    BY <1>17, <2>2 DEF ProviderTypeOK, codex_prints, TreeBecomes
<1> QED
    BY <1>1, <1>2, <1>3, <1>4, <1>5, <1>6, <1>7, <1>8, <1>9, <1>10, <1>11, <1>12, <1>13, <1>14, <1>15, <1>16, <1>17 DEF ProviderStep

LEMMA CallStep ==
    ASSUME ProviderTypeOK, \A u \in HelpThreads : CallInv(u),
           NEW t \in HelpThreads, ProviderStep(t), NEW u \in HelpThreads
    PROVE  CallInv(u)'
<1>0. CallInv(t) /\ CallInv(u)
    OBVIOUS
<1>01. ASSUME NEW pc \in AskerStages, AskerGoes(t, pc)
       PROVE  /\ asker'[t].pc = pc /\ asker'[t].late = asker[t].late
              /\ \A v \in HelpThreads \ {t} : asker'[v] = asker[v]
    BY <1>01, AskerGoesTo
<1>02. InCall \subseteq AskerStages /\ {"idle", "parse", "answer", "fallback"} \subseteq AskerStages
    BY DEF AskerStages
<1> USE NoThreadIsNone DEF CallInv, ProviderTypeOK, AskerType, TreeType, AskerStages, InCall, ProcessStates
<1>1. CASE respond(t)
  <2>1. CASE AskerGoes(t, "fallback") /\ UNCHANGED << codexSlot, tree >>
    BY <1>0, <1>1, <2>1, <1>01, <1>02 DEF respond, AskerAt
  <2>2. CASE /\ codexSlot = None
             /\ codexSlot' = t
             /\ tree' = [tree EXCEPT ![t] = NoTree]
             /\ asker' = [asker EXCEPT ![t] = [NoAsker EXCEPT !.pc = "package"]]
    BY <1>0, <1>1, <2>2 DEF respond, AskerAt, NoAsker, NoTree
  <2> QED
    BY <1>1, <2>1, <2>2 DEF respond
<1>2. CASE codex_help_package(t)
  <2>1. AskerGoes(t, "launch") \/ AskerGoes(t, "release")
    BY <1>2 DEF codex_help_package
  <2> QED
    BY <1>0, <1>2, <2>1, <1>01, <1>02 DEF codex_help_package, AskerAt
<1>3. CASE run_codex_process(t)
  <2>1. CASE AskerGoes(t, "communicate") /\ tree' = [tree EXCEPT ![t].main = "alive"]
    BY <1>0, <1>3, <2>1, <1>01, <1>02 DEF run_codex_process, AskerAt
  <2>2. CASE AskerGoes(t, "release") /\ UNCHANGED tree
    BY <1>0, <1>3, <2>2, <1>01, <1>02 DEF run_codex_process, AskerAt
  <2> QED
    BY <1>3, <2>1, <2>2 DEF run_codex_process
<1>4. CASE communicate_ends(t)
    BY <1>0, <1>4 DEF communicate_ends, AskerAt, close_windows_job, PipesOpen
<1>5. CASE time_out(t)
    BY <1>0, <1>5 DEF time_out, AskerAt, terminate_process_tree, PipesOpen
<1>6. CASE collect(t)
    BY <1>0, <1>6 DEF collect, AskerAt, terminate_process_tree
<1>7. CASE read_response(t)
  <2>1. AskerGoes(t, "release") \/ AskerGoes(t, "answered")
    BY <1>7 DEF read_response
  <2> QED
    BY <1>0, <1>7, <2>1, <1>01, <1>02 DEF read_response, AskerAt
<1>8. CASE leave_call(t)
    BY <1>0, <1>8 DEF leave_call
<1>9. CASE parse_response(t)
  <2>1. AskerGoes(t, "answer") \/ AskerGoes(t, "fallback")
    BY <1>9 DEF parse_response
  <2> QED
    BY <1>0, <1>9, <2>1, <1>01, <1>02, ZenonT(60) DEF parse_response, AskerAt
<1>10. CASE fallback(t)
    BY <1>0, <1>10 DEF fallback, NoAsker
<1>11. CASE codex_ends_line(t)
    BY <1>0, <1>11 DEF codex_ends_line, TreeBecomes, Runs
<1>12. CASE codex_forks(t)
    BY <1>0, <1>12 DEF codex_forks, TreeBecomes, Runs
<1>13. CASE codex_exits(t)
    BY <1>0, <1>13 DEF codex_exits, TreeBecomes, Runs
<1>14. CASE child_exits(t)
    BY <1>0, <1>14 DEF child_exits, TreeBecomes
<1>15. CASE hangs(t)
    BY <1>0, <1>15, ZenonT(60) DEF hangs, TreeBecomes
<1>16. CASE returns(t)
    BY <1>0, <1>16 DEF returns, TreeBecomes
<1>17. ASSUME NEW event \in Events, codex_prints(t, event) PROVE CallInv(u)'
    BY <1>0, <1>17 DEF codex_prints, TreeBecomes, Runs
<1> QED
    BY <1>1, <1>2, <1>3, <1>4, <1>5, <1>6, <1>7, <1>8, <1>9, <1>10, <1>11, <1>12, <1>13, <1>14, <1>15, <1>16, <1>17 DEF ProviderStep

\* What a call relies on to account for the tokens: nothing is read before the command
\* ended, and what was read before the kill is all that it printed, or nothing.
UsageInv(t) ==
    /\ asker[t].pc \in {"package", "launch", "communicate"} =>
          asker[t].usage = 0 /\ asker[t].out = << >>
    /\ asker[t].pc = "killed" =>
          asker[t].late /\ asker[t].usage = 0 /\ asker[t].out \in {tree[t].out, << >>}
    /\ asker[t].pc = "exited" =>
          /\ asker[t].out = tree[t].out
          /\ asker[t].usage = codex_usage_or_zero(tree[t].out, tree[t].torn, FALSE)
    /\ asker[t].pc \in {"release", "answered"} /\ asker[t].out # << >>
          /\ asker[t].out = tree[t].out /\ (tree[t].torn => asker[t].late) =>
             asker[t].usage = OrZero(codex_usage_from_jsonl(Whole(tree[t].out, tree[t].torn)))
    /\ asker[t].pc \in InCall /\ asker[t].usage # 0 =>
          \E i \in 1..Len(tree[t].out) :
              tree[t].out[i].type = "turn.completed" /\ tree[t].out[i].usage = asker[t].usage

\* Only a thread's own steps touch its call and its processes.
LEMMA StepIsLocal ==
    ASSUME ProviderTypeOK, NEW t \in HelpThreads, ProviderStep(t), NEW u \in HelpThreads, u # t
    PROVE  asker'[u] = asker[u] /\ tree'[u] = tree[u]
<1>1. /\ \A pc : AskerGoes(t, pc) => asker'[u] = asker[u]
      /\ \A new : TreeBecomes(t, new) => tree'[u] = tree[u] /\ asker'[u] = asker[u]
      /\ \A new : asker' = [asker EXCEPT ![t] = new] => asker'[u] = asker[u]
      /\ \A new : tree' = [tree EXCEPT ![t] = new] => tree'[u] = tree[u]
    BY DEF AskerGoes, TreeBecomes, ProviderTypeOK
<1>2. CASE respond(t)
    BY <1>1, <1>2 DEF respond
<1>3. CASE codex_help_package(t) \/ read_response(t) \/ parse_response(t)
    BY <1>1, <1>3 DEF codex_help_package, read_response, parse_response
<1>4. CASE run_codex_process(t)
  <2>1. asker'[u] = asker[u]
    BY <1>1, <1>4 DEF run_codex_process
  <2>2. tree' = [tree EXCEPT ![t].main = "alive"] \/ tree' = tree
    BY <1>4 DEF run_codex_process
  <2> QED
    BY <2>1, <2>2 DEF ProviderTypeOK
<1>5. CASE communicate_ends(t)
    BY <1>5 DEF communicate_ends, close_windows_job, ProviderTypeOK
<1>6. CASE time_out(t)
    BY <1>6 DEF time_out, terminate_process_tree, ProviderTypeOK
<1>7. CASE collect(t)
    BY <1>7 DEF collect, terminate_process_tree, ProviderTypeOK
<1>8. CASE leave_call(t)
    BY <1>8 DEF leave_call, ProviderTypeOK
<1>9. CASE fallback(t)
    BY <1>1, <1>9 DEF fallback
<1>10. CASE codex_ends_line(t) \/ codex_forks(t) \/ codex_exits(t) \/ child_exits(t)
    BY <1>1, <1>10 DEF codex_ends_line, codex_forks, codex_exits, child_exits
<1>11. CASE hangs(t) \/ returns(t)
    BY <1>1, <1>11 DEF hangs, returns
<1>12. ASSUME NEW event \in Events, codex_prints(t, event)
       PROVE  asker'[u] = asker[u] /\ tree'[u] = tree[u]
    BY <1>1, <1>12 DEF codex_prints
<1> QED
    BY <1>2, <1>3, <1>4, <1>5, <1>6, <1>7, <1>8, <1>9, <1>10, <1>11, <1>12 DEF ProviderStep

\* Steps of the processes and of the machine that print nothing.
LEMMA TextIsKept ==
    ASSUME ProviderTypeOK, NEW t \in HelpThreads,
           \/ codex_forks(t) \/ codex_exits(t) \/ child_exits(t) \/ hangs(t) \/ returns(t)
    PROVE  /\ asker' = asker
           /\ tree'[t].out = tree[t].out /\ tree'[t].torn = tree[t].torn
<1>1. tree \in [HelpThreads -> TreeType] /\ tree[t] \in TreeType
    BY DEF ProviderTypeOK
<1>2. ASSUME NEW new, TreeBecomes(t, new), new.out = tree[t].out, new.torn = tree[t].torn
      PROVE  asker' = asker /\ tree'[t].out = tree[t].out /\ tree'[t].torn = tree[t].torn
    BY <1>1, <1>2 DEF TreeBecomes
<1>3. CASE codex_forks(t)
  <2>1. PICK pipe \in BOOLEAN : TreeBecomes(t, [tree[t] EXCEPT !.child = "alive", !.pipe = pipe])
    BY <1>3 DEF codex_forks
  <2> QED
    BY <1>1, <1>2, <2>1 DEF TreeType
<1>4. CASE codex_exits(t)
  <2>1. PICK code \in {0, 1} : TreeBecomes(t, [tree[t] EXCEPT !.main = "none", !.code = code])
    BY <1>4 DEF codex_exits
  <2> QED
    BY <1>1, <1>2, <2>1 DEF TreeType
<1>5. CASE child_exits(t)
    BY <1>1, <1>2, <1>5 DEF TreeType, child_exits
<1>6. CASE hangs(t)
    BY <1>1, <1>2, <1>6 DEF TreeType, hangs
<1>7. CASE returns(t)
    BY <1>1, <1>2, <1>7 DEF TreeType, returns
<1> QED
    BY <1>3, <1>4, <1>5, <1>6, <1>7

LEMMA UsageStep ==
    ASSUME ProviderTypeOK, NEW t \in HelpThreads, CallInv(t), UsageInv(t), ProviderStep(t)
    PROVE  UsageInv(t)'
<1>0. /\ asker \in [HelpThreads -> AskerType] /\ tree \in [HelpThreads -> TreeType]
      /\ asker[t] \in AskerType /\ tree[t] \in TreeType
    BY DEF ProviderTypeOK
<1>01. tree[t].out \in Seq(Events) /\ tree[t].torn \in BOOLEAN /\ asker[t].pc \in AskerStages
    BY <1>0 DEF AskerType, TreeType
<1>02. ASSUME NEW pc \in AskerStages, AskerGoes(t, pc)
       PROVE  /\ asker'[t].pc = pc /\ asker'[t].late = asker[t].late
              /\ asker'[t].usage = asker[t].usage /\ asker'[t].out = asker[t].out
    BY <1>02, AskerGoesTo
<1>03. InCall \subseteq AskerStages /\ {"idle", "parse", "answer", "fallback"} \subseteq AskerStages
    BY DEF AskerStages
<1>1. CASE asker'[t].pc \notin InCall
    BY <1>1 DEF UsageInv, InCall
<1>2. CASE respond(t) /\ asker'[t].pc \in InCall
  <2>1. ~AskerGoes(t, "fallback")
    BY <1>2, <1>02, <1>03 DEF InCall
  <2>2. asker'[t] = [NoAsker EXCEPT !.pc = "package"]
    BY <1>0, <1>2, <2>1 DEF respond
  <2>3. asker'[t].pc = "package" /\ asker'[t].usage = 0 /\ asker'[t].out = << >>
    BY <2>2 DEF NoAsker
  <2> QED
    BY <2>3 DEF UsageInv
<1>3. CASE codex_help_package(t)
  <2>1. AskerGoes(t, "launch") \/ AskerGoes(t, "release")
    BY <1>3 DEF codex_help_package
  <2>2. /\ asker'[t].pc \in {"launch", "release"}
        /\ asker'[t].usage = 0 /\ asker'[t].out = << >>
    BY <1>3, <1>02, <1>03, <2>1 DEF codex_help_package, AskerAt, UsageInv, InCall
  <2> QED
    BY <2>2 DEF UsageInv
<1>4. CASE run_codex_process(t)
  <2>1. AskerGoes(t, "communicate") \/ AskerGoes(t, "release")
    BY <1>4 DEF run_codex_process
  <2>2. /\ asker'[t].pc \in {"communicate", "release"}
        /\ asker'[t].usage = 0 /\ asker'[t].out = << >>
    BY <1>4, <1>02, <1>03, <2>1 DEF run_codex_process, AskerAt, UsageInv, InCall
  <2> QED
    BY <2>2 DEF UsageInv
<1>5. CASE communicate_ends(t)
  <2>1. /\ asker'[t].pc = "exited" /\ asker'[t].out = tree[t].out
        /\ asker'[t].usage = codex_usage_or_zero(tree[t].out, tree[t].torn, FALSE)
    BY <1>0, <1>5 DEF communicate_ends, AskerType
  <2>2. tree'[t].out = tree[t].out /\ tree'[t].torn = tree[t].torn
    BY <1>0, <1>5 DEF communicate_ends, close_windows_job, TreeType
  <2>3. asker'[t].usage # 0 =>
           \E i \in 1..Len(tree[t].out) :
              tree[t].out[i].type = "turn.completed" /\ tree[t].out[i].usage = asker'[t].usage
    <3> DEFINE usage == codex_usage_or_zero(tree[t].out, tree[t].torn, FALSE)
    <3>1. usage # 0 =>
             \E i \in 1..Len(tree[t].out) :
                tree[t].out[i].type = "turn.completed" /\ tree[t].out[i].usage = usage
        BY ONLY <1>01, UsageIsPrinted, FALSE \in BOOLEAN
    <3> QED
        BY <2>1, <3>1
  <2> QED
    BY <2>1, <2>2, <2>3 DEF UsageInv
<1>6. CASE time_out(t)
  <2>1. /\ asker'[t].pc = "killed" /\ asker'[t].late /\ asker'[t].usage = asker[t].usage
        /\ asker'[t].out \in {tree[t].out, << >>}
    BY <1>0, <1>6 DEF time_out, AskerType
  <2>2. tree'[t].out = tree[t].out /\ tree'[t].torn = tree[t].torn
    BY <1>0, <1>6 DEF time_out, terminate_process_tree, TreeType
  <2>3. asker[t].usage = 0
    BY <1>6 DEF time_out, AskerAt, UsageInv
  <2> QED
    BY <2>1, <2>2, <2>3 DEF UsageInv
<1>7. CASE collect(t)
  <2> DEFINE out == IF PipesOpen(t) THEN asker[t].out ELSE tree[t].out
  <2>1. /\ asker'[t].pc = "release" /\ asker'[t].out = out /\ asker'[t].late = asker[t].late
        /\ asker'[t].usage = codex_usage_or_zero(out, tree[t].torn, TRUE)
    BY <1>0, <1>7 DEF collect, AskerType
  <2>2. tree'[t].out = tree[t].out /\ tree'[t].torn = tree[t].torn
    BY <1>0, <1>7 DEF collect, terminate_process_tree, TreeType
  <2>3. out \in {tree[t].out, << >>} /\ << >> \in Seq(Events)
    BY <1>7 DEF collect, AskerAt, UsageInv
  <2>4. out \in Seq(Events) /\ TRUE \in BOOLEAN
    BY <1>01, <2>3
  <2> HIDE DEF out
  <2>5. out = tree[t].out => asker'[t].usage = OrZero(codex_usage_from_jsonl(Whole(tree[t].out, tree[t].torn)))
    BY <1>01, <2>1, UsageAfterTimeout
  <2>6. asker'[t].usage # 0 =>
           \E i \in 1..Len(out) : out[i].type = "turn.completed" /\ out[i].usage = asker'[t].usage
    <3> DEFINE usage == codex_usage_or_zero(out, tree[t].torn, TRUE)
    <3>1. usage # 0 =>
             \E i \in 1..Len(out) : out[i].type = "turn.completed" /\ out[i].usage = usage
        BY ONLY <1>01, <2>4, UsageIsPrinted
    <3> QED
        BY <2>1, <3>1
  <2>7. out = << >> => asker'[t].usage = 0
    BY <2>6
  <2> QED
    BY <2>1, <2>2, <2>3, <2>5, <2>6, <2>7 DEF UsageInv
<1>8. CASE read_response(t)
  <2>1. AskerGoes(t, "release") \/ AskerGoes(t, "answered")
    BY <1>8 DEF read_response
  <2>2. /\ asker'[t].pc \in {"release", "answered"} /\ tree' = tree
        /\ asker'[t].usage = asker[t].usage /\ asker'[t].out = asker[t].out
        /\ asker'[t].late = asker[t].late
    BY <1>8, <1>02, <1>03, <2>1 DEF read_response, InCall
  <2>3. /\ asker[t].pc = "exited" /\ ~asker[t].late /\ asker[t].out = tree[t].out
        /\ asker[t].usage = codex_usage_or_zero(tree[t].out, tree[t].torn, FALSE)
    BY <1>8 DEF read_response, AskerAt, UsageInv, CallInv
  <2>4. ~tree[t].torn => asker[t].usage = OrZero(codex_usage_from_jsonl(Whole(tree[t].out, tree[t].torn)))
    BY <1>01, <2>3, UsageAfterExit
  <2>5. asker[t].usage # 0 =>
           \E i \in 1..Len(tree[t].out) :
              tree[t].out[i].type = "turn.completed" /\ tree[t].out[i].usage = asker[t].usage
    BY <2>3 DEF UsageInv, InCall
  <2> QED
    BY <2>2, <2>3, <2>4, <2>5 DEF UsageInv
<1>9. CASE leave_call(t) \/ parse_response(t) \/ fallback(t)
  <2>1. CASE leave_call(t)
    BY <1>0, <2>1, <1>1 DEF leave_call, InCall, AskerType
  <2>2. CASE parse_response(t)
    BY <2>2, <1>02, <1>03, <1>1 DEF parse_response, InCall
  <2>3. CASE fallback(t)
    BY <1>0, <2>3, <1>1 DEF fallback, InCall, NoAsker
  <2> QED
    BY <1>9, <2>1, <2>2, <2>3
<1>10. CASE tree[t].main = "alive" /\ asker' = asker
  <2>1. asker[t].pc = "communicate" /\ asker[t].usage = 0 /\ asker[t].out = << >>
    BY <1>10 DEF CallInv, UsageInv
  <2> QED
    BY <1>10, <2>1 DEF UsageInv
<1>11. CASE codex_ends_line(t)
    BY <1>10, <1>11 DEF codex_ends_line, Runs, TreeBecomes
<1>12. ASSUME NEW event \in Events, codex_prints(t, event) PROVE UsageInv(t)'
    BY <1>10, <1>12 DEF codex_prints, Runs, TreeBecomes
<1>13. CASE \/ codex_forks(t) \/ codex_exits(t) \/ child_exits(t) \/ hangs(t) \/ returns(t)
  <2>1. /\ asker' = asker
        /\ tree'[t].out = tree[t].out /\ tree'[t].torn = tree[t].torn
    BY <1>13, TextIsKept
  <2> QED
    BY <2>1 DEF UsageInv
<1> QED
    BY <1>1, <1>2, <1>3, <1>4, <1>5, <1>6, <1>7, <1>8, <1>9, <1>11, <1>12, <1>13 DEF ProviderStep

ProviderInv == ProviderTypeOK /\ \A t \in HelpThreads : CallInv(t) /\ UsageInv(t)

LEMMA ProviderInvStep == ProviderInv /\ [ProviderNext]_providerVars => ProviderInv'
<1> SUFFICES ASSUME ProviderInv, [ProviderNext]_providerVars PROVE ProviderInv'
    OBVIOUS
<1>1. CASE UNCHANGED providerVars
    BY <1>1 DEF ProviderInv, ProviderTypeOK, CallInv, UsageInv, providerVars, providerState
<1>2. CASE ProviderNext
  <2>1. PICK t \in HelpThreads : ProviderStep(t)
    BY <1>2 DEF ProviderNext, ProviderStep
  <2>2. ProviderTypeOK'
    BY <2>1, ProviderTypeStep DEF ProviderInv
  <2>3. ASSUME NEW u \in HelpThreads PROVE CallInv(u)'
    BY <2>1, CallStep DEF ProviderInv
  <2>4. ASSUME NEW u \in HelpThreads PROVE UsageInv(u)'
    <3>1. CASE u = t
        BY <2>1, <3>1, UsageStep DEF ProviderInv
    <3>2. CASE u # t
      <4>1. asker'[u] = asker[u] /\ tree'[u] = tree[u]
        BY <2>1, <3>2, StepIsLocal DEF ProviderInv
      <4> QED
        BY <4>1, ZenonT(60) DEF UsageInv, ProviderInv
    <3> QED
        BY <3>1, <3>2
  <2> QED
    BY <2>2, <2>3, <2>4 DEF ProviderInv
<1> QED
    BY <1>1, <1>2

\* Codex runs one command at a time and leaves none behind that it could stop, and the
\* tokens an answer is charged with are those of a turn that Codex reported, whenever the
\* output was read whole (run_codex_process, codex_usage_from_jsonl).
THEOREM HelpCallsAreContainedAlways == ProviderSpec => []HelpCallsAreContained
<1>1. ProviderInit => ProviderInv
  <2> SUFFICES ASSUME ProviderInit PROVE ProviderInv
    OBVIOUS
  <2>1. NoAsker \in AskerType /\ NoTree \in TreeType
    BY DEF NoAsker, NoTree, AskerType, TreeType, AskerStages, ProcessStates
  <2>2. ProviderTypeOK
    BY <2>1 DEF ProviderInit, ProviderTypeOK
  <2>3. ASSUME NEW t \in HelpThreads PROVE CallInv(t) /\ UsageInv(t)
    BY <2>3, NoThreadIsNone DEF ProviderInit, CallInv, UsageInv, NoAsker, NoTree, InCall
  <2> QED
    BY <2>2, <2>3 DEF ProviderInv
<1>2. ProviderInv => HelpCallsAreContained
  <2> SUFFICES ASSUME ProviderInv PROVE HelpCallsAreContained
    OBVIOUS
  <2>1. CodexIsContained
    BY DEF ProviderInv, CallInv, CodexIsContained, InCall
  <2>2. UsageIsRecorded
    BY DEF ProviderInv, UsageInv, UsageIsRecorded
  <2> QED
    BY <2>1, <2>2 DEF HelpCallsAreContained
<1> QED
    BY <1>1, <1>2, ProviderInvStep, PTL DEF ProviderSpec

-----------------------------------------------------------------------------
(***************************************************************************)
(* Whose work a student is served (StudentAccess)                           *)
(***************************************************************************)

SubjectBindings == [user : People, active : BOOLEAN, revision : Nat]

StoredWorks ==
    [class : ClassIds, rows : [Rows -> [legacy : LegacyIds, subject : Subjects \cup {None}]]]

AccessTypeOK ==
    /\ people \in [People -> [role : {"student", "teacher"}, active : BOOLEAN, updated : Nat]]
    /\ bound \in [Subjects -> SubjectBindings \cup {None}]
    /\ alias \in [ClassIds \X LegacyIds -> Subjects \cup {None}]
    /\ works \in [Works -> StoredWorks \cup {None}]
    /\ DOMAIN visit = {"pc", "kind", "user", "scope", "row", "asked"}
    /\ visit.pc = "bearer" /\ visit.kind = "work" => visit.user \in People
    /\ visit.pc \in {"scope", "authorized"} => visit.user \in People
    /\ visit.pc = "authorized" => visit.asked \in Works /\ visit.row \in Rows

\* The subject that a target of a stored assignment is of, now and for ever.
LeadsTo(w, t, s) ==
    \/ works[w].rows[t].subject = s
    \/ /\ works[w].rows[t].subject = None
       /\ alias[<< works[w].class, works[w].rows[t].legacy >>] = s

OwnedBy(w, t, u) == \E s \in Subjects : LeadsTo(w, t, s) /\ bound[s] # None /\ bound[s].user = u

\* What was served, and what the request that is authorized may still be served.
Served == given \cup (IF visit.pc = "authorized" THEN {<< visit.asked, visit.row, visit.user >>} ELSE {})

\* The capability of a request: its subject is bound to the account for ever, and its
\* aliases lead where they lead now.
ScopeHolds(scope, u) ==
    /\ scope.subject \in Subjects /\ bound[scope.subject] # None /\ bound[scope.subject].user = u
    /\ \A x \in scope.aliases : x[1] \in ClassIds \X LegacyIds /\ x[2] \in Subjects /\ alias[x[1]] = x[2]

ServedHolds ==
    /\ \A x, y \in Served : x[1] = y[1] /\ x[2] = y[2] => x[3] = y[3]
    /\ \A x \in Served :
          /\ x[1] \in Works /\ x[2] \in Rows
          /\ \E s \in Subjects : bound[s] # None
          /\ works[x[1]] # None => OwnedBy(x[1], x[2], x[3])

AccessInv ==
    /\ AccessTypeOK
    /\ visit.pc \in {"scope", "authorized"} => ScopeHolds(visit.scope, visit.user)
    /\ ServedHolds

\* A binding stays with its account and a target with its subject.
Lasting ==
    /\ \A s \in Subjects : bound[s] # None => bound'[s] # None /\ bound'[s].user = bound[s].user
    /\ \A k \in ClassIds \X LegacyIds : alias[k] \in Subjects => alias'[k] = alias[k]
    /\ \A w \in Works : works'[w] # None => works'[w] = works[w]

LEMMA OwnerLasts ==
    ASSUME AccessTypeOK, Lasting, NEW w \in Works, works'[w] # None, NEW t \in Rows, NEW u, OwnedBy(w, t, u)
    PROVE  OwnedBy(w, t, u)'
<1>1. PICK s \in Subjects : LeadsTo(w, t, s) /\ bound[s] # None /\ bound[s].user = u
    BY DEF OwnedBy
<1>2. works'[w] = works[w] /\ bound'[s] # None /\ bound'[s].user = u
    BY <1>1 DEF Lasting
<1>3. << works[w].class, works[w].rows[t].legacy >> \in ClassIds \X LegacyIds
    BY <1>2 DEF AccessTypeOK, StoredWorks
<1>4. LeadsTo(w, t, s)'
    BY <1>1, <1>2, <1>3 DEF Lasting, LeadsTo
<1> QED
    BY <1>2, <1>4 DEF OwnedBy

LEMMA ScopeLasts ==
    ASSUME Lasting, NEW scope, NEW u, ScopeHolds(scope, u)
    PROVE  ScopeHolds(scope, u)'
    BY DEF Lasting, ScopeHolds

\* No target is of two accounts.
LEMMA OneOwner ==
    ASSUME NEW w, NEW t, NEW u, NEW v, OwnedBy(w, t, u), OwnedBy(w, t, v)
    PROVE  u = v
    BY AccessAssumption DEF OwnedBy, LeadsTo

-----------------------------------------------------------------------------
\* A snapshot that resolves gives a capability that holds.
LEMMA ResolvedScope ==
    ASSUME AccessTypeOK, NEW u \in People, Resolves(Snapshot(people, open, enrolled, bound, alias, u))
    PROVE  ScopeHolds(Scope(Snapshot(people, open, enrolled, bound, alias, u)), u)
<1> DEFINE p == Snapshot(people, open, enrolled, bound, alias, u)
           B == {s \in Subjects : bound[s] # None /\ bound[s].user = u}
<1>1. p.bindings = B /\ Cardinality(B) = 1
      /\ p.aliases = {<< k, alias[k] >> : k \in {x \in DOMAIN alias : alias[x] # None /\ bound[alias[x]].user = u}}
    BY DEF Snapshot, Resolves
<1>2. B # {}
  <2> HIDE DEF B
  <2> QED
    BY <1>1, FS_EmptySet
<1>3. (CHOOSE s \in B : TRUE) \in B
    BY <1>2
<1>4. Scope(p).subject \in B /\ Scope(p).aliases = p.aliases
    BY <1>1, <1>3 DEF Scope
<1>5. \A x \in p.aliases : x[1] \in ClassIds \X LegacyIds /\ x[2] \in Subjects /\ alias[x[1]] = x[2]
    BY <1>1 DEF AccessTypeOK
<1> HIDE DEF p
<1>6. ScopeHolds(Scope(p), u)
    BY <1>4, <1>5 DEF ScopeHolds
<1> QED
    BY <1>6 DEF p

\* The target a capability is granted is of its account.
LEMMA GrantedTarget ==
    ASSUME AccessTypeOK, NEW u, NEW scope, ScopeHolds(scope, u), NEW w \in Works, works[w] # None,
           Verdict(scope, works[w]) = "ok"
    PROVE  Target(scope, works[w]) \in Rows /\ OwnedBy(w, Target(scope, works[w]), u)
<1> DEFINE record == works[w]
           T == IF Canonical(scope, record) # {} THEN Canonical(scope, record) ELSE ByAlias(scope, record)
<1>1. T # {} /\ T \subseteq Rows
    BY DEF Verdict, Canonical, ByAlias
<1>2. Target(scope, record) \in Rows /\ Target(scope, record) \in T
    BY <1>1 DEF Target
<1>3. ASSUME NEW t \in T PROVE LeadsTo(w, t, scope.subject)
  <2>1. CASE t \in Canonical(scope, record)
    BY <2>1 DEF Canonical, LeadsTo
  <2>2. CASE t \in ByAlias(scope, record)
    <3>1. /\ record.rows[t].subject = None
          /\ alias_subjects(scope.aliases, record.class, record.rows[t].legacy) = {scope.subject}
      BY <2>2 DEF ByAlias
    <3>2. PICK x \in scope.aliases : x[1] = << record.class, record.rows[t].legacy >> /\ x[2] = scope.subject
      BY <3>1 DEF alias_subjects
    <3>3. alias[<< record.class, record.rows[t].legacy >>] = scope.subject
      BY <3>2 DEF ScopeHolds
    <3> QED
      BY <3>1, <3>3 DEF LeadsTo
  <2> QED
    BY <2>1, <2>2
<1> HIDE DEF T
<1>4. LeadsTo(w, Target(scope, record), scope.subject)
    BY <1>2, <1>3
<1> QED
    BY <1>2, <1>4 DEF OwnedBy, ScopeHolds

-----------------------------------------------------------------------------
\* Targets that are each of its account.
Granted(targets) ==
    \A x \in targets : x[1] \in Works /\ x[2] \in Rows /\ works[x[1]] # None /\ OwnedBy(x[1], x[2], x[3])

LEMMA NothingGranted == Granted({})
    BY DEF Granted

LEMMA OneGranted ==
    ASSUME NEW w \in Works, works[w] # None, NEW t \in Rows, NEW u, OwnedBy(w, t, u)
    PROVE  Granted({<< w, t, u >>})
    BY DEF Granted

\* What is served grows by targets of their accounts.
LEMMA ServedGrows ==
    ASSUME AccessInv, UNCHANGED << bound, alias, works >>, NEW more, Served' \subseteq Served \cup more,
           Granted(more)
    PROVE  ServedHolds'
<1>1. ASSUME NEW x \in Served \cup more
      PROVE  /\ x[1] \in Works /\ x[2] \in Rows
             /\ \E s \in Subjects : bound[s] # None
             /\ works[x[1]] # None => OwnedBy(x[1], x[2], x[3])
    BY DEF AccessInv, ServedHolds, OwnedBy, Granted
<1>2. ASSUME NEW x \in Served \cup more, NEW y \in Served \cup more, x[1] = y[1], x[2] = y[2]
      PROVE  x[3] = y[3]
  <2>1. CASE works[x[1]] # None
    BY <1>1, <1>2, <2>1, OneOwner
  <2>2. CASE works[x[1]] = None
    BY <1>2, <2>2 DEF AccessInv, ServedHolds, Granted
  <2> QED
    BY <2>1, <2>2
<1>3. \A x \in Served' : works'[x[1]] # None => OwnedBy(x[1], x[2], x[3])'
  <2> SUFFICES ASSUME NEW x \in Served', works'[x[1]] # None PROVE OwnedBy(x[1], x[2], x[3])'
    OBVIOUS
  <2>1. OwnedBy(x[1], x[2], x[3])
    BY <1>1
  <2> QED
    BY <2>1 DEF OwnedBy, LeadsTo
<1> QED
    BY <1>1, <1>2, <1>3 DEF ServedHolds

\* What was served stays so while bindings last.
LEMMA ServedLasts ==
    ASSUME AccessInv, Lasting, UNCHANGED << visit, given >>
    PROVE  ServedHolds'
<1>1. Served' = Served
    BY DEF Served
<1>2. \A x \in Served : works'[x[1]] # None => OwnedBy(x[1], x[2], x[3])'
  <2> SUFFICES ASSUME NEW x \in Served, works'[x[1]] # None PROVE OwnedBy(x[1], x[2], x[3])'
    OBVIOUS
  <2>1. x[1] \in Works /\ x[2] \in Rows
    BY DEF AccessInv, ServedHolds
  <2>2. OwnedBy(x[1], x[2], x[3])
    BY <2>1 DEF AccessInv, ServedHolds, Lasting
  <2> QED
    BY <2>1, <2>2, OwnerLasts DEF AccessInv
<1> QED
    BY <1>1, <1>2 DEF AccessInv, ServedHolds, Lasting

\* Changes of the stored rows.
LEMMA RowsKeepInv ==
    ASSUME AccessInv, Lasting, AccessTypeOK', UNCHANGED << visit, given >>
    PROVE  AccessInv'
<1>1. ServedHolds'
    BY ServedLasts
<1>2. visit'.pc \in {"scope", "authorized"} => ScopeHolds(visit.scope, visit.user)'
  <2> SUFFICES ASSUME visit.pc \in {"scope", "authorized"} PROVE ScopeHolds(visit.scope, visit.user)'
    OBVIOUS
  <2>1. PICK scope, u : scope = visit.scope /\ u = visit.user
    OBVIOUS
  <2>2. ScopeHolds(scope, u)'
    BY <2>1, ScopeLasts DEF AccessInv
  <2> QED
    BY <2>1, <2>2 DEF ScopeHolds
<1> QED
    BY <1>1, <1>2 DEF AccessInv

LEMMA EditsKeepInv ==
    ASSUME AccessInv,
           \/ \E u \in People : save_user(u)
           \/ \E c \in ClassIds : save_class(c)
           \/ \E u \in People, c \in ClassIds : save_membership(u, c)
           \/ \E row \in enrolled : delete_membership(row)
           \/ \E u \in People, s \in Subjects, keys \in SUBSET (ClassIds \X LegacyIds) :
                 create_student_subject_binding(u, s, keys)
           \/ \E s \in Subjects : save_student_subject_binding(s)
           \/ \E s \in Subjects, k \in ClassIds \X LegacyIds : save_legacy_subject_alias(s, k)
           \/ \E w \in Works : delete_work(w)
           \/ UNCHANGED accessVars
    PROVE  AccessInv'
<1> USE DEF AccessInv
<1>0. /\ visit' = visit /\ given' = given
    BY DEF save_user, save_class, save_membership, delete_membership, create_student_subject_binding,
           save_student_subject_binding, save_legacy_subject_alias, delete_work, Edits, rows, accessVars,
           accessState
<1>1. ASSUME NEW u \in People, save_user(u) PROVE AccessInv'
  <2>1. people' \in [People -> [role : {"student", "teacher"}, active : BOOLEAN, updated : Nat]]
    <3>1. PICK r \in {"student", "teacher"}, a \in BOOLEAN :
            people' = [people EXCEPT ![u] = [role |-> r, active |-> a, updated |-> @.updated + 1]]
      BY <1>1 DEF save_user
    <3>2. people[u].updated + 1 \in Nat
      BY DEF AccessTypeOK
    <3> QED
      BY <3>1, <3>2 DEF AccessTypeOK
  <2>2. UNCHANGED << bound, alias, works >>
    BY <1>1 DEF save_user, Edits
  <2> QED
    BY <1>0, <2>1, <2>2, RowsKeepInv DEF Lasting, AccessTypeOK
<1>2. ASSUME UNCHANGED << people, bound, alias, works >> PROVE AccessInv'
    BY <1>0, <1>2, RowsKeepInv DEF Lasting, AccessTypeOK
<1>3. ASSUME NEW u \in People, NEW s \in Subjects, NEW keys \in SUBSET (ClassIds \X LegacyIds),
             create_student_subject_binding(u, s, keys)
      PROVE  AccessInv'
  <2>1. /\ UNCHANGED << people, works >> /\ bound[s] = None
        /\ bound' = [bound EXCEPT ![s] = [user |-> u, active |-> TRUE, revision |-> 1]]
        /\ alias' = [k \in DOMAIN alias |-> IF k \in keys THEN s ELSE alias[k]]
        /\ \A k \in keys : alias[k] = None
    BY <1>3 DEF create_student_subject_binding, MayBind, Edits
  <2>2. AccessTypeOK'
    BY <1>0, <2>1 DEF AccessTypeOK, SubjectBindings
  <2>3. Lasting
    BY <2>1, AccessAssumption DEF Lasting, AccessTypeOK
  <2> QED
    BY <1>0, <2>2, <2>3, RowsKeepInv
<1>4. ASSUME NEW s \in Subjects, save_student_subject_binding(s) PROVE AccessInv'
  <2> DEFINE b == [bound[s] EXCEPT !.active = ~@, !.revision = @ + 1]
  <2>1. /\ UNCHANGED << people, works, alias >> /\ bound[s] # None
        /\ bound' = [bound EXCEPT ![s] = b]
    BY <1>4 DEF save_student_subject_binding, Edits, AccessTypeOK, SubjectBindings
  <2>5. bound[s] \in SubjectBindings /\ bound[s].revision + 1 \in Nat
    BY <2>1 DEF AccessTypeOK, SubjectBindings
  <2>2. b \in SubjectBindings /\ b.user = bound[s].user
    BY <2>5 DEF SubjectBindings
  <2> HIDE DEF b
  <2>3. AccessTypeOK'
    BY <1>0, <2>1, <2>2 DEF AccessTypeOK
  <2>4. Lasting
    BY <2>1, <2>2, AccessAssumption DEF Lasting, AccessTypeOK, SubjectBindings
  <2> QED
    BY <1>0, <2>3, <2>4, RowsKeepInv
<1>5. ASSUME NEW s \in Subjects, NEW k \in ClassIds \X LegacyIds, save_legacy_subject_alias(s, k)
      PROVE  AccessInv'
  <2>1. /\ UNCHANGED << people, works, bound >> /\ alias[k] = None
        /\ alias' = [alias EXCEPT ![k] = s]
    BY <1>5 DEF save_legacy_subject_alias, Edits
  <2>2. AccessTypeOK'
    BY <1>0, <2>1 DEF AccessTypeOK
  <2>3. Lasting
    BY <2>1, AccessAssumption DEF Lasting, AccessTypeOK
  <2> QED
    BY <1>0, <2>2, <2>3, RowsKeepInv
<1>6. ASSUME NEW w \in Works, delete_work(w) PROVE AccessInv'
  <2>1. /\ UNCHANGED << people, bound, alias >> /\ works' = [works EXCEPT ![w] = None]
    BY <1>6 DEF delete_work, rows
  <2>2. AccessTypeOK'
    BY <1>0, <2>1 DEF AccessTypeOK
  <2>3. Lasting
    BY <2>1 DEF Lasting, AccessTypeOK
  <2> QED
    BY <1>0, <2>2, <2>3, RowsKeepInv
<1> QED
    BY <1>1, <1>2, <1>3, <1>4, <1>5, <1>6
    DEF save_class, save_membership, delete_membership, Edits, accessVars, accessState

-----------------------------------------------------------------------------
\* A request that ends, with what it was served.
LEMMA EndKeepsInv ==
    ASSUME AccessInv, visit' = Idle, UNCHANGED << people, bound, alias, works >>,
           NEW more, given' \subseteq Served \cup more,
           Granted(more)
    PROVE  AccessInv'
<1>1. Served' \subseteq Served \cup more
    BY DEF Served, Idle
<1>2. ServedHolds'
    BY <1>1, ServedGrows
<1> QED
    BY <1>2 DEF AccessInv, AccessTypeOK, Idle

LEMMA RequestKeepsInv ==
    ASSUME AccessInv,
           \/ \E u \in People : authenticate_bearer(u) \/ authorize_application(u)
           \/ authorize_student_request \/ authorize_student_dashboard
           \/ \E w \in Works, kind \in {"help", "final"} : authorized_assignment(w, kind)
    PROVE  AccessInv'
<1>0. UNCHANGED << people, bound, alias, works, given >>
    BY DEF authenticate_bearer, authorize_application, authorize_student_request, authorize_student_dashboard,
           authorized_assignment, Keeps, rows
<1>e. ASSUME visit' = Idle PROVE AccessInv'
  <2>1. given' \subseteq Served \cup {}
    BY <1>0 DEF Served
  <2> QED
    BY <1>0, <1>e, <2>1, EndKeepsInv, NothingGranted
<1>s. ASSUME visit'.pc # "authorized", AccessTypeOK',
             visit'.pc = "scope" => ScopeHolds(visit.scope, visit.user)'
      PROVE  AccessInv'
  <2>1. Served' \subseteq Served \cup {}
    BY <1>0, <1>s DEF Served
  <2>2. ServedHolds'
    BY <1>0, <2>1, ServedGrows, NothingGranted
  <2> QED
    BY <1>s, <2>2 DEF AccessInv
<1>1. ASSUME NEW u \in People, authenticate_bearer(u) PROVE AccessInv'
  <2>1. visit' = [Idle EXCEPT !.pc = "bearer", !.kind = "work", !.user = u]
    BY <1>1 DEF authenticate_bearer
  <2>2. visit'.pc = "bearer" /\ visit'.user = u /\ DOMAIN visit' = {"pc", "kind", "user", "scope", "row", "asked"}
    BY <2>1 DEF Idle
  <2> QED
    BY <1>0, <1>s, <2>2 DEF AccessInv, AccessTypeOK
<1>2. ASSUME NEW u \in People, authorize_application(u) PROVE AccessInv'
  <2>1. PICK x : visit' = [Idle EXCEPT !.pc = "bearer", !.kind = "dashboard", !.user = u, !.asked = x, !.scope = people[u]]
    BY <1>2 DEF authorize_application
  <2>2. visit'.pc = "bearer" /\ visit'.user = u /\ DOMAIN visit' = {"pc", "kind", "user", "scope", "row", "asked"}
    BY <2>1 DEF Idle
  <2> QED
    BY <1>0, <1>s, <2>2 DEF AccessInv, AccessTypeOK
<1>3. CASE authorize_student_request
  <2> DEFINE p == Snapshot(people, open, enrolled, bound, alias, visit.user)
  <2>1. CASE Resolves(p) /\ visit' = [visit EXCEPT !.pc = "scope", !.scope = Scope(p)]
    <3>1. visit.user \in People /\ DOMAIN visit = {"pc", "kind", "user", "scope", "row", "asked"}
      BY <1>3 DEF authorize_student_request, AccessInv, AccessTypeOK
    <3>2. PICK u \in People : u = visit.user
      BY <3>1
    <3>3. ScopeHolds(Scope(p), u)
      BY <2>1, <3>2, ResolvedScope DEF AccessInv
    <3>4. /\ visit'.pc = "scope" /\ visit'.scope = Scope(p) /\ visit'.user = u
          /\ DOMAIN visit' = {"pc", "kind", "user", "scope", "row", "asked"}
      BY <2>1, <3>1, <3>2
    <3> HIDE DEF p
    <3>5. ScopeHolds(visit.scope, visit.user)'
      BY <1>0, <3>3, <3>4 DEF ScopeHolds
    <3>6. AccessTypeOK'
      BY <1>0, <3>4 DEF AccessInv, AccessTypeOK
    <3> QED
      BY <1>s, <3>4, <3>5, <3>6
  <2> QED
    BY <1>3, <1>e, <2>1 DEF authorize_student_request, Ends
<1>4. CASE authorize_student_dashboard
    BY <1>4, <1>e DEF authorize_student_dashboard, Ends
<1>5. ASSUME NEW w \in Works, NEW kind \in {"help", "final"}, authorized_assignment(w, kind) PROVE AccessInv'
  <2> DEFINE t == Target(visit.scope, works[w])
  <2>1. CASE /\ works[w] # None /\ Verdict(visit.scope, works[w]) = "ok"
             /\ visit' = [visit EXCEPT !.pc = "authorized", !.kind = kind, !.asked = w, !.row = t]
    <3>1. /\ visit.pc = "scope" /\ visit.user \in People /\ ScopeHolds(visit.scope, visit.user)
          /\ DOMAIN visit = {"pc", "kind", "user", "scope", "row", "asked"}
      BY <1>5 DEF authorized_assignment, AccessInv, AccessTypeOK
    <3>2. t \in Rows /\ OwnedBy(w, t, visit.user)
      BY <2>1, <3>1, GrantedTarget DEF AccessInv
    <3>3. PICK r \in Rows : r = t
      BY <3>2
    <3> HIDE DEF t
    <3>4. /\ visit'.pc = "authorized" /\ visit'.asked = w /\ visit'.row = r /\ visit'.user = visit.user
          /\ visit'.scope = visit.scope
          /\ DOMAIN visit' = {"pc", "kind", "user", "scope", "row", "asked"}
      BY <2>1, <3>1, <3>3
    <3>5. Served' \subseteq Served \cup {<< w, r, visit.user >>}
      BY <1>0, <3>4 DEF Served
    <3>6. ServedHolds'
      BY <1>0, <2>1, <3>2, <3>3, <3>5, ServedGrows, OneGranted
    <3>7. ScopeHolds(visit.scope, visit.user)'
      BY <1>0, <3>1, <3>4 DEF ScopeHolds
    <3>8. AccessTypeOK'
      BY <1>0, <3>1, <3>4 DEF AccessInv, AccessTypeOK
    <3> QED
      BY <3>6, <3>7, <3>8 DEF AccessInv
  <2> QED
    BY <1>5, <1>e, <2>1 DEF authorized_assignment, Ends
<1> QED
    BY <1>1, <1>2, <1>3, <1>4, <1>5

LEMMA ServingKeepsInv ==
    ASSUME AccessInv,
           \/ visible_assignments \/ record_authorized_help \/ select_authorized_final
           \/ \E w \in Works : dispatch_student_delivery(w)
    PROVE  AccessInv'
<1>0. visit' = Idle /\ UNCHANGED << people, bound, alias, works >>
    BY DEF visible_assignments, record_authorized_help, select_authorized_final, dispatch_student_delivery,
           Ends, Keeps, rows
<1>1. ASSUME NEW more, given' \subseteq Served \cup more,
             Granted(more)
      PROVE  AccessInv'
    BY <1>0, <1>1, EndKeepsInv
<1>2. ASSUME given' \subseteq Served PROVE AccessInv'
  <2>1. given' \subseteq Served \cup {}
    BY <1>2
  <2> QED
    BY <1>1, <2>1, NothingGranted
<1>3. given \subseteq Served
    BY DEF Served
<1>4. CASE visible_assignments
  <2> DEFINE mine == {w \in {x \in Works : works[x] # None} : Verdict(visit.scope, works[w]) = "ok"}
             more == {<< w, Target(visit.scope, works[w]), visit.user >> : w \in mine}
  <2>1. ScopeHolds(visit.scope, visit.user)
    BY <1>4 DEF visible_assignments, AccessInv
  <2>2. ASSUME NEW w \in mine
        PROVE  Target(visit.scope, works[w]) \in Rows /\ OwnedBy(w, Target(visit.scope, works[w]), visit.user)
    BY <2>1, GrantedTarget DEF AccessInv
  <2>3. Granted(more)
    BY <2>2 DEF Granted
  <2>4. given' \subseteq Served \cup more
    BY <1>3, <1>4 DEF visible_assignments
  <2> HIDE DEF more
  <2> QED
    BY <1>1, <2>3, <2>4
<1>5. CASE record_authorized_help
  <2> DEFINE w == visit.asked
             t == Target(visit.scope, works[w])
  <2>1. ScopeHolds(visit.scope, visit.user) /\ w \in Works
    BY <1>5 DEF record_authorized_help, AccessInv, AccessTypeOK
  <2>2. CASE works[w] # None /\ Verdict(visit.scope, works[w]) = "ok"
    <3>1. t \in Rows /\ OwnedBy(w, t, visit.user)
      BY <2>1, <2>2, GrantedTarget DEF AccessInv
    <3>2. given' \subseteq Served \cup {<< w, t, visit.user >>}
      BY <1>3, <1>5, <2>2 DEF record_authorized_help
    <3> HIDE DEF t, w
    <3> QED
      BY <1>1, <2>1, <2>2, <3>1, <3>2, OneGranted
  <2> QED
    BY <1>2, <1>3, <1>5, <2>2 DEF record_authorized_help
<1>6. CASE select_authorized_final
    BY <1>2, <1>6 DEF select_authorized_final, Served
<1>7. ASSUME NEW w \in Works, dispatch_student_delivery(w) PROVE AccessInv'
  <2> DEFINE scope == Scope(Snapshot(people, open, enrolled, bound, alias, visit.user))
             t == Target(scope, works[w])
  <2>1. visit.user \in People
    BY <1>7 DEF dispatch_student_delivery, AccessInv, AccessTypeOK
  <2>2. CASE /\ works[w] # None /\ Resolves(Snapshot(people, open, enrolled, bound, alias, visit.user))
             /\ Verdict(scope, works[w]) = "ok"
             /\ given' = given \cup {<< w, t, visit.user >>}
    <3>1. ScopeHolds(scope, visit.user)
      BY <2>1, <2>2, ResolvedScope DEF AccessInv
    <3>2. t \in Rows /\ OwnedBy(w, t, visit.user)
      BY <2>2, <3>1, GrantedTarget DEF AccessInv
    <3>3. given' \subseteq Served \cup {<< w, t, visit.user >>}
      BY <1>3, <2>2
    <3> HIDE DEF t, scope
    <3> QED
      BY <1>1, <2>2, <3>2, <3>3, OneGranted
  <2> QED
    BY <1>2, <1>3, <1>7, <2>2 DEF dispatch_student_delivery
<1> QED
    BY <1>4, <1>5, <1>6, <1>7

\* The adoption changes the targets of a root that served nobody yet.
LEMMA RehearseKeepsInv ==
    ASSUME AccessInv, NEW owner \in [Subjects -> People \cup {None}],
           NEW mapping \in [ClassIds \X LegacyIds -> Subjects \cup {None}], rehearse(owner, mapping)
    PROVE  AccessInv'
<1> DEFINE b == [s \in Subjects |-> IF owner[s] = None THEN None ELSE [user |-> owner[s], active |-> TRUE, revision |-> 1]]
           a == [k \in DOMAIN alias |-> mapping[k]]
<1>1. /\ visit = Idle /\ visit' = Idle /\ UNCHANGED << people, given >>
      /\ \A s \in Subjects : bound[s] = None
      /\ bound' = b /\ alias' = a
      /\ works' = [w \in Works |-> IF works[w] = None THEN None ELSE Migrated(works[w], a)]
    BY DEF rehearse
<1>2. bound' \in [Subjects -> SubjectBindings \cup {None}]
    BY <1>1 DEF SubjectBindings
<1>3. alias' \in [ClassIds \X LegacyIds -> Subjects \cup {None}]
    BY <1>1 DEF AccessInv, AccessTypeOK
<1>4. ASSUME NEW record \in StoredWorks PROVE Migrated(record, a) \in StoredWorks
  <2> DEFINE row(t) == IF record.rows[t].subject # None THEN record.rows[t]
                       ELSE [record.rows[t] EXCEPT !.subject = a[<< record.class, record.rows[t].legacy >>]]
  <2>1. ASSUME NEW t \in Rows PROVE row(t) \in [legacy : LegacyIds, subject : Subjects \cup {None}]
    <3>1. record.rows[t] \in [legacy : LegacyIds, subject : Subjects \cup {None}] /\ record.class \in ClassIds
      BY DEF StoredWorks
    <3>2. a[<< record.class, record.rows[t].legacy >>] \in Subjects \cup {None}
      BY <1>1, <1>3, <3>1
    <3> QED
      BY <3>1, <3>2
  <2> HIDE DEF row, a
  <2>2. [t \in Rows |-> row(t)] \in [Rows -> [legacy : LegacyIds, subject : Subjects \cup {None}]]
    BY <2>1
  <2>3. Migrated(record, a) = [record EXCEPT !.rows = [t \in Rows |-> row(t)]]
    BY DEF Migrated, row
  <2> QED
    BY <2>2, <2>3 DEF StoredWorks
<1>5. works' \in [Works -> StoredWorks \cup {None}]
    BY <1>1, <1>4 DEF AccessInv, AccessTypeOK
<1>6. AccessTypeOK'
    BY <1>1, <1>2, <1>3, <1>5 DEF AccessInv, AccessTypeOK, Idle
<1>7. Served = {} /\ Served' = {}
  <2>1. Served = {}
    BY <1>1 DEF AccessInv, ServedHolds
  <2> QED
    BY <1>1, <2>1 DEF Served, Idle
<1>8. ServedHolds'
    BY <1>7 DEF ServedHolds
<1> QED
    BY <1>1, <1>6, <1>8 DEF AccessInv, Idle

\* A dashboard shows the classes of the role the account has now.
DashboardIsOwn ==
    shown' # None =>
        /\ people[shown'.actor].active
        /\ \A c \in shown'.classes :
              << shown'.actor, c, people[shown'.actor].role >> \in enrolled

LEMMA DashboardStep == AccessNext => DashboardIsOwn
<1> SUFFICES ASSUME AccessNext PROVE DashboardIsOwn
    OBVIOUS
<1>1. CASE authorize_student_dashboard
    BY <1>1 DEF authorize_student_dashboard, DashboardIsOwn, ActorClasses, ClassesOf
<1>2. ASSUME shown' = None PROVE DashboardIsOwn
    BY <1>2 DEF DashboardIsOwn
<1> QED
    BY <1>1, <1>2 DEF AccessNext, save_user, save_class, save_membership, delete_membership,
       create_student_subject_binding, save_student_subject_binding, save_legacy_subject_alias,
       delete_work, Edits, authenticate_bearer, authorize_application, authorize_student_request,
       authorized_assignment, visible_assignments, record_authorized_help, select_authorized_final,
       dispatch_student_delivery, rehearse, Keeps

LEMMA AccessStart == AccessInit => AccessInv
<1> SUFFICES ASSUME AccessInit PROVE AccessInv
    OBVIOUS
<1>1. ASSUME NEW w \in Works PROVE works[w] \in StoredWorks
  <2>1. PICK c \in ClassIds, f \in [Rows -> LegacyIds] :
           works[w] = [class |-> c, rows |-> [t \in Rows |-> [legacy |-> f[t], subject |-> None]]]
    BY DEF AccessInit
  <2>2. [t \in Rows |-> [legacy |-> f[t], subject |-> None]]
           \in [Rows -> [legacy : LegacyIds, subject : Subjects \cup {None}]]
    OBVIOUS
  <2> QED
    BY <2>1, <2>2 DEF StoredWorks
<1>2. works \in [Works -> StoredWorks \cup {None}]
    BY <1>1 DEF AccessInit
<1>3. AccessTypeOK
    BY <1>2 DEF AccessInit, AccessTypeOK, Idle
<1>4. Served = {}
    BY DEF AccessInit, Served, Idle
<1> QED
    BY <1>3, <1>4 DEF AccessInit, AccessInv, ServedHolds, Idle

\* A target is served to one account only, across changes of accounts, classes, bindings
\* and aliases, whatever snapshot a request decided with, and a dashboard shows a student
\* only in classes the reader has in the role of now.
THEOREM AccessIsOwnAlways == AccessSpec => AccessIsOwn
<1>1. AccessInv /\ [AccessNext]_accessVars => AccessInv'
    BY EditsKeepInv, RequestKeepsInv, ServingKeepsInv, RehearseKeepsInv DEF AccessNext
<1>2. AccessInv => OneStudentPerTarget
    BY DEF AccessInv, ServedHolds, Served, OneStudentPerTarget
<1>3. AccessInv /\ [AccessNext]_accessVars => [OneStudentPerTarget' /\ DashboardIsOwn]_accessVars
  <2>1. AccessInv' => OneStudentPerTarget'
    BY <1>2, PTL
  <2> QED
    BY <1>1, <2>1, DashboardStep
<1>4. AccessSpec => [][OneStudentPerTarget' /\ DashboardIsOwn]_accessVars
    BY <1>1, <1>3, AccessStart, PTL DEF AccessSpec
<1> QED
    BY <1>4, PTL DEF AccessIsOwn, DashboardIsOwn
=============================================================================
