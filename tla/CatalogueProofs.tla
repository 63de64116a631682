--------------------------- MODULE CatalogueProofs ---------------------------
(***************************************************************************)
(* Proofs about Catalogue, for every SDK, every curated registry and every *)
(* environment.                                                            *)
(***************************************************************************)
EXTENDS Catalogue, WellFoundedInduction, TLAPS

\* What the module loader made of the tools: no tool is one the allowlist cannot stand for,
\* each has the tier the policy gives it, and every form of an operation has one.
EntriesOK ==
  /\ \A i \in DOMAIN catalogue :
       /\ ~Inexpandable(catalogue[i].tool)
       /\ catalogue[i].confirm = Tier(catalogue[i].tool)
  /\ EveryOperationHasTool

\* What is offered is enabled, by an environment that loadConfig accepts.
OffersOK ==
  /\ stage \in {"start", "loaded", "configured"} => tools = {}
  /\ stage \in {"configured", "serving"} => env.readOnly \/ env.key
  /\ \A entry \in tools : Enabled(entry)

\* A call is made while serving, and its outcome is what its tool makes of it.
CallsOK ==
  /\ calls # {} => stage = "serving"
  /\ \A call \in calls :
       /\ call.form \in call.entry.tool.forms
       /\ call.sent = IF call.entry.tool.kind = "read" THEN ReadRuns(call.entry.tool, call.form)
                      ELSE WriteRuns(call.entry, call.form, call.acknowledge)

CatalogueInv == CatalogueTypeOK /\ EntriesOK /\ OffersOK /\ CallsOK

-----------------------------------------------------------------------------
(* Naturals: induction by the least counterexample, and the maximum *)

\* Every non-empty set of naturals has a least member.
LEMMA LeastNatural ==
  ASSUME NEW T, T \subseteq Nat, T # {}
  PROVE  \E n \in T : \A m \in T : n <= m
<1>1. \E n \in T : \A m \in T : ~ (<<m, n>> \in OpToRel(<, Nat))
  BY WFMin, NatLessThanWellFounded
<1>2. PICK n \in T : \A m \in T : ~ (<<m, n>> \in OpToRel(<, Nat))
  BY <1>1
<1>3. \A m \in T : ~ (m < n)
  BY <1>2 DEF OpToRel
<1> QED
  BY <1>3

LEMMA MinOfNaturals ==
  ASSUME NEW T, T \subseteq Nat, T # {}
  PROVE  Min(T) \in T
<1>1. \E x \in T : \A y \in T : x <= y
  BY LeastNatural
<1> QED
  BY <1>1 DEF Min

\* The maximum of a set of indices: the least of its upper bounds.
LEMMA MaxOfInterval ==
  ASSUME NEW n \in Nat, NEW s \in SUBSET (1..n), s # {}
  PROVE  Max(s) \in s /\ \A m \in s : m <= Max(s)
<1> DEFINE T == {k \in Nat : \A m \in s : m <= k}
<1>1. T \subseteq Nat /\ n \in T
  OBVIOUS
<1>2. PICK k \in T : \A m \in T : k <= m
  BY <1>1, LeastNatural
<1>3. k \in s
  <2> SUFFICES ASSUME k \notin s PROVE FALSE
    OBVIOUS
  <2>1. PICK e \in s : TRUE
    OBVIOUS
  <2>2. k - 1 \in Nat /\ k - 1 \in T
    BY <1>2, <2>1
  <2> QED
    BY <1>2, <2>2
<1>4. \E x \in s : \A y \in s : x >= y
  BY <1>2, <1>3
<1>5. Max(s) \in s /\ \A y \in s : Max(s) >= y
  BY <1>4 DEF Max
<1> QED
  BY <1>5

LEMMA MaxOfNext ==
  ASSUME NEW n \in Nat, NEW s \in SUBSET (1..n+1), s \notin SUBSET (1..n)
  PROVE  Max(s) = n + 1 /\ s \ {n+1} \in SUBSET (1..n)
<1>1. n + 1 \in s /\ n + 1 \in Nat
  OBVIOUS
<1>2. Max(s) \in s /\ \A m \in s : m <= Max(s)
  BY <1>1, MaxOfInterval
<1>3. Max(s) \in 1..n+1 /\ n + 1 <= Max(s)
  BY <1>1, <1>2
<1>4. Max(s) = n + 1
  BY <1>1, <1>3
<1>5. \A m \in s \ {n+1} : m \in 1..n
  <2> SUFFICES ASSUME NEW m \in s, m # n + 1 PROVE m \in 1..n
    OBVIOUS
  <2>1. m \in 1..n+1
    OBVIOUS
  <2> QED
    BY <2>1
<1> QED
  BY <1>4, <1>5

-----------------------------------------------------------------------------
(* buildSdkGeneratedFamily is a loop over Sorted: the fold has an accumulator for each *)
(* round.  The fold is defined by a recursive function on sets of indices, so there has  *)
(* to be one first.                                                                      *)

\* g folds the first n operations.
Folds(g, family, n) ==
  g = [s \in SUBSET (1..n) |->
         IF s = {} THEN NoneGenerated(family)
         ELSE AddGenerated(family, g[s \ {Max(s)}], Sorted[Max(s)])]

LEMMA GeneratedUnfolds ==
  ASSUME NEW family
  PROVE  Generated(family) = (CHOOSE g : Folds(g, family, Len(Sorted)))[1..Len(Sorted)]
<1>1. DOMAIN Sorted = 1..Len(Sorted)
  BY CatalogueAssumption
<1> QED
  BY <1>1 DEF Generated, FoldLeft, MapThenFoldSet, Folds

LEMMA FoldsNext ==
  ASSUME NEW family, NEW n \in Nat, NEW g, Folds(g, family, n)
  PROVE  \E h : Folds(h, family, n + 1)
<1> DEFINE h == [s \in SUBSET (1..n+1) |->
                   IF s \in SUBSET (1..n) THEN g[s]
                   ELSE AddGenerated(family, g[s \ {n+1}], Sorted[n+1])]
<1>1. ASSUME NEW s \in SUBSET (1..n+1)
      PROVE  h[s] = IF s = {} THEN NoneGenerated(family)
                    ELSE AddGenerated(family, h[s \ {Max(s)}], Sorted[Max(s)])
  <2>1. CASE s = {}
    <3>1. s \in SUBSET (1..n) /\ g[s] = NoneGenerated(family)
      BY <2>1 DEF Folds
    <3> QED
      BY <2>1, <3>1
  <2>2. CASE s # {} /\ s \in SUBSET (1..n)
    <3>1. s \ {Max(s)} \in SUBSET (1..n) /\ s \ {Max(s)} \in SUBSET (1..n+1)
      BY <2>2
    <3>2. h[s] = g[s] /\ h[s \ {Max(s)}] = g[s \ {Max(s)}]
      BY <2>2, <3>1
    <3>3. g[s] = AddGenerated(family, g[s \ {Max(s)}], Sorted[Max(s)])
      BY <2>2 DEF Folds
    <3> HIDE DEF h
    <3> QED
      BY <2>2, <3>2, <3>3
  <2>3. CASE s \notin SUBSET (1..n)
    <3>1. Max(s) = n + 1 /\ s \ {n+1} \in SUBSET (1..n) /\ s # {}
      BY <2>3, MaxOfNext
    <3>2. s \ {n+1} \in SUBSET (1..n+1)
      BY <3>1
    <3>3. h[s \ {n+1}] = g[s \ {n+1}] /\ h[s] = AddGenerated(family, g[s \ {n+1}], Sorted[n+1])
      BY <2>3, <3>1, <3>2
    <3> HIDE DEF h
    <3> QED
      BY <3>1, <3>3
  <2> QED
    BY <2>1, <2>2, <2>3
<1>2. h = [s \in SUBSET (1..n+1) |-> h[s]]
  OBVIOUS
<1>3. Folds(h, family, n + 1)
  <2> HIDE DEF h
  <2> QED
    BY <1>1, <1>2 DEF Folds
<1> QED
  BY <1>3

LEMMA FoldsExists ==
  ASSUME NEW family, NEW len \in Nat
  PROVE  \E g : Folds(g, family, len)
<1> DEFINE T == {n \in Nat : ~ \E g : Folds(g, family, n)}
<1>1. ASSUME T # {} PROVE FALSE
  <2>1. PICK n \in T : \A m \in T : n <= m
    BY <1>1, LeastNatural
  <2>2. CASE n = 0
    <3>1. \A s \in SUBSET (1..0) : s = {}
      OBVIOUS
    <3>2. Folds([s \in SUBSET (1..0) |-> NoneGenerated(family)], family, 0)
      BY <3>1 DEF Folds
    <3> QED
      BY <2>1, <2>2, <3>2
  <2>3. CASE n # 0
    <3>1. n - 1 \in Nat /\ n - 1 \notin T /\ (n - 1) + 1 = n
      BY <2>1, <2>3
    <3>2. PICK g : Folds(g, family, n - 1)
      BY <3>1
    <3>3. \E h : Folds(h, family, (n - 1) + 1)
      BY <3>1, <3>2, FoldsNext
    <3> QED
      BY <2>1, <3>1, <3>3
  <2> QED
    BY <2>2, <2>3
<1> QED
  BY <1>1

\* acc[k] is the accumulator after k rounds of the loop.
Rounds(acc, family) ==
  /\ acc[0] = NoneGenerated(family)
  /\ \A k \in 1..Len(Sorted) : acc[k] = AddGenerated(family, acc[k-1], Sorted[k])
  /\ Generated(family) = acc[Len(Sorted)]

LEMMA GeneratedInRounds ==
  ASSUME NEW family
  PROVE  \E acc : Rounds(acc, family)
<1>0. Len(Sorted) \in Nat
  BY CatalogueAssumption
<1>1. PICK g : g = CHOOSE h : Folds(h, family, Len(Sorted))
  OBVIOUS
<1>2. Folds(g, family, Len(Sorted))
  BY <1>0, <1>1, FoldsExists
<1> DEFINE acc == [k \in 0..Len(Sorted) |-> g[1..k]]
<1>3. acc[0] = NoneGenerated(family)
  <2>1. 1..0 = {} /\ 1..0 \in SUBSET (1..Len(Sorted))
    BY <1>0
  <2>2. g[1..0] = NoneGenerated(family)
    BY <1>2, <2>1 DEF Folds
  <2> QED
    BY <1>0, <2>2
<1>4. ASSUME NEW k \in 1..Len(Sorted)
      PROVE  acc[k] = AddGenerated(family, acc[k-1], Sorted[k])
  <2>1. k \in Nat /\ k - 1 \in Nat /\ 1..k \in SUBSET (1..Len(Sorted)) /\ 1..k # {}
    BY <1>0
  <2>2. 1..k \in SUBSET (1..((k-1)+1)) /\ 1..k \notin SUBSET (1..(k-1))
    BY <2>1
  <2>3. Max(1..k) = (k-1) + 1
    BY <2>1, <2>2, MaxOfNext
  <2>4. Max(1..k) = k /\ (1..k) \ {k} = 1..(k-1)
    BY <2>1, <2>3
  <2>5. g[1..k] = AddGenerated(family, g[1..(k-1)], Sorted[k])
    BY <1>2, <2>1, <2>4 DEF Folds
  <2>6. acc[k] = g[1..k] /\ acc[k-1] = g[1..(k-1)]
    BY <1>0, <2>1
  <2> QED
    BY <2>5, <2>6
<1>5. Generated(family) = acc[Len(Sorted)]
  BY <1>0, <1>1, GeneratedUnfolds
<1> HIDE DEF acc
<1> QED
  BY <1>3, <1>4, <1>5 DEF Rounds

\* The accumulator after k rounds: it holds tools with all the forms of their operation, one
\* for each operation met so far that the curated family does not cover.
RoundOK(a, family, k) ==
  /\ a \in [used : SUBSET ToolId, tools : Seq(Tool), clash : BOOLEAN]
  /\ \A i \in DOMAIN a.tools : a.tools[i].forms = sdk.forms[a.tools[i].op]
  /\ \A j \in 1..k :
       Sorted[j] \in Covered(family) \/ \E i \in DOMAIN a.tools : a.tools[i].op = Sorted[j]

LEMMA PrefixedId ==
  ASSUME NEW id \in ToolId
  PROVE  Prefixed(id) \in ToolId
BY DEF ToolId, Prefixed

LEMMA SdkToolType ==
  ASSUME sdk \in Sdk, NEW id \in ToolId, NEW op \in Ops
  PROVE  SdkTool(id, op) \in Tool /\ SdkTool(id, op).op = op /\ SdkTool(id, op).forms = sdk.forms[op]
BY DEF Sdk, SdkTool, Tool

LEMMA RoundStep ==
  ASSUME sdk \in Sdk, NEW family, NEW k \in 1..Len(Sorted), NEW a, RoundOK(a, family, k - 1)
  PROVE  RoundOK(AddGenerated(family, a, Sorted[k]), family, k)
<1>0. k \in Nat /\ 1..k = (1..(k-1)) \cup {k}
  BY CatalogueAssumption
<1>1. PICK op \in Ops : op = Sorted[k]
  BY CatalogueAssumption
<1>2. CASE op \in Covered(family) /\ Released[op] = None
  BY <1>0, <1>1, <1>2 DEF RoundOK, AddGenerated
<1>3. CASE ~(op \in Covered(family) /\ Released[op] = None)
  <2>1. PICK wanted : wanted = IF Released[op] = None THEN sdk.name[op] ELSE Released[op]
    OBVIOUS
  <2>2. wanted \in ToolId
    BY <2>1, CatalogueAssumption DEF Sdk
  <2>3. PICK id : id = IF wanted \in a.used THEN Prefixed(wanted) ELSE wanted
    OBVIOUS
  <2>4. id \in ToolId
    BY <2>2, <2>3, PrefixedId
  <2>5. PICK tool : tool = SdkTool(id, op)
    OBVIOUS
  <2>6. tool \in Tool /\ tool.op = op /\ tool.forms = sdk.forms[op]
    BY <2>4, <2>5, SdkToolType
  <2>7. PICK b : b = [used |-> a.used \cup {id}, tools |-> Append(a.tools, tool),
                      clash |-> a.clash \/ (wanted \in a.used /\ Released[op] # None)]
    OBVIOUS
  <2>8. b = AddGenerated(family, a, Sorted[k])
    BY <1>1, <1>3, <2>1, <2>3, <2>5, <2>7 DEF AddGenerated
  <2>9. a.used \in SUBSET ToolId /\ a.tools \in Seq(Tool)
    BY DEF RoundOK
  <2>10. b \in [used : SUBSET ToolId, tools : Seq(Tool), clash : BOOLEAN]
    BY <2>4, <2>6, <2>7, <2>9
  <2>11. PICK n \in Nat : n = Len(a.tools)
    BY <2>9
  <2>12. /\ DOMAIN b.tools = (DOMAIN a.tools) \cup {n + 1}
         /\ \A i \in DOMAIN a.tools : b.tools[i] = a.tools[i]
         /\ b.tools[n + 1] = tool
    BY <2>6, <2>7, <2>9, <2>11
  <2>13. \A i \in DOMAIN b.tools : b.tools[i].forms = sdk.forms[b.tools[i].op]
    BY <2>6, <2>12 DEF RoundOK
  <2>14. ASSUME NEW j \in 1..k
         PROVE  Sorted[j] \in Covered(family) \/ \E i \in DOMAIN b.tools : b.tools[i].op = Sorted[j]
    <3>1. CASE j = k
      BY <1>1, <2>6, <2>12, <3>1
    <3>2. CASE j \in 1..(k-1)
      BY <2>12, <3>2 DEF RoundOK
    <3> QED
      BY <1>0, <3>1, <3>2
  <2>15. RoundOK(b, family, k)
    BY <2>10, <2>13, <2>14 DEF RoundOK
  <2> QED
    BY <2>8, <2>15
<1> QED
  BY <1>2, <1>3

\* buildSdkGeneratedFamily makes whole tools, and one for every operation that no curated
\* tool covers.
LEMMA GeneratedOK ==
  ASSUME sdk \in Sdk, NEW family \in Seq(Tool)
  PROVE  RoundOK(Generated(family), family, Len(Sorted))
<1>0. PICK len \in Nat : len = Len(Sorted)
  BY CatalogueAssumption
<1>1. PICK acc : Rounds(acc, family)
  BY GeneratedInRounds
<1> DEFINE T == {k \in Nat : k <= len /\ ~RoundOK(acc[k], family, k)}
<1>2. RoundOK(acc[0], family, 0)
  <2>1. acc[0] = NoneGenerated(family)
    BY <1>1 DEF Rounds
  <2>a. \A i \in DOMAIN family : family[i] \in Tool
    OBVIOUS
  <2>2. \A i \in DOMAIN family : family[i].id \in ToolId
    BY <2>a DEF Tool
  <2>3. NoneGenerated(family) \in [used : SUBSET ToolId, tools : Seq(Tool), clash : BOOLEAN]
    BY <2>2 DEF NoneGenerated
  <2>4. DOMAIN NoneGenerated(family).tools = {} /\ 1..0 = {}
    BY DEF NoneGenerated
  <2> QED
    BY <2>1, <2>3, <2>4 DEF RoundOK
<1>3. ASSUME T # {} PROVE FALSE
  <2>1. PICK k \in T : \A m \in T : k <= m
    BY <1>3, LeastNatural
  <2>2. k # 0
    BY <1>2, <2>1
  <2>3. k - 1 \in Nat /\ k - 1 \notin T /\ k - 1 <= len /\ k \in 1..len
    BY <2>1, <2>2
  <2>4. RoundOK(acc[k-1], family, k - 1)
    BY <2>3
  <2>5. acc[k] = AddGenerated(family, acc[k-1], Sorted[k])
    BY <1>0, <1>1, <2>3 DEF Rounds
  <2>6. RoundOK(AddGenerated(family, acc[k-1], Sorted[k]), family, k)
    BY <1>0, <2>3, <2>4, RoundStep
  <2> QED
    BY <2>1, <2>5, <2>6
<1>4. RoundOK(acc[len], family, len)
  BY <1>3
<1> QED
  BY <1>0, <1>1, <1>4 DEF Rounds

-----------------------------------------------------------------------------
(* The tools of the catalogue *)

LEMMA VoidOperationType ==
  ASSUME NEW form
  PROVE  /\ VoidOperation(form) \in Ops \cup {None}
         /\ VoidOperation(form) # None => sdk.void[VoidOperation(form)] = form
<1> DEFINE void == {i \in DOMAIN Operations : sdk.void[Operations[i]] = form}
<1>1. DOMAIN Operations \subseteq Nat /\ \A i \in DOMAIN Operations : Operations[i] \in Ops
  BY CatalogueAssumption
<1>2. CASE void = {}
  BY <1>2 DEF VoidOperation
<1>3. CASE void # {}
  <2>1. void \subseteq Nat /\ void \subseteq DOMAIN Operations
    BY <1>1
  <2>2. Min(void) \in DOMAIN Operations /\ sdk.void[Operations[Min(void)]] = form
    <3>1. Min(void) \in void
      BY <1>3, <2>1, MinOfNaturals
    <3> QED
      BY <3>1
  <2>3. VoidOperation(form) = Operations[Min(void)]
    BY <1>3 DEF VoidOperation
  <2> QED
    BY <1>1, <2>2, <2>3
<1> QED
  BY <1>2, <1>3

LEMMA DeclaredType ==
  ASSUME sdk \in Sdk, NEW tool \in Tool
  PROVE  Declared(tool) \in Tool
<1>1. CASE tool.op = None
  BY <1>1 DEF Declared
<1>2. CASE tool.op # None
  <2>1. tool.id \in ToolId /\ tool.op \in Ops /\ tool.partial \in BOOLEAN
    BY <1>2 DEF Tool
  <2>2. PICK made \in Tool : made = SdkTool(tool.id, tool.op)
    BY <2>1, SdkToolType
  <2>3. [made EXCEPT !.partial = TRUE, !.args = tool.args, !.forms = @ \cap tool.forms] \in Tool
    BY <2>1, <2>2 DEF Tool
  <2> QED
    BY <1>2, <2>2, <2>3 DEF Declared
<1> QED
  BY <1>1, <1>2

LEMMA LinkedType ==
  ASSUME NEW tool \in Tool
  PROVE  Linked(tool) \in Tool
<1>1. PICK op \in Ops \cup {None} : op = VoidOperation(CHOOSE form \in tool.forms : TRUE)
  BY VoidOperationType
<1>2. [tool EXCEPT !.op = op] \in Tool
  BY DEF Tool
<1> QED
  BY <1>1, <1>2 DEF Linked

LEMMA LinkedCuratedType ==
  ASSUME sdk \in Sdk, curated \in Seq(Tool)
  PROVE  LinkedCurated \in Seq(Tool)
<1>1. \A i \in DOMAIN curated : Linked(Declared(curated[i])) \in Tool
  <2> SUFFICES ASSUME NEW i \in DOMAIN curated PROVE Linked(Declared(curated[i])) \in Tool
    OBVIOUS
  <2>1. PICK tool \in Tool : tool = curated[i]
    OBVIOUS
  <2>2. PICK declared \in Tool : declared = Declared(tool)
    BY DeclaredType
  <2> QED
    BY <2>1, <2>2, LinkedType
<1>2. PICK n \in Nat : n = Len(curated) /\ DOMAIN curated = 1..n
  OBVIOUS
<1>3. LinkedCurated \in [1..n -> Tool]
  BY <1>1, <1>2 DEF LinkedCurated
<1> QED
  BY <1>2, <1>3

\* The tier of a tool is one of three; with it the tool is an entry of the catalogue.
LEMMA WithPolicyType ==
  ASSUME NEW tool \in Tool
  PROVE  /\ WithPolicy(tool) \in Entry
         /\ WithPolicy(tool).tool = tool /\ WithPolicy(tool).confirm = Tier(tool)
<1>1. Tier(tool) \in {"auto", "confirm", "dual"}
  BY DEF Tier
<1> QED
  BY <1>1 DEF WithPolicy, Entry

\* A curated tool that covers an operation has all its forms, or was linked to it by the
\* line that no input gives.
Offers(tool, op, form) == tool.op = op /\ form \in tool.forms
Reaches(some, op) ==
  \A form \in sdk.forms[op] :
    \/ LinkedByLine(op) /\ form # sdk.void[op]
    \/ \E i \in DOMAIN some : Offers(some[i], op, form)

LEMMA CuratedReaches ==
  ASSUME sdk \in Sdk, curated \in Seq(Tool), NEW op \in Ops, op \in Covered(LinkedCurated)
  PROVE  Reaches(LinkedCurated, op)
<1>1. PICK i \in DOMAIN curated : LinkedCurated[i].op = op /\ ~LinkedCurated[i].partial
  BY DEF Covered, LinkedCurated
<1>2. PICK tool \in Tool : tool = curated[i]
  OBVIOUS
<1>3. i \in DOMAIN LinkedCurated /\ LinkedCurated[i] = Linked(Declared(tool)) /\ op # None
  BY <1>2, CatalogueAssumption DEF LinkedCurated
<1>4. CASE tool.op = None
  <2>1. Declared(tool) = tool
    BY <1>4 DEF Declared
  <2>2. PICK form : form = CHOOSE f \in tool.forms : TRUE
    OBVIOUS
  <2>3. /\ ~Unrenderable(tool) /\ tool.args = "none"
        /\ LinkedCurated[i] = [tool EXCEPT !.op = VoidOperation(form)]
    BY <1>1, <1>3, <1>4, <2>1, <2>2 DEF Linked
  <2>4. form \in tool.forms
    BY <2>2, <2>3 DEF Unrenderable
  <2>5. LinkedCurated[i].forms = tool.forms /\ VoidOperation(form) = op
    BY <1>1, <1>2, <2>3 DEF Tool
  <2>6. sdk.void[op] = form
    BY <1>3, <2>5, VoidOperationType
  <2>7. LinkedByLine(op)
    BY <1>1, <1>2, <1>4 DEF LinkedByLine
  <2> QED
    BY <1>1, <1>3, <2>4, <2>5, <2>6, <2>7 DEF Reaches, Offers
<1>5. CASE tool.op # None
  <2>1. PICK declared \in Tool : declared = Declared(tool)
    BY DeclaredType
  <2>2. tool.id \in ToolId /\ tool.op \in Ops
    BY <1>5 DEF Tool
  <2>3. PICK made \in Tool : made = SdkTool(tool.id, tool.op) /\ made.op = tool.op
                             /\ made.forms = sdk.forms[tool.op]
    BY <2>2, SdkToolType
  <2>4. declared = IF tool.partial
                   THEN [made EXCEPT !.partial = TRUE, !.args = tool.args, !.forms = @ \cap tool.forms]
                   ELSE made
    BY <1>5, <2>1, <2>3 DEF Declared
  <2>5. declared.op = tool.op /\ (tool.partial => declared.partial)
    BY <2>3, <2>4 DEF Tool
  <2>6. LinkedCurated[i] = declared
    BY <1>3, <1>5, <2>1, <2>5 DEF Linked
  <2>7. LinkedCurated[i] = made /\ op = tool.op
    BY <1>1, <2>4, <2>5, <2>6
  <2> QED
    BY <1>1, <1>3, <2>3, <2>7 DEF Reaches, Offers
<1> QED
  BY <1>4, <1>5

\* Every form of an operation has a tool: of a curated one that covers it, or a generated one.
LEMMA AllToolsOK ==
  ASSUME sdk \in Sdk, curated \in Seq(Tool), NEW family \in Seq(Tool), family = LinkedCurated,
         NEW generated, generated = Generated(family).tools, NEW all, all = family \o generated
  PROVE  /\ all \in Seq(Tool)
         /\ \A op \in Ops : Reaches(all, op)
<1>1. /\ generated \in Seq(Tool)
      /\ \A i \in DOMAIN generated : generated[i].forms = sdk.forms[generated[i].op]
      /\ \A j \in 1..Len(Sorted) :
           Sorted[j] \in Covered(family) \/ \E i \in DOMAIN generated : generated[i].op = Sorted[j]
  BY GeneratedOK DEF RoundOK
<1>2. PICK n \in Nat : n = Len(family) /\ DOMAIN family = 1..n
  OBVIOUS
<1>3. PICK m \in Nat : m = Len(generated) /\ DOMAIN generated = 1..m
  BY <1>1
<1>4. /\ all \in Seq(Tool) /\ DOMAIN all = 1..(n+m)
      /\ \A i \in 1..n : all[i] = family[i]
      /\ \A i \in 1..m : all[n+i] = generated[i]
  BY <1>1, <1>2, <1>3
<1>5. ASSUME NEW op \in Ops
      PROVE  Reaches(all, op)
  <2>1. PICK j \in 1..Len(Sorted) : Sorted[j] = op
    BY CatalogueAssumption DEF ToSet
  <2>2. CASE op \in Covered(family)
    <3>1. Reaches(family, op)
      BY <2>2, CuratedReaches
    <3>2. \A i \in DOMAIN family : i \in DOMAIN all /\ all[i] = family[i]
      BY <1>2, <1>4
    <3> QED
      BY <3>1, <3>2 DEF Reaches
  <2>3. CASE \E i \in DOMAIN generated : generated[i].op = op
    <3>1. PICK i \in DOMAIN generated : generated[i].op = op
      BY <2>3
    <3>2. n + i \in DOMAIN all /\ all[n+i] = generated[i]
      BY <1>2, <1>3, <1>4
    <3>3. \A form \in sdk.forms[op] : Offers(all[n+i], op, form)
      BY <1>1, <3>1, <3>2 DEF Offers
    <3> QED
      BY <3>2, <3>3 DEF Reaches
  <2> QED
    BY <1>1, <2>1, <2>2, <2>3
<1> QED
  BY <1>4, <1>5

-----------------------------------------------------------------------------
(* The invariant holds initially and is preserved *)

LEMMA InitOK == Init => CatalogueInv
<1> SUFFICES ASSUME Init PROVE CatalogueInv
  OBVIOUS
<1>1. sdk \in Sdk /\ curated \in Seq(Tool) /\ env \in Env
  BY CatalogueAssumption DEF Init
<1>2. /\ catalogue = <<>> /\ tools = {} /\ stage = "start" /\ calls = {}
      /\ catalogue \in Seq(Entry) /\ DOMAIN catalogue = {}
  BY DEF Init
<1>3. CatalogueTypeOK
  BY <1>1, <1>2 DEF CatalogueTypeOK, Stages
<1> QED
  BY <1>2, <1>3 DEF CatalogueInv, EntriesOK, OffersOK, CallsOK, EveryOperationHasTool

\* Links are made of the SDK and the curated registry only.
LEMMA LinksKept ==
  ASSUME UNCHANGED <<sdk, curated>>, NEW op
  PROVE  LinkedByLine(op)' <=> LinkedByLine(op)
BY DEF LinkedByLine, LinkedCurated, Linked, Declared, SdkTool, VoidOperation

\* What the invariant says of the tools depends on nothing else, but that they are loaded.
LEMMA EntriesKept ==
  ASSUME EntriesOK, UNCHANGED <<sdk, curated, catalogue>>,
         stage' = stage \/ stage' = "failed" \/ stage \in {"loaded", "configured"}
  PROVE  EntriesOK'
<1>1. \A op \in Ops : LinkedByLine(op)' <=> LinkedByLine(op)
  BY LinksKept
<1>2. EveryOperationHasTool'
  BY <1>1 DEF EntriesOK, EveryOperationHasTool
<1> QED
  BY <1>2 DEF EntriesOK, Tier, Inexpandable, Unrenderable

LEMMA OffersKept ==
  ASSUME OffersOK, UNCHANGED <<env, tools, stage>>
  PROVE  OffersOK'
<1>1. ASSUME NEW entry \in tools PROVE Enabled(entry)'
  <2>1. Enabled(entry)
    BY DEF OffersOK
  <2> QED
    BY <2>1 DEF Enabled, Exposed
<1> QED
  BY <1>1 DEF OffersOK

LEMMA LoadStep ==
  ASSUME CatalogueInv, Load
  PROVE  CatalogueInv'
<1>0. /\ sdk \in Sdk /\ curated \in Seq(Tool) /\ env \in Env /\ stage = "start"
      /\ calls = {} /\ tools = {}
      /\ UNCHANGED <<sdk, curated, env, tools, calls>>
  BY DEF CatalogueInv, CatalogueTypeOK, Load, CallsOK, OffersOK
<1>1. PICK family \in Seq(Tool) : family = LinkedCurated
  BY <1>0, LinkedCuratedType
<1>2. PICK all : all = family \o Generated(family).tools
  OBVIOUS
<1>3. /\ all \in Seq(Tool)
      /\ \A op \in Ops : Reaches(all, op)
  BY <1>0, <1>1, <1>2, AllToolsOK
<1>4. CASE stage' = "failed" /\ UNCHANGED catalogue
  BY <1>0, <1>4, EntriesKept DEF CatalogueInv, CatalogueTypeOK, Stages, OffersOK, CallsOK
<1>5. CASE /\ ~ \E i \in DOMAIN all : Inexpandable(all[i])
           /\ stage' = "loaded"
           /\ catalogue' = [i \in DOMAIN all |-> WithPolicy(all[i])]
  <2>1. PICK c : c = [i \in DOMAIN all |-> WithPolicy(all[i])]
    OBVIOUS
  <2>2. ASSUME NEW i \in DOMAIN all
        PROVE  /\ c[i] \in Entry /\ c[i].tool = all[i] /\ c[i].confirm = Tier(all[i])
    <3>1. PICK tool \in Tool : tool = all[i]
      BY <1>3
    <3> QED
      BY <2>1, <3>1, WithPolicyType
  <2>3. c \in Seq(Entry) /\ DOMAIN c = DOMAIN all
    <3>1. PICK n \in Nat : DOMAIN all = 1..n
      BY <1>3
    <3>2. c \in [1..n -> Entry]
      BY <2>1, <2>2, <3>1
    <3> QED
      BY <3>1, <3>2
  <2>4. catalogue' = c
    BY <1>5, <2>1
  <2>5. \A i \in DOMAIN c : ~Inexpandable(c[i].tool) /\ c[i].confirm = Tier(c[i].tool)
    BY <1>5, <2>2, <2>3
  <2>6. \A op \in Ops : \A form \in sdk.forms[op] :
          \/ LinkedByLine(op) /\ form # sdk.void[op]
          \/ \E i \in DOMAIN c : c[i].tool.op = op /\ form \in c[i].tool.forms
    BY <1>3, <2>2, <2>3 DEF Reaches, Offers
  <2>7. CatalogueTypeOK'
    BY <1>0, <1>5, <2>3, <2>4 DEF CatalogueTypeOK, Stages
  <2>8. EveryOperationHasTool'
    <3>1. \A op \in Ops : LinkedByLine(op)' <=> LinkedByLine(op)
      BY <1>0, LinksKept
    <3> QED
      BY <1>0, <2>4, <2>6, <3>1 DEF EveryOperationHasTool
  <2>9. EntriesOK'
    BY <1>0, <2>4, <2>5, <2>8 DEF EntriesOK, Tier, Inexpandable, Unrenderable
  <2> QED
    BY <1>0, <1>5, <2>7, <2>9 DEF CatalogueInv, OffersOK, CallsOK
<1>6. \/ stage' = "failed" /\ UNCHANGED catalogue
      \/ /\ ~ \E i \in DOMAIN all : Inexpandable(all[i])
         /\ stage' = "loaded"
         /\ catalogue' = [i \in DOMAIN all |-> WithPolicy(all[i])]
  BY <1>1, <1>2 DEF Load
<1> QED
  BY <1>4, <1>5, <1>6

LEMMA ConfigureStep ==
  ASSUME CatalogueInv, Configure
  PROVE  CatalogueInv'
<1>1. /\ UNCHANGED <<sdk, curated, env, catalogue, tools, calls>>
      /\ stage = "loaded" /\ stage' \in {"configured", "failed"}
      /\ stage' = "configured" => env.readOnly \/ env.key
      /\ calls = {} /\ tools = {}
  BY DEF Configure, CatalogueInv, CallsOK, OffersOK
<1>2. CatalogueTypeOK'
  BY <1>1 DEF CatalogueInv, CatalogueTypeOK, Stages
<1>3. EntriesOK'
  BY <1>1, EntriesKept DEF CatalogueInv
<1> QED
  BY <1>1, <1>2, <1>3 DEF CatalogueInv, OffersOK, CallsOK

LEMMA RegisterStep ==
  ASSUME CatalogueInv, Register
  PROVE  CatalogueInv'
<1>0. /\ UNCHANGED <<sdk, curated, env, catalogue, calls>>
      /\ stage = "configured" /\ calls = {} /\ tools = {}
      /\ env.readOnly \/ env.key
  BY DEF Register, CatalogueInv, CallsOK, OffersOK
<1>1. EntriesOK' /\ CallsOK'
  <2>1. stage' \in {"failed", "serving"}
    BY DEF Register
  <2> QED
    BY <1>0, <2>1, EntriesKept DEF CatalogueInv, CallsOK
<1>2. CASE stage' = "failed" /\ UNCHANGED tools
  <2>1. CatalogueTypeOK'
    BY <1>0, <1>2 DEF CatalogueInv, CatalogueTypeOK, Stages
  <2> QED
    BY <1>0, <1>1, <1>2, <2>1 DEF CatalogueInv, OffersOK
<1>a. PICK enabled : enabled = {i \in DOMAIN catalogue : Enabled(catalogue[i])}
  OBVIOUS
<1>3. CASE /\ \A i, j \in enabled : catalogue[i].tool.id = catalogue[j].tool.id => i = j
           /\ stage' = "serving" /\ tools' = {catalogue[i] : i \in enabled}
  <2>1. \A e, f \in tools' : e.tool.id = f.tool.id => e = f
    BY <1>3
  <2>2. tools' \subseteq {catalogue[i] : i \in DOMAIN catalogue}
    BY <1>a, <1>3
  <2>3. CatalogueTypeOK'
    BY <1>0, <1>3, <2>1, <2>2 DEF CatalogueInv, CatalogueTypeOK, Stages
  <2>4. OffersOK'
    BY <1>0, <1>a, <1>3 DEF OffersOK, Enabled, Exposed
  <2> QED
    BY <1>1, <2>3, <2>4 DEF CatalogueInv
<1> QED
  BY <1>a, <1>2, <1>3 DEF Register

LEMMA CallStep ==
  ASSUME CatalogueInv, NEW entry \in tools, NEW form \in entry.tool.forms,
         NEW acknowledge \in BOOLEAN, Call(entry, form, acknowledge)
  PROVE  CatalogueInv'
<1>0. /\ UNCHANGED <<sdk, curated, env, catalogue, tools, stage>> /\ stage = "serving"
  BY DEF Call
<1>1. PICK sent : sent = IF entry.tool.kind = "read" THEN ReadRuns(entry.tool, form)
                         ELSE WriteRuns(entry, form, acknowledge)
  OBVIOUS
<1>2. PICK call : call = [entry |-> entry, form |-> form, acknowledge |-> acknowledge,
                          sent |-> sent]
  OBVIOUS
<1>3. calls' = {call}
  BY <1>1, <1>2 DEF Call
<1>4. sent \in BOOLEAN
  BY <1>1 DEF ReadRuns, WriteRuns
<1>5. form \in Forms
  <2>1. entry \in Entry
    BY DEF CatalogueInv, CatalogueTypeOK
  <2> QED
    BY <2>1 DEF Entry, Tool
<1>6. CatalogueTypeOK'
  BY <1>0, <1>2, <1>3, <1>4, <1>5 DEF CatalogueInv, CatalogueTypeOK
<1>7. EntriesOK' /\ OffersOK'
  BY <1>0, EntriesKept, OffersKept DEF CatalogueInv
<1>8. CallsOK'
  BY <1>0, <1>1, <1>2, <1>3 DEF CallsOK, ReadRuns, WriteRuns, ReadExact, ReadCommands
<1> QED
  BY <1>6, <1>7, <1>8 DEF CatalogueInv

LEMMA CatalogueStep == CatalogueInv /\ [Next]_vars => CatalogueInv'
<1> SUFFICES ASSUME CatalogueInv, [Next]_vars PROVE CatalogueInv'
  OBVIOUS
<1>1. CASE UNCHANGED vars
  <2>1. EntriesOK' /\ OffersOK'
    BY <1>1, EntriesKept, OffersKept DEF vars, CatalogueInv
  <2>2. CatalogueTypeOK'
    BY <1>1 DEF vars, CatalogueInv, CatalogueTypeOK
  <2>3. CallsOK'
    <3>1. UNCHANGED <<ReadExact, sdk, env, calls, stage>>
      BY <1>1 DEF vars, ReadExact, ReadCommands
    <3> QED
      BY <3>1 DEF CatalogueInv, CallsOK, ReadRuns, WriteRuns
  <2> QED
    BY <2>1, <2>2, <2>3 DEF CatalogueInv
<1> QED
  BY <1>1, LoadStep, ConfigureStep, RegisterStep, CallStep DEF Next

-----------------------------------------------------------------------------
(* Theorems *)

\* In every behaviour the inductive invariant holds: what the loader made of the tools,
\* what the configuration lets through, and the outcome of every call.
THEOREM CatalogueCorrect == Spec => []CatalogueInv
<1>1. Init => CatalogueInv
  BY InitOK
<1>2. CatalogueInv /\ [Next]_vars => CatalogueInv'
  BY CatalogueStep
<1> QED
  BY <1>1, <1>2, PTL DEF Spec

\* The catalogue holds tools with a tier of their policy, what is registered comes from it,
\* and one id never names two registered tools (registerAllTools).
THEOREM CatalogueTypeCorrect == Spec => []CatalogueTypeOK
BY CatalogueCorrect, PTL DEF CatalogueInv

\* Every line an operation of the SDK can give is a form of one of its tools once the
\* modules are loaded: buildSdkGeneratedFamily, a loop over the operations, adds a tool
\* wherever no curated tool covers the operation, whatever names are taken.  Excepted are
\* the further lines of an operation that attachSdkVoidBindings has linked a tool to.
THEOREM OperationsHaveTools == Spec => []EveryOperationHasTool
BY CatalogueCorrect, PTL DEF CatalogueInv, EntriesOK

\* What runs as a read is an operation classified as one, and a destructive operation never
\* runs without an acknowledgement: runOperation checks the class, and resolveConfirmTier
\* gave the tool its tier from the class of the same operation.
THEOREM WritesApproved == Spec => []WritesAreApproved
<1>1. CatalogueInv => WritesAreApproved
  <2> SUFFICES ASSUME CatalogueInv, NEW call \in calls, call.sent, call.entry.tool.op # None
               PROVE  /\ call.entry.tool.kind = "read" => sdk.class[call.entry.tool.op] = "read"
                      /\ sdk.class[call.entry.tool.op] = "destructive" => call.acknowledge
    BY DEF WritesAreApproved
  <2>1. PICK entry \in tools : entry = call.entry
    BY DEF CatalogueInv, CatalogueTypeOK
  <2>2. entry.confirm = Tier(entry.tool)
    BY DEF CatalogueInv, CatalogueTypeOK, EntriesOK
  <2>3. CASE entry.tool.kind = "read"
    <3>1. ReadRuns(entry.tool, call.form)
      BY <2>1, <2>3 DEF CatalogueInv, CallsOK
    <3> QED
      BY <2>1, <2>3, <3>1 DEF ReadRuns
  <2>4. CASE entry.tool.kind # "read"
    <3>1. WriteRuns(entry, call.form, call.acknowledge)
      BY <2>1, <2>4 DEF CatalogueInv, CallsOK
    <3>2. sdk.class[entry.tool.op] = "destructive" => entry.confirm = "dual"
      BY <2>1, <2>2, <2>4 DEF Tier
    <3> QED
      BY <2>1, <2>4, <3>1, <3>2 DEF WriteRuns
  <2> QED
    BY <2>3, <2>4
<1> QED
  BY <1>1, CatalogueCorrect, PTL

\* Whatever is offered works when it is called: the allowlist of the client, built from the
\* registry on its own (READ_EXACT, HOST_ARG_MATCHERS), has the command line of every read
\* that has no operation, and no write is offered without a key that could release it.
THEOREM OfferedToolsRun == Spec => []ToolsRun
<1>1. CatalogueInv => ToolsRun
  <2> SUFFICES ASSUME CatalogueInv, NEW call \in calls, ~call.sent,
                      call.entry.tool.kind = "read" \/ call.acknowledge,
                      call.form \notin Forbidden
               PROVE  /\ call.entry.tool.op # None
                      /\ (call.entry.tool.kind = "read") # (sdk.class[call.entry.tool.op] = "read")
    BY DEF ToolsRun
  <2>1. PICK entry \in tools : entry = call.entry
    BY DEF CatalogueInv, CatalogueTypeOK
  <2>2. PICK i \in DOMAIN catalogue : entry = catalogue[i]
    BY DEF CatalogueInv, CatalogueTypeOK
  <2>3. /\ entry \in Entry /\ ~Inexpandable(entry.tool) /\ Enabled(entry)
        /\ env.readOnly \/ env.key
        /\ call.form \in entry.tool.forms
    <3>1. entry \in Entry
      BY <2>2 DEF CatalogueInv, CatalogueTypeOK
    <3>2. ~Inexpandable(entry.tool)
      BY <2>2 DEF CatalogueInv, EntriesOK
    <3>3. call.form \in entry.tool.forms /\ stage = "serving"
      BY <2>1 DEF CatalogueInv, CallsOK
    <3>4. Enabled(entry) /\ (env.readOnly \/ env.key)
      BY <3>3 DEF CatalogueInv, OffersOK
    <3> QED
      BY <3>1, <3>2, <3>3, <3>4
  <2>4. entry.tool.kind \in {"read", "write"}
    BY <2>3 DEF Entry, Tool
  <2>5. CASE entry.tool.kind = "read"
    <3>1. ~ReadRuns(entry.tool, call.form)
      BY <2>1, <2>5 DEF CatalogueInv, CallsOK
    <3>2. entry.tool.args # "free" => call.form \in ReadExact
      <4>1. entry.tool \in ReadCommands
        BY <2>2, <2>5 DEF ReadCommands
      <4> QED
        BY <2>3, <4>1 DEF ReadExact
    <3>3. entry.tool.op # None /\ sdk.class[entry.tool.op] # "read"
      BY <2>3, <2>5, <3>1, <3>2 DEF ReadRuns, Inexpandable
    <3> QED
      BY <2>1, <2>5, <3>3
  <2>6. CASE entry.tool.kind = "write"
    <3>1. ~WriteRuns(entry, call.form, call.acknowledge)
      BY <2>1, <2>6 DEF CatalogueInv, CallsOK
    <3>2. ~env.readOnly /\ env.key
      BY <2>3, <2>6 DEF Enabled
    <3>3. entry.tool.op # None /\ sdk.class[entry.tool.op] = "read"
      BY <2>1, <2>6, <3>1, <3>2 DEF WriteRuns
    <3> QED
      BY <2>1, <2>6, <3>3
  <2> QED
    BY <2>4, <2>5, <2>6
<1> QED
  BY <1>1, CatalogueCorrect, PTL
=============================================================================
