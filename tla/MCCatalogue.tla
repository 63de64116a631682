----------------------------- MODULE MCCatalogue -----------------------------
(***************************************************************************)
(* Small instances of Catalogue for TLC: two operations, up to two curated *)
(* tools, three command lines, one of them forbidden.                      *)
(***************************************************************************)
EXTENDS Catalogue

CONSTANTS o1, o2, n1, n2, show, more, halt

Plain == {[base |-> n, sdk |-> FALSE] : n \in {n1, n2}}
Id1 == [base |-> n1, sdk |-> FALSE]
Id2 == [base |-> n2, sdk |-> FALSE]

MCOperations == <<o1, o2>>
MCSorted == <<o2, o1>>
MCReleased == [op \in Ops |-> IF op = o2 THEN Id2 ELSE None]
MCDual == {Id2}

\* An operation without input, one that needs input, and one that can do with or without.
Plainly(form) == [forms |-> {form}, args |-> "none", void |-> form]
Needing(form) == [forms |-> {form}, args |-> "free", void |-> None]
Optional == [forms |-> {show, more}, args |-> "free", void |-> show]

MCSdks ==
  {[class |-> class, name |-> name,
    forms |-> [op \in {o1, o2} |-> shape[op].forms],
    args |-> [op \in {o1, o2} |-> shape[op].args],
    void |-> [op \in {o1, o2} |-> shape[op].void]] :
   class \in [{o1, o2} -> {"read", "write", "destructive"}],
   name \in [{o1, o2} -> Plain],
   shape \in {[op \in {o1, o2} |-> IF op = o1 THEN a ELSE b] :
                a \in {Plainly(show), Plainly(halt), Needing(show), Needing(halt), Optional},
                b \in {Plainly(show), Plainly(halt)}}}

MCTools ==
  [id : {Id1}, kind : {"read", "write"}, args : {"none", "enum", "free"},
   forms : {{show}, {}}, op : {None}, partial : {FALSE}]
  \cup
  [id : {Id1}, kind : {"write"}, args : {"none"}, forms : {{show}}, op : {o1},
   partial : BOOLEAN]

\* A curated tool whose id has the prefix of a generated one.
Lookalike ==
  [id |-> Prefixed(Id1), kind |-> "read", args |-> "none", forms |-> {show}, op |-> None,
   partial |-> FALSE]

MCCurations ==
  {<<>>} \cup {<<tool>> : tool \in MCTools}
  \cup {<<tool, Lookalike>> : tool \in {t \in MCTools : t.args = "free" /\ t.kind = "write"}}

MCEnvs ==
  [readOnly : BOOLEAN, key : BOOLEAN, verified : {TRUE}, expose : {"", "all"},
   ids : {{}}, disabled : {{}}]
  \cup
  [readOnly : {FALSE}, key : BOOLEAN, verified : BOOLEAN, expose : {"readonly", "list"},
   ids : {{Id1}}, disabled : {{}, {Id2}}]
=============================================================================
