------------------------------ MODULE Redaction ------------------------------
(***************************************************************************)
(* Redaction of a rendered command and the re-entry of what was redacted   *)
(* (src/src/tools/redaction.ts, src/src/sdk/secret-fields.ts).             *)
(*                                                                         *)
(* A text is a sequence of symbols.  A placeholder is one symbol of its    *)
(* own, as the code never looks inside one.  JavaScript's String of an     *)
(* object is one text, whatever the object holds: it shows nothing of it.  *)
(***************************************************************************)
EXTENDS SchemaToZod

CONSTANTS
  SecretNames,    \* property names that match SECRET_FIELD
  StringOf(_),    \* String(value) of a number, a boolean, an array or an object
  Marker          \* a symbol for the text "<redacted:", reserved

Placeholder(field) == "<redacted:" \o field \o ">"

\* No text holds a placeholder: the marker stands for what begins one.
ASSUME RedactionAssumption ==
  /\ \A f \in Names : Placeholder(f) \notin Symbols
  /\ \A f, g \in Names : Placeholder(f) = Placeholder(g) => f = g

\* secretFieldsOf: the string properties with a secret name, depth first.
DeclaredGiven(declared, schema) ==
  LET own(p) == IF /\ p.key \in SecretNames
                   /\ Has(p.schema, "type") /\ p.schema.type = "string"
                THEN <<p.key>> ELSE <<>>
      ofProperties == [i \in DOMAIN Properties(schema) |->
                         LET p == Properties(schema)[i] IN own(p) \o declared[p.schema]]
      ofBranches == IF Has(schema, "oneOf")
                    THEN [i \in DOMAIN schema.oneOf |-> declared[schema.oneOf[i]]]
                    ELSE <<>>
  IN  FlattenSeq(ofProperties) \o FlattenSeq(ofBranches)
        \o (IF Has(schema, "items") THEN declared[schema.items] ELSE <<>>)
DeclaredOf[s \in Nodes] == DeclaredGiven(DeclaredOf, s)
DeclaredSecrets(schema) == DeclaredOf[schema]

-----------------------------------------------------------------------------

\* String(value), or the empty text for a value that the filter drops, as it does an empty one.
TextOf(value) ==
  CASE value.t = "string" -> value.str
    [] value.t = "undefined" -> <<>>
    [] OTHER -> StringOf(value)

\* text is in s after its first i symbols.
OccursAt(text, s, i) ==
  i + Len(text) <= Len(s) /\ \A j \in 1..Len(text) : s[i + j] = text[j]
Occurs(text, s) == \E i \in 0..Len(s) : OccursAt(text, s, i)

\* part.split(value).join(placeholder), from left to right: of the last n symbols of s, given
\* what becomes of fewer.
ReplaceGiven(rest, s, text, symbol, n) ==
  LET start == Len(s) - n
  IN  IF n = 0 THEN <<>>
      ELSE IF OccursAt(text, s, start) THEN <<symbol>> \o rest[n - Len(text)]
                                       ELSE <<s[start + 1]>> \o rest[n - 1]
ReplaceText(s, text, symbol) ==
  LET rest[n \in 0..Len(s)] == ReplaceGiven(rest, s, text, symbol, n)
  IN  rest[Len(s)]

\* Secrets are indices of secretArgs, which may repeat a name: the first index counts.  They
\* are looked up among the arguments of the call, at its top level: what an object or an
\* array holds is not.
SecretText(args, secretArgs, i) == TextOf(args[secretArgs[i]])
PresentSecrets(args, secretArgs) ==
  {i \in DOMAIN secretArgs :
     /\ SecretText(args, secretArgs, i) # <<>>
     /\ \A j \in 1..(i - 1) : secretArgs[j] # secretArgs[i]}

\* Mutant: the shortest secret goes first.
ShortestSecret(left, args, secretArgs) ==
  CHOOSE i \in left : \A j \in left :
    Len(SecretText(args, secretArgs, i)) <= Len(SecretText(args, secretArgs, j))

\* The sort by length is stable: of two secrets of one length the first listed goes first.
NextSecret(left, args, secretArgs) ==
  LET len(i) == Len(SecretText(args, secretArgs, i))
  IN  CHOOSE i \in left : \A j \in left : len(i) > len(j) \/ (len(i) = len(j) /\ i <= j)

\* One secret of those left is replaced; it is listed if the command holds it.
RedactRound(round, args, secretArgs) ==
  LET i == NextSecret(round.left, args, secretArgs)
      key == secretArgs[i]
      preview == ReplaceText(round.preview, SecretText(args, secretArgs, i), Placeholder(key))
  IN  [left |-> round.left \ {i},
       preview |-> preview,
       fields |-> IF preview = round.preview THEN round.fields ELSE Append(round.fields, key)]

RedactAll(command, args, secretArgs) ==
  LET present == PresentSecrets(args, secretArgs)
      round[n \in 0..Cardinality(present)] ==
        IF n = 0 THEN [left |-> present, preview |-> command, fields |-> <<>>]
                 ELSE RedactRound(round[n - 1], args, secretArgs)
  IN  round[Cardinality(present)]

RedactThrows(command) == Marker \in ToSet(command)

\* Mutant: every secret argument is asked for, in the command or not.
UnusedListed(command, args, secretArgs) ==
  [preview |-> RedactAll(command, args, secretArgs).preview, fields |-> secretArgs]

RedactCommand(command, args, secretArgs) ==
  LET last == RedactAll(command, args, secretArgs)
  IN  [preview |-> last.preview, fields |-> last.fields]

\* Mutant: the first occurrence of each placeholder only.
RestoreOnce(preview, values) ==
  FlattenSeq([i \in DOMAIN preview |->
    LET named == {f \in DOMAIN values : preview[i] = Placeholder(f)}
    IN  IF named = {} \/ \E j \in 1..(i - 1) : preview[j] = preview[i]
        THEN <<preview[i]>> ELSE values[CHOOSE f \in named : TRUE]])

\* All the fields at once, as no value holds a placeholder.
RestoreCommand(preview, values) ==
  FlattenSeq([i \in DOMAIN preview |->
    LET named == {f \in DOMAIN values : preview[i] = Placeholder(f)}
    IN  IF named = {} THEN <<preview[i]>> ELSE values[CHOOSE f \in named : TRUE]])

\* digestCommand is injective, so that equal digests are equal commands.
VerifyReentry(view, command, values) ==
  /\ ToSet(view.fields) \subseteq DOMAIN values
  /\ RestoreCommand(view.preview, values) = command
=============================================================================
