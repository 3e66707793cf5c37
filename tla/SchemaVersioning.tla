-------------------------- MODULE SchemaVersioning --------------------------
(***************************************************************************)
(* check_compatibility of packages/traits/src/schema_versioning.rs, which  *)
(* decides whether a collection's schema may be replaced in a minor        *)
(* release.  The schema declares one field; a document carries a value for *)
(* it or does not.  Minor releases follow one another, each checked only   *)
(* against the one before, while documents written earlier stay stored.    *)
(*                                                                         *)
(* A keyword that is absent is 0, NoType or {}.  A string's length and a   *)
(* number's magnitude are its size, so that `max` stands for maxLength and *)
(* maximum, which the code compares alike, and `min` for their opposites;  *)
(* a pattern or a format is the one string size it accepts.  The recursion *)
(* into nested objects and $defs applies the same comparison to their      *)
(* fields and is left out.                                                 *)
(***************************************************************************)
EXTENDS Naturals, FiniteSets

CONSTANTS
    Sizes,      \* the sizes of values
    MaxKeywords, \* bound on the keywords of a field
    NoType,     \* the field has no "type"
    NoField,    \* the schema does not declare the field; the document lacks it
    Unwritten   \* no document is stored yet

VARIABLES
    schema,     \* the schema of the latest release
    doc,        \* a document accepted by some release and kept
    unseen      \* history: a release made a change the comparison does not see

schemaVars == <<schema, doc, unseen>>

Texts == [kind : {"text"}, size : Sizes]
Values == [kind : {"text", "number"}, size : Sizes]

Plain == [type |-> NoType, max |-> 0, min |-> 0, pattern |-> 0, format |-> 0,
          enum |-> {}, default |-> 0]
Keywords(f) == {k \in DOMAIN f : f[k] # Plain[k]}
Field == {f \in [type : {"text", "number", NoType}, max : {0} \cup Sizes, min : {0} \cup Sizes,
                 pattern : {0} \cup Sizes, format : {0} \cup Sizes, enum : SUBSET Texts,
                 default : {0, 1}] :
             Cardinality(Keywords(f)) <= MaxKeywords}
Schema == [field : Field \cup {NoField}, required : BOOLEAN]

SchemaTypeOK ==
    /\ schema \in Schema
    /\ doc \in Values \cup {NoField, Unwritten}
    /\ unseen \in BOOLEAN

SchemaInit ==
    /\ schema \in Schema
    /\ doc = Unwritten
    /\ unseen = FALSE

-----------------------------------------------------------------------------
(* JSON Schema validation, a library.                                       *)
MeetsText(arg, v) == arg = 0 \/ v.kind # "text" \/ v.size = arg
FieldAccepts(f, v) ==
    /\ f.type \in {v.kind, NoType}
    /\ f.max = 0 \/ v.size <= f.max
    /\ v.size >= f.min
    /\ MeetsText(f.pattern, v) /\ MeetsText(f.format, v)
    /\ f.enum = {} \/ v \in f.enum

Valid(s, d) ==
    IF d = NoField THEN ~s.required
    ELSE s.field # NoField => FieldAccepts(s.field, d)

-----------------------------------------------------------------------------
(* The comparison: each is true when the code reports a breaking change.    *)

\* Mutant: only a constraint that both schemas have is compared.
TightenedIfBoth(old, new, tighter) == old # 0 /\ new # 0 /\ tighter
\* check_numeric_tightened: made tighter, or added.
Tightened(old, new, tighter) == new # 0 /\ (old = 0 \/ tighter)

\* A pattern added or changed; a format added (changing it is not compared).
ConstraintsTightened(old, new) ==
    \/ Tightened(old.max, new.max, new.max < old.max)
    \/ Tightened(old.min, new.min, new.min > old.min)
    \/ new.pattern # 0 /\ old.pattern # new.pattern
    \/ new.format # 0 /\ old.format = 0

\* Only an enum that the old schema has is compared.
EnumNarrowed(old, new) == old.enum # {} /\ ~(old.enum \subseteq new.enum)

DefaultChanged(old, new) == old.default # 0 /\ old.default # new.default

RequiredAdded(old, new) == new.required /\ ~old.required

\* compare_schemas: only fields the old schema declares are compared.
Breaking(old, new) ==
    \/ /\ old.field # NoField
       /\ \/ new.field = NoField
          \/ old.field.type # new.field.type
          \/ ConstraintsTightened(old.field, new.field)
          \/ DefaultChanged(old.field, new.field)
          \/ EnumNarrowed(old.field, new.field)
    \/ RequiredAdded(old, new)

check_compatibility(old, new) == ~Breaking(old, new)

\* The changes that can reject a document and that are not compared: an enum
\* imposed on a free field, a format replaced by another, and the declaration
\* of a field that the stored document already carries.
NotCompared(old, new) ==
    IF old.field = NoField THEN new.field # NoField /\ doc \in Values
    ELSE /\ new.field # NoField
         /\ \/ old.field.enum = {} /\ new.field.enum # {}
            \/ old.field.format # 0 /\ new.field.format \notin {0, old.field.format}

-----------------------------------------------------------------------------
\* A document is validated when it is written.
Write(d) ==
    /\ doc = Unwritten /\ Valid(schema, d)
    /\ doc' = d
    /\ UNCHANGED <<schema, unseen>>

\* A schema is replaced in a minor release when it is compatible with the one
\* before.
Release(new) ==
    /\ check_compatibility(schema, new)
    /\ schema' = new
    /\ unseen' = (unseen \/ NotCompared(schema, new))
    /\ UNCHANGED doc

\* The next schema declares the field, drops it, changes one of its keywords
\* (the code compares each on its own), or changes whether it is required.
Revisions(s) ==
    {[s EXCEPT !.required = r] : r \in BOOLEAN}
    \cup {[s EXCEPT !.field = f] : f \in
            IF s.field = NoField THEN Field
            ELSE {NoField} \cup {f \in Field : \E k \in DOMAIN f : f = [s.field EXCEPT ![k] = f[k]]}}

SchemaNext ==
    \/ \E d \in Values \cup {NoField} : Write(d)
    \/ \E new \in Revisions(schema) : Release(new)

SchemaSpec == SchemaInit /\ [][SchemaNext]_schemaVars
-----------------------------------------------------------------------------
(* What must hold *)

\* A document that some release accepted stays valid under every later one,
\* however many minor releases lie between: no chain of changes that
\* check_compatibility calls compatible one by one adds up to a breaking one.
\* The exceptions are the three changes it does not compare.
StoredStaysValid ==
    doc # Unwritten /\ ~unseen => Valid(schema, doc)
=============================================================================
