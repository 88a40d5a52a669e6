------------------------------- MODULE Schemas -------------------------------
(***************************************************************************)
(* The schema of a project's configuration (api/configtools.py): which     *)
(* schemas a save accepts, and what the rendering of a configuration notes *)
(* against the published one.                                              *)
(*                                                                         *)
(* A schema is a list of fields.  Values are of four types; an enum has    *)
(* options, which are compared as text, so that the numeral 1 is one of    *)
(* the options "1".  True counts as a number.                              *)
(***************************************************************************)
EXTENDS Integers, FiniteSets, Sequences

CONSTANTS
    Paths,        \* the paths fields may have, "" among them
    OptionSets,   \* the options of enums: sets of texts, or NoOptions
    MaxFields     \* bound: fields of a schema

NoOptions == {"no options"}
FieldTypes == {"string", "number", "boolean", "enum", "secret-ref", "connector-ref"}
Field ==
    [path : Paths, type : FieldTypes \cup {"float"}, options : {NoOptions}, required : BOOLEAN, open : {FALSE}]
    \cup [path : Paths, type : {"enum"}, options : OptionSets, required : BOOLEAN, open : BOOLEAN]
ASSUME SchemasAssumption == MaxFields \in Nat /\ \A o \in OptionSets : IsFiniteSet(o)

\* A value: its type, and how it prints.
Value(type, text) == [type |-> type, text |-> text]
Nil == Value("none", "")
Values ==
    {Nil, Value("str", ""), Value("str", "text"), Value("int", "1"), Value("bool", "True")}
    \cup {Value("str", o) : o \in UNION OptionSets}

VARIABLES
    schema,      \* the fields of the schema a request saves and publishes
    accepted,    \* the answer: whether it was saved
    rendered     \* the configuration that is written out, by path, and the notes
schemaVars == <<schema, accepted, rendered>>
SchemasInit == schema = <<>> /\ accepted = "unasked" /\ rendered = [config |-> <<>>, notes |-> <<>>]

\* Mutant of Refused: two fields may have one path.
RefusedSingly(fields, i) ==
    LET f == fields[i] IN
    \/ f.path = "" \/ f.type \notin FieldTypes
    \/ f.type = "enum" /\ f.options \in {NoOptions, {}} /\ ~f.open

\* _validate_schema, field by field: no path, one seen before, no such type, an enum to be chosen from nothing.
Refused(fields, i) ==
    LET f == fields[i] IN
    \/ f.path = "" \/ f.type \notin FieldTypes
    \/ \E j \in 1 .. i - 1 : fields[j].path = f.path
    \/ f.type = "enum" /\ f.options \in {NoOptions, {}} /\ ~f.open

\* save_ruleset: refused with the first field that is.
SaveSchema(fields) ==
    /\ accepted = "unasked"
    /\ schema' = fields
    /\ accepted' = IF \E i \in DOMAIN fields : Refused(fields, i) THEN "refused" ELSE "saved"
    /\ UNCHANGED rendered

IsUnset(v) == v = Nil \/ (v.type = "str" /\ v.text = "")
Mistyped(f, v) ==
    \/ f.type = "number" /\ v.type \notin {"int", "bool"}
    \/ f.type = "boolean" /\ v.type # "bool"
    \/ f.type = "enum" /\ f.options \notin {NoOptions, {}} /\ v.text \notin f.options

\* _schema_notes: at most one note on a field; they are listed as the fields are.
NoteOf(f, v) ==
    IF IsUnset(v) THEN IF f.required THEN "required" ELSE ""
    ELSE IF Mistyped(f, v) THEN "type" ELSE ""
Notes(fields, config) ==
    LET note(i) == NoteOf(fields[i], config[fields[i].path]) IN
    [i \in {j \in DOMAIN fields : note(j) # ""} |-> <<fields[i].path, note(i)>>]

Render(config) ==
    /\ accepted = "saved"
    /\ rendered' = [config |-> config, notes |-> Notes(schema, config)]
    /\ accepted' = "rendered"
    /\ UNCHANGED schema

Configurations == [{schema[i].path : i \in DOMAIN schema} -> Values]
SchemasNext ==
    \/ \E n \in 0 .. MaxFields : \E fields \in [1 .. n -> Field] : SaveSchema(fields)
    \/ \E config \in Configurations : Render(config)
SchemasSpec == SchemasInit /\ [][SchemasNext]_schemaVars

-----------------------------------------------------------------------------
(***************************************************************************)
(* A schema that is accepted can be met: some configuration has no notes,  *)
(* unless all an enum offers for a required field is the empty text, which *)
(* counts as unset.                                                        *)
(***************************************************************************)
AcceptedSchemasCanBeMet ==
    accepted = "saved" =>
        \/ \E config \in Configurations : DOMAIN Notes(schema, config) = {}
        \/ \E i \in DOMAIN schema : schema[i].required /\ schema[i].options = {""}

(***************************************************************************)
(* Notes do not depend on the order of the fields, and what need not be    *)
(* set may be left out: a configuration without any values has notes on    *)
(* the required fields and on no others, one on each.                      *)
(***************************************************************************)
EmptyConfigurationsLackTheRequired ==
    accepted = "rendered" /\ (\A p \in DOMAIN rendered.config : IsUnset(rendered.config[p])) =>
        LET notes == rendered.notes IN
        /\ {notes[i] : i \in DOMAIN notes} = {<<schema[i].path, "required">> : i \in {j \in DOMAIN schema : schema[j].required}}
        /\ \A i, j \in DOMAIN notes : notes[i] = notes[j] => i = j

(***************************************************************************)
(* A schema asks for what it requires and for nothing that cannot be       *)
(* given.                                                                  *)
(***************************************************************************)
SchemasAreFair == AcceptedSchemasCanBeMet /\ EmptyConfigurationsLackTheRequired
=============================================================================
