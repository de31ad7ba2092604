------------------------------ MODULE Loading ------------------------------
(***************************************************************************)
(* P4Objects::init_objects: one pass over the sections of a JSON input, in *)
(* a fixed order, that makes the objects of a configuration and links each *)
(* to the objects it names.  A name is looked up with at() in a map that   *)
(* earlier sections filled: it throws when the name is not there (yet).    *)
(* Some checks return 1, and then the objects made so far stay.            *)
(*                                                                         *)
(* An item of a section keeps what it refers to:                           *)
(*   name    what is made                                                  *)
(*   at      objects named, as <<section, name>>                           *)
(*   direct  fields found with get_header_id and get_field_offset          *)
(*   info    fields found with field_info, which follows aliases           *)
(*   expr    fields an expression of the item reads                        *)
(*   nodes   control flow nodes named                                      *)
(*   bad     a check of the item returns 1                                 *)
(* The last two sections, checks of the target's fields, are one item each.*)
(* A field is <<header, field>>.  Arithmetic is off for every field but    *)
(* those the pass enables: reading another one as a number fails.          *)
(***************************************************************************)
EXTENDS Naturals, Sequences, FiniteSets, SequencesExt

CONSTANTS
    Inputs,         \* the JSON inputs: functions from sections to sequences of items
    NbPipelines,    \* number of pipelines of an input
    RequiredFields, \* add_required_field calls of the target
    ArithFields     \* force_arith_field calls of the target

VARIABLES
    input,      \* the input being loaded
    section,    \* position in Order
    item,       \* position in the section
    made,       \* the maps of P4Objects: <<section, name>> of each object
    headers,    \* header_to_type_map: the fields of each header
    arith,      \* fields whose arithmetic the PHV factory enables
    aliases,    \* field_aliases
    poisoned,   \* a link to offset -1 or to a null object was stored
    status      \* "loading", "loaded", "failed" (return 1) or "thrown"

vars == <<input, section, item, made, headers, arith, aliases, poisoned, status>>

\* The order of the sections in init_objects; the sections of a pipeline are
\* passed together, one pipeline after the other.
PipelineSections == <<"tables", "conditionals", "next_nodes", "pipelines">>
OrderWith(objects) ==
    [i \in DOMAIN objects |-> <<objects[i], 0>>]
    \o [i \in 1 .. 4 * NbPipelines |->
           <<PipelineSections[((i - 1) % 4) + 1], ((i - 1) \div 4) + 1>>]
    \o [i \in 1 .. 5 |->
           <<<<"checksums", "learn_lists", "field_lists", "required", "force_arith">>[i], 0>>]

\* Mutant: actions are built before the arrays they use.
OrderActionsEarly ==
    OrderWith(<<"header_types", "headers", "header_stacks", "field_aliases",
                "extern_instances", "parsers", "deparsers", "calculations",
                "counter_arrays", "meter_arrays", "actions", "register_arrays">>)
Order ==
    OrderWith(<<"header_types", "headers", "header_stacks", "field_aliases",
                "extern_instances", "parsers", "deparsers", "calculations",
                "counter_arrays", "meter_arrays", "register_arrays", "actions">>)

-----------------------------------------------------------------------------
Init ==
    /\ input \in Inputs
    /\ section = 1
    /\ item = 1
    /\ made = {}
    /\ headers = [h \in {} |-> {}]
    /\ arith = {}
    /\ aliases = [f \in {} |-> <<>>]
    /\ poisoned = FALSE
    /\ status = "loading"

Items(s) == IF s \in DOMAIN input THEN input[s] ELSE <<>>
It == Items(Order[section])[item]

\* The next item is one of this section.
At(name) ==
    /\ status = "loading"
    /\ section <= Len(Order)
    /\ Order[section][1] = name
    /\ item <= Len(Items(Order[section]))

\* The loop over a section is over.
NextSection ==
    /\ status = "loading"
    /\ section <= Len(Order)
    /\ item > Len(Items(Order[section]))
    /\ section' = section + 1
    /\ item' = 1
    /\ status' = IF section = Len(Order) THEN "loaded" ELSE status
    /\ UNCHANGED <<input, made, headers, arith, aliases, poisoned>>

-----------------------------------------------------------------------------
\* Lookups.

field_info(f) == IF f \in DOMAIN aliases THEN aliases[f] ELSE f

\* get_field_offset gives -1 for a field the type does not have.
Offset(f) == IF f[2] \in headers[f[1]] THEN f[2] ELSE "-1"

\* get_header_id of every header the item names throws when there is none.
Throws(it) ==
    \/ ~(it.at \subseteq made)
    \/ \E f \in it.direct \cup it.expr \cup {field_info(g) : g \in it.info} :
          f[1] \notin DOMAIN headers

\* The item is built: what it enables, and what it leaves behind.
Build(it, enabled, result) ==
    /\ IF Throws(it)
       THEN status' = "thrown" /\ UNCHANGED <<made, arith, poisoned>>
       ELSE /\ made' = made \cup result
            /\ arith' = arith \cup enabled
            /\ poisoned' = (poisoned \/ \E f \in it.direct \cup it.expr
                                           \cup {field_info(g) : g \in it.info} :
                                          Offset(f) = "-1")
            /\ UNCHANGED status
    /\ item' = item + 1
    /\ UNCHANGED <<input, section, headers, aliases>>

Fail ==
    /\ status' = "failed"
    /\ UNCHANGED <<input, section, item, made, headers, arith, aliases, poisoned>>

Self(it) == {<<Order[section][1], it.name>>}
\* build_expression enables each field it loads.
Loaded(it) == it.expr
Infos(it) == {field_info(f) : f \in it.info}

-----------------------------------------------------------------------------
\* The sections.

HeaderTypes == At("header_types") /\ Build(It, {}, Self(It))

\* A header gets the fields of its type, with arithmetic off.
Headers ==
    /\ At("headers")
    /\ IF It.at \subseteq made
       THEN /\ headers' = [h \in DOMAIN headers \cup {It.name} |->
                              IF h = It.name THEN It.fields ELSE headers[h]]
            /\ arith' = {f \in arith : f[1] # It.name}
            /\ made' = made \cup Self(It)
            /\ UNCHANGED status
       ELSE status' = "thrown" /\ UNCHANGED <<headers, arith, made>>
    /\ item' = item + 1
    /\ UNCHANGED <<input, section, aliases, poisoned>>

HeaderStacks == At("header_stacks") /\ Build(It, {}, Self(It))

field_exists(f) ==
    f \in DOMAIN aliases \/ (f[1] \in DOMAIN headers /\ f[2] \in headers[f[1]])

\* An alias must name a field that exists.
FieldAliases ==
    /\ At("field_aliases")
    /\ IF field_exists(It.to)
       THEN /\ aliases' = [f \in DOMAIN aliases \cup {It.from} |->
                              IF f = It.from THEN field_info(It.to) ELSE aliases[f]]
            /\ UNCHANGED status
       ELSE status' = "thrown" /\ UNCHANGED aliases
    /\ item' = item + 1
    /\ UNCHANGED <<input, section, made, headers, arith, poisoned>>

\* An extern of unknown type, or with an attribute that is unknown or no hexstr.
ExternInstances ==
    /\ At("extern_instances")
    /\ IF It.bad THEN Fail ELSE Build(It, {}, Self(It))

\* Mutant: only the destination of a set is enabled.
ParserArithDest(it) == {field_info(f) : f \in it.dest} \cup Loaded(it)
\* The set operations of a parse state enable destination and source.
ParserArith(it) == {field_info(f) : f \in it.dest \cup it.src} \cup Loaded(it)

\* States are linked by operator[]: a next state that does not exist is null, which
\* ends the parser; an initial state that does not exist is null too.
Parsers ==
    /\ At("parsers")
    /\ IF Throws(It) \/ It.init_state \in It.states
       THEN Build(It, ParserArith(It), Self(It))
       ELSE /\ poisoned' = TRUE
            /\ made' = made \cup Self(It)
            /\ arith' = arith \cup ParserArith(It)
            /\ item' = item + 1
            /\ UNCHANGED <<input, section, headers, aliases, status>>

Deparsers == At("deparsers") /\ Build(It, {}, Self(It))

\* check_hash comes after the inputs are found.
Calculations ==
    /\ At("calculations")
    /\ IF ~Throws(It) /\ It.bad THEN Fail ELSE Build(It, {}, Self(It))

\* A direct counter array is part of its table: there is no object.
CounterArrays ==
    At("counter_arrays") /\ Build(It, {}, IF It.is_direct THEN {} ELSE Self(It))

\* A direct meter array is remembered with the field its colour goes to.
MeterArrays ==
    /\ At("meter_arrays")
    /\ Build(It, {}, Self(It) \cup (IF It.is_direct THEN {<<"direct_meters", It.name>>} ELSE {}))

RegisterArrays == At("register_arrays") /\ Build(It, {}, Self(It))

\* The fields an action reads: its field parameters, those of its expressions, and
\* every field of a header it takes as a whole.
ActionArith(it) ==
    it.direct \cup Loaded(it) \cup
    UNION {{<<h, f>> : f \in headers[h]} : h \in it.whole \cap DOMAIN headers}

\* An unknown primitive, or one with the wrong number of parameters.
Actions ==
    /\ At("actions")
    /\ IF It.bad THEN Fail ELSE Build(It, ActionArith(It), Self(It))

\* Two LPM fields in the key, or a selector with an unknown hash.  direct_meters is
\* read with operator[]: a name it does not have makes an entry with a null array.
Tables ==
    /\ At("tables")
    /\ IF It.bad THEN Fail
       ELSE IF Throws(It) \/ It.meter = {} \/ (\A n \in It.meter : <<"direct_meters", n>> \in made)
       THEN Build(It, {}, {<<"nodes", It.name>>})
       ELSE /\ poisoned' = TRUE
            /\ made' = made \cup {<<"nodes", It.name>>}
            /\ item' = item + 1
            /\ UNCHANGED <<input, section, headers, arith, aliases, status>>

Conditionals == At("conditionals") /\ Build(It, Loaded(It), {<<"nodes", It.name>>})

\* The actions of a table and the nodes after a table or a conditional, looked up
\* when the tables and conditionals of this pipeline, and no later one, exist.
NextNodes == At("next_nodes") /\ Build(It, {}, {})

Pipelines == At("pipelines") /\ Build(It, {}, Self(It))

Checksums == At("checksums") /\ Build(It, Loaded(It), Self(It))

LearnLists == At("learn_lists") /\ Build(It, {}, Self(It))

FieldLists == At("field_lists") /\ Build(It, {}, Self(It))

\* check_required_fields; the target's fields are one item.
check_required_fields ==
    /\ At("required")
    /\ IF \A f \in RequiredFields : field_exists(f) THEN Build(It, {}, {}) ELSE Fail

\* The force_arith section of the input, then those of the target's arith fields
\* that exist.
ForceArith ==
    /\ At("force_arith")
    /\ Build(It, Infos(It) \cup {field_info(f) : f \in {g \in ArithFields : field_exists(g)}}, {})

Next ==
    \/ NextSection \/ HeaderTypes \/ Headers \/ HeaderStacks \/ FieldAliases
    \/ ExternInstances \/ Parsers \/ Deparsers \/ Calculations \/ CounterArrays
    \/ MeterArrays \/ RegisterArrays \/ Actions \/ Tables \/ Conditionals \/ NextNodes
    \/ Pipelines \/ Checksums \/ LearnLists \/ FieldLists \/ check_required_fields
    \/ ForceArith

Spec == Init /\ [][Next]_vars

-----------------------------------------------------------------------------
\* Every item of the input, with its section and pipeline.
AllItems == UNION {{<<s, i>> : i \in DOMAIN input[s]} : s \in DOMAIN input}
Get(x) == input[x[1]][x[2]]

\* What the sections of the input would make.
Declares(x) ==
    LET it == Get(x) s == x[1][1] IN
    CASE s \in {"tables", "conditionals"} -> {<<"nodes", it.name>>}
      [] s = "meter_arrays" ->
            {<<s, it.name>>} \cup (IF it.is_direct THEN {<<"direct_meters", it.name>>} ELSE {})
      [] s = "counter_arrays" -> IF it.is_direct THEN {} ELSE {<<s, it.name>>}
      [] s \in {"field_aliases", "next_nodes", "required", "force_arith"} -> {}
      [] OTHER -> {<<s, it.name>>}

RealFields == UNION {{<<Get(x).name, f>> : f \in Get(x).fields} :
                       x \in {y \in AllItems : y[1][1] = "headers"}}
Aliased == {Get(x).from : x \in {y \in AllItems : y[1][1] = "field_aliases"}}

\* An input a compiler may write: every name is declared somewhere, aliases are only
\* used where field_info looks them up and name real fields, a register is read by
\* no parser, a node is named by its own pipeline or a later one, and no check fails.
WellFormed ==
    /\ \A f \in RequiredFields : f \in RealFields \cup Aliased
    /\ \A x \in AllItems :
         LET it == Get(x) s == x[1] IN
         /\ ~it.bad
         /\ it.at \subseteq UNION {Declares(y) : y \in AllItems}
         /\ it.direct \cup it.expr \subseteq RealFields
         /\ it.info \subseteq RealFields \cup Aliased
         /\ s[1] \in {"header_types", "parsers"} =>
               \A r \in it.at : r[1] # "register_arrays"
         /\ s[1] = "parsers" => it.init_state \in it.states
         /\ s[1] = "field_aliases" => it.to \in RealFields
         /\ s[1] = "tables" => \A n \in it.meter : \E y \in AllItems :
                                 <<"direct_meters", n>> \in Declares(y)
         /\ s[1] \in {"next_nodes", "pipelines"} =>
               \A r \in it.at : r[1] = "nodes" =>
                   \E y \in AllItems : r \in Declares(y) /\ y[1][2] <= s[2]

\* The order of the sections suffices for every reference: an input that is well
\* formed loads, and no link in it is null or to a field that is not there.
WellFormedLoads ==
    WellFormed => status \in {"loading", "loaded"} /\ ~poisoned

\* What primitives, expressions and parser operations read as numbers.  (The target
\* of a checksum is not among it: CalcBasedChecksum::verify_ reads it, but nothing
\* outside the tests calls verify.)
ReadAsNumber(x) ==
    LET it == Get(x) IN
    it.expr
    \cup (IF x[1][1] = "parsers" THEN {field_info(f) : f \in it.dest \cup it.src} ELSE {})
    \cup (IF x[1][1] = "actions"
          THEN it.direct \cup {f \in RealFields : f[1] \in it.whole} ELSE {})

\* Arithmetic is on for every field that an action, an expression or a parser reads
\* as a number, from the moment that object exists and whatever is loaded after it;
\* in a configuration that loaded also for those the target asks for.
ArithWhereRead ==
    ~poisoned =>
        /\ \A x \in AllItems : Declares(x) # {} /\ Declares(x) \subseteq made
              => ReadAsNumber(x) \subseteq arith
        /\ status = "loaded" => ArithFields \cap RealFields \subseteq arith

=============================================================================
