------------------------- MODULE ContractGeneration -------------------------
(***************************************************************************)
(* From the schema of a Postgres table to its data contract: what the      *)
(* inspector reads (portal/agent/schema_inspector.py), what the generator  *)
(* makes of a provider's reply (portal/agent/odcs_generator.py), and what  *)
(* the Silver job accepts (load_contract of spark/jobs/bronze_to_silver).  *)
(* The portal and the data source agent share these operators.             *)
(*                                                                         *)
(* Of a contract only what load_contract looks at is kept: whether         *)
(* schema.fields is there, the columns it lists and those it marks         *)
(* primaryKey.  Names, types and quality rules are left out.               *)
(***************************************************************************)
CONSTANT Columns        \* column names

\* A table is its columns and its primary key; a table that is not there
\* has no columns.
Schema == {s \in [cols : SUBSET Columns, keys : SUBSET Columns] :
              s.keys \subseteq s.cols}
NoTable == [cols |-> {}, keys |-> {}]

\* "other": a schema that is a list, null, or a mapping without fields.
Contract == {c \in [shape : {"fields", "other"},
                    fields : SUBSET Columns, keys : SUBSET Columns] :
                c.keys \subseteq c.fields /\ (c.shape = "other" => c.fields = {})}
NoContract == [shape |-> "none", fields |-> {}, keys |-> {}]

\* Mutant of Introspected: the key is not looked for among the columns.
KeyOfItsOwn(before, after) ==
    [cols |-> after.cols, keys |-> before.keys]

\* introspect: the primary key is one query and the columns are another, each
\* with a snapshot of its own, so the table may change in between.
Introspected(before, after) ==
    [cols |-> after.cols, keys |-> before.keys \intersect after.cols]

\* A reply parses to a mapping with a "schema" key, which is a contract, or to
\* nothing of the kind: empty, not YAML, a scalar, a mapping without the key.
Reply == Contract \union {NoContract}

\* Mutant of FallbackContract: the primary key is listed and not marked.
FallbackWithoutKeys(schema) ==
    [shape |-> "fields", fields |-> schema.cols, keys |-> {}]

\* _build_fallback_contract.
FallbackContract(schema) ==
    [shape |-> "fields", fields |-> schema.cols, keys |-> schema.keys]

\* _parse_and_validate: a mapping with a schema is taken as it is.
ParseAndValidate(reply, schema) ==
    IF reply = NoContract THEN FallbackContract(schema) ELSE reply

\* load_contract returns, instead of raising.
Loads(contract) ==
    contract.shape = "fields" /\ contract.fields # {} /\ contract.keys # {}
=============================================================================
