--------------------------- MODULE SchemaRegistry ---------------------------
(***************************************************************************)
(* SchemaRepository: saveSchema and registerAttribute, each a SELECT and     *)
(* then an INSERT or UPDATE, both committed on their own, called by several  *)
(* clients of the pool at once.                                              *)
(***************************************************************************)
EXTENDS LegacyTables

CONSTANTS Client, Attribute,
          Given,                    \* versions a caller may give; 0: none
          MaxSchemas, MaxUses       \* bounds on the rows and on the uses

ASSUME RegistryAssumption == Given \subseteq Nat /\ MaxSchemas \in Nat /\ MaxUses \in Nat

VARIABLES schemas,      \* category_schemas, in the order of the inserts
          usage,        \* global_attributes: name |-> usage_count
          registered,   \* history: calls of registerAttribute that returned
          unanswered,   \* history: those that lost the connection while they wrote
          job           \* what each client is calling

registryVars == <<schemas, usage, registered, unanswered, job>>

Schema == [category : Name, version : Nat, given : BOOLEAN]
JobStep == {"idle", "latest", "insert_schema", "find", "increment", "insert_attribute"}
Job == [step : JobStep, category : Name \cup {NoCategory}, given : Given \cup {0},
        attribute : Attribute \cup {NoCategory}, read : Nat]
NoJob == [step |-> "idle", category |-> NoCategory, given |-> 0,
          attribute |-> NoCategory, read |-> 0]

InitRegistry ==
    /\ schemas = <<>>
    /\ usage = [a \in {} |-> 0]
    /\ registered = [a \in Attribute |-> 0]
    /\ unanswered = [a \in Attribute |-> 0]
    /\ job = [c \in Client |-> NoJob]

Versions(n) == {schemas[i].version : i \in {j \in DOMAIN schemas : schemas[j].category = n}}

JobEnds(c) == job' = [job EXCEPT ![c] = NoJob]
-----------------------------------------------------------------------------
BeginSave(c, n, given) ==
    /\ job[c] = NoJob
    /\ Len(schemas) < MaxSchemas
    /\ job' = [job EXCEPT ![c] = [NoJob EXCEPT !.step = "latest", !.category = n,
                                               !.given = given]]
    /\ UNCHANGED <<legacyTables, schemas, usage, registered, unanswered>>

(* getLatestVersion: 0 if there is no schema.                               *)
ReadLatest(c) ==
    /\ job[c].step = "latest"
    /\ \E v \in Versions(job[c].category) \cup {0} :
          /\ \A w \in Versions(job[c].category) : w <= v
          /\ job' = [job EXCEPT ![c] =
                        [job[c] EXCEPT !.step = "insert_schema", !.read = v]]
    /\ UNCHANGED <<legacyTables, schemas, usage, registered, unanswered>>

(* input.version || latest + 1                                              *)
NewSchema(c) ==
    [category |-> job[c].category, given |-> job[c].given # 0,
     version |-> IF job[c].given # 0 THEN job[c].given ELSE job[c].read + 1]

(* Mutant: no UNIQUE(category_id, version).                                 *)
InsertAnySchema(c) ==
    /\ job[c].step = "insert_schema"
    /\ schemas' = IF job[c].category \in Categories
                  THEN Append(schemas, NewSchema(c)) ELSE schemas
    /\ JobEnds(c)
    /\ UNCHANGED <<legacyTables, usage, registered, unanswered>>

(* A category that is not there is a foreign key violation, a version that  *)
(* is taken a unique violation: saveSchema throws.  It throws as well when  *)
(* the row is committed and the answer lost.                                *)
InsertSchema(c) ==
    /\ job[c].step = "insert_schema"
    /\ schemas' = IF /\ job[c].category \in Categories
                     /\ NewSchema(c).version \notin Versions(job[c].category)
                  THEN Append(schemas, NewSchema(c)) ELSE schemas
    /\ JobEnds(c)
    /\ UNCHANGED <<legacyTables, usage, registered, unanswered>>
-----------------------------------------------------------------------------
BeginRegister(c, a) ==
    /\ job[c] = NoJob
    /\ registered[a] + unanswered[a] < MaxUses
    /\ job' = [job EXCEPT ![c] = [NoJob EXCEPT !.step = "find", !.attribute = a]]
    /\ UNCHANGED <<legacyTables, schemas, usage, registered, unanswered>>

(* getAttributeByName, with the usage_count of the row it returns.          *)
FindAttribute(c) ==
    /\ job[c].step = "find"
    /\ job' = [job EXCEPT ![c] =
          IF job[c].attribute \in DOMAIN usage
          THEN [job[c] EXCEPT !.step = "increment", !.read = usage[job[c].attribute]]
          ELSE [job[c] EXCEPT !.step = "insert_attribute", !.read = 0]]
    /\ UNCHANGED <<legacyTables, schemas, usage, registered, unanswered>>

UnansweredCounted(c) == unanswered' = [unanswered EXCEPT ![job[c].attribute] = @ + 1]

(* The write is committed on its own; then the answer arrives and the call  *)
(* returns, or the connection is lost and it throws.                        *)
WriteEnds(c) ==
    /\ \/ /\ registered' = [registered EXCEPT ![job[c].attribute] = @ + 1]
          /\ UNCHANGED unanswered
       \/ UnansweredCounted(c) /\ UNCHANGED registered
    /\ JobEnds(c)

(* Mutant: usage_count is set to what was read, plus one.                   *)
IncrementRead(c) ==
    /\ job[c].step = "increment"
    /\ usage' = [usage EXCEPT ![job[c].attribute] = job[c].read + 1]
    /\ WriteEnds(c)
    /\ UNCHANGED <<legacyTables, schemas>>

(* usage_count = usage_count + 1, under the row's lock.                     *)
IncrementUsage(c) ==
    /\ job[c].step = "increment"
    /\ usage' = [usage EXCEPT ![job[c].attribute] = @ + 1]
    /\ WriteEnds(c)
    /\ UNCHANGED <<legacyTables, schemas>>

(* The name is UNIQUE: the second of two first registrations throws.        *)
InsertAttribute(c) ==
    /\ job[c].step = "insert_attribute"
    /\ IF job[c].attribute \in DOMAIN usage
       THEN JobEnds(c) /\ UNCHANGED <<usage, registered, unanswered>>
       ELSE usage' = Put(usage, job[c].attribute, 1) /\ WriteEnds(c)
    /\ UNCHANGED <<legacyTables, schemas>>

(* The connection is lost before a statement is done: a write of           *)
(* registerAttribute that was on its way leaves the caller not knowing.     *)
LoseJob(c) ==
    /\ job[c] # NoJob
    /\ IF job[c].step \in {"increment", "insert_attribute"}
       THEN UnansweredCounted(c) ELSE UNCHANGED unanswered
    /\ JobEnds(c)
    /\ UNCHANGED <<legacyTables, schemas, usage, registered>>

CallRegistry(c) ==
    \/ \E n \in Name, given \in Given \cup {0} : BeginSave(c, n, given)
    \/ ReadLatest(c) \/ InsertSchema(c)
    \/ \E a \in Attribute : BeginRegister(c, a)
    \/ FindAttribute(c) \/ IncrementUsage(c) \/ InsertAttribute(c) \/ LoseJob(c)

RegistryTyped ==
    /\ schemas \in Seq(Schema)
    /\ \A i \in DOMAIN schemas : schemas[i].category \in Categories
    /\ DOMAIN usage \subseteq Attribute
    /\ usage \in [DOMAIN usage -> Nat]
    /\ registered \in [Attribute -> Nat]
    /\ unanswered \in [Attribute -> Nat]
    /\ job \in [Client -> Job]
-----------------------------------------------------------------------------
Uses(a) == IF a \in DOMAIN usage THEN usage[a] ELSE 0

(* registerAttribute loses no use and invents none: whichever calls overlap, *)
(* the usage_count of an attribute counts every call that returned it, and  *)
(* beyond those only calls that lost the connection while they wrote.       *)
UsageIsCalls ==
    \A a \in Attribute :
        registered[a] <= Uses(a) /\ Uses(a) <= registered[a] + unanswered[a]

(* saveSchema: the schemas of a category that nobody numbered by hand have  *)
(* the versions 1, 2, 3 in the order they were saved, whichever overlap.    *)
VersionsCountUp ==
    \A n \in Categories :
        LET rows == {i \in DOMAIN schemas : schemas[i].category = n}
        IN  (\A i \in rows : ~ schemas[i].given) =>
                \A i \in rows :
                    schemas[i].version = Cardinality({j \in rows : j <= i})
=============================================================================
