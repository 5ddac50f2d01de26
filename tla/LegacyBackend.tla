--------------------------- MODULE LegacyBackend ---------------------------
(***************************************************************************)
(* The legacy backend over its shared tables: discovery processes, clients   *)
(* of the schema registry, and the page that browses the result.  A scenario *)
(* says which of them run, what they may do and meet, and whether discoveries *)
(* run one at a time.                                                        *)
(***************************************************************************)
EXTENDS CategoryDiscovery, SchemaRegistry, CategoryBrowser

CONSTANT Scenarios

ASSUME ScenariosAssumption ==
    \A s \in Scenarios :
        /\ s.serial \in BOOLEAN /\ s.browsing \in BOOLEAN
        /\ s.processes \subseteq Process /\ s.clients \subseteq Client
        /\ s.answers \subseteq Answer
        /\ s.calls \subseteq {"latest", "find"}        \* saveSchema, registerAttribute
        /\ s.away \subseteq {"hidden", "offline"}

VARIABLE scenario

vars == <<categoryOf, count, call, executions, run, schemas, usage, registered,
          unanswered, job, selected, cache, away, scenario>>

Init ==
    /\ InitDiscovery /\ InitRegistry /\ InitBrowser
    /\ scenario \in Scenarios

(* One at a time: no discovery starts, and no client calls, while one runs. *)
Turn(p) == scenario.serial => \A q \in Process \ {p} : ~ Active(q)

Discovery(p) ==
    /\ p \in scenario.processes
    /\ Turn(p) /\ Discover(p)
    /\ \A i \in DOMAIN call'[p].got : call'[p].got[i] \in scenario.answers
    /\ UNCHANGED <<registryVars, browserVars, scenario>>

Registry(c) ==
    /\ c \in scenario.clients
    /\ Turn(c) /\ CallRegistry(c)
    /\ job[c] = NoJob => job'[c].step \in scenario.calls
    /\ UNCHANGED <<call, executions, run, browserVars, scenario>>

Browser ==
    /\ scenario.browsing
    /\ Browse
    /\ away' \subseteq scenario.away
    /\ UNCHANGED <<call, executions, run, registryVars, scenario>>

Next ==
    \/ \E p \in Process : Discovery(p)
    \/ \E c \in Client : Registry(c)
    \/ Browser

Spec == Init /\ [][Next]_vars

FairSpec == Spec /\ \A p \in Process : DiscoveryFair(p)
-----------------------------------------------------------------------------
TypeOK ==
    /\ TablesTyped
    /\ call \in [Process -> Call]
    /\ executions \in Seq(Execution)
    /\ run \in [Process -> Run]
    /\ RegistryTyped
    /\ BrowserTyped

(* An element of a logged, successful or partial, answer: named n, with x.  *)
LoggedCategory(n) ==
    \E e \in DOMAIN executions :
        /\ Stored(executions[e])
        /\ \E i \in DOMAIN executions[e].output : executions[e].output[i].name = n

LoggedProduct(n, x) ==
    \E e \in DOMAIN executions :
        /\ Stored(executions[e])
        /\ \E i \in DOMAIN executions[e].output :
              /\ executions[e].output[i].name = n
              /\ x \in executions[e].output[i].products

(* "SHALL store complete LLM input and output": whatever overlaps, fails or *)
(* is killed, a category, and a product's place in one, is in the output of *)
(* an execution that was logged before it was stored.                       *)
EverythingStoredIsLogged ==
    /\ \A n \in Categories : LoggedCategory(n)
    /\ \A x \in Product :
          categoryOf[x] # NoCategory => LoggedProduct(categoryOf[x], x)

(* The page shows under a category only products some logged answer put     *)
(* there, late and repeated answers of the server included.                 *)
ShownIsLogged ==
    \A n \in Name : \A x \in cache[n].rows : LoggedProduct(n, x)

(* One discovery at a time, product_count may be stale, because a product   *)
(* left, but never less than the members the category has.                  *)
CountNeverLow ==
    scenario.serial => \A n \in Categories : count[n] >= Cardinality(Members(n))

(* One discovery at a time, the categories linked to an execution are those *)
(* its own output names.                                                    *)
LinksMatchOutput ==
    scenario.serial =>
        \A e \in DOMAIN executions :
            executions[e].links # {} =>
                executions[e].links =
                    {executions[e].output[i].name : i \in DOMAIN executions[e].output}

(* The last category of an output that lists x.                             *)
LastNamed(output, x) ==
    LET named == {i \in DOMAIN output : x \in output[i].products}
    IN  output[CHOOSE i \in named : \A j \in named : j <= i].name

(* One discovery at a time, a discovery that ends well has put every        *)
(* product the answer lists into the last category that lists it, and that  *)
(* category is there.                                                       *)
ResultIsStored ==
    [][\A p \in Process :
          scenario.serial /\ run[p].step # "done" /\ run'[p].step = "done" =>
              /\ Named(p) \subseteq Categories'
              /\ \A x \in Product :
                    (\E i \in DOMAIN Output(p) : x \in Output(p)[i].products) =>
                        categoryOf'[x] = LastNamed(Output(p), x)]_vars

(* A discovery ends, overlapping ones that wait for each other's rows       *)
(* included, unless it waits for the provider where no timer runs.          *)
RunsEndOrAwaitProvider ==
    \A p \in Process : Active(p) ~> (~ Active(p) \/ AwaitsProvider(p))
=============================================================================
