------------------------------- MODULE Prospects -------------------------------
(***************************************************************************)
(* Prospects, which become customers, and the files they come from.        *)
(*                                                                         *)
(*   apps/api/src/prospects/prospects.service.ts                           *)
(*   apps/api/src/prospects/prospects.repository.ts                        *)
(*   apps/api/src/prospects/prospect-import.service.ts                     *)
(*   apps/api/src/customers/customers.service.ts (create,                  *)
(*     upsertForIntegration, remove)                                       *)
(*                                                                         *)
(* Rows are numbered as they are inserted.  A request reads before it      *)
(* writes: what it relies on may have changed by then.  `read' and         *)
(* `checked' are no columns: they say how many rows there were when the    *)
(* request that inserted a row looked for others like it.                  *)
(***************************************************************************)
EXTENDS Naturals, Sequences, FiniteSets

CONSTANTS
    Number, Mail,       \* documents and addresses of people
    DocumentType,
    People,             \* what is typed or uploaded about a person
    Files,              \* the files that are uploaded, batch by batch
    Agent,              \* requests in progress together
    ChunkSize,          \* INSERT_CHUNK_SIZE
    MaxProspects, MaxCustomers,
    Blank               \* an empty column, nobody

ProspectsAssumption ==
    /\ Blank \notin Number \cup Mail \cup Agent
    /\ People \subseteq [document : Number \cup {Blank}, mail : Mail \cup {Blank}]
    /\ Files \subseteq Seq(People)
    /\ ChunkSize \in Nat \ {0}
    /\ MaxProspects \in Nat /\ MaxCustomers \in Nat
ASSUME ProspectsAssumption

VARIABLES
    prospects,      \* the rows of prospects
    customers,      \* the rows of customers
    agent           \* where each request is

prospectVars == <<prospects, customers, agent>>

Resting == [at |-> "idle"]
ProspectRow ==
    [who : People, status : {"OPEN", "CONVERTED"}, customer : Nat,
     by : Agent \cup {Blank}, read : Nat, edited : BOOLEAN]
CustomerRow == [type : DocumentType, number : Number, checked : Nat]
Removed == [status |-> "REMOVED"]
AgentState ==
    [at : {"idle"}] \cup
    [at : {"removing"}, prospect : Nat] \cup
    [at : {"saving"}, prospect : Nat, who : People] \cup
    [at : {"checking"}, prospect : Nat, type : DocumentType,
     number : Number] \cup
    [at : {"inserting"}, prospect : Nat, type : DocumentType, number : Number,
     checked : Nat] \cup
    [at : {"linking", "marking"}, prospect : Nat, customer : Nat] \cup
    [at : {"importing"}, todo : Seq(People), read : Nat]

ProspectsInit ==
    /\ prospects = <<>>
    /\ customers = <<>>
    /\ agent = [r \in Agent |-> Resting]

AgentAt(r, state) == agent' = [agent EXCEPT ![r] = state]
Registered(c) == customers[c] # Removed
Kept(p) == prospects[p] # Removed
Editable(p) == prospects[p].status = "OPEN"

-----------------------------------------------------------------------------
(* Prospects by hand.  The form is not compared with other rows.           *)

NewProspect(who, by, read) ==
    [who |-> who, status |-> "OPEN", customer |-> 0, by |-> by, read |-> read,
     edited |-> FALSE]

AddProspect(who) ==
    /\ Len(prospects) < MaxProspects
    /\ prospects' = Append(prospects, NewProspect(who, Blank, 0))
    /\ UNCHANGED <<customers, agent>>

(* ensureEditable, then the references are validated.                      *)
BeginEdit(r, p, who) ==
    /\ agent[r] = Resting /\ Editable(p)
    /\ AgentAt(r, [at |-> "saving", prospect |-> p, who |-> who])
    /\ UNCHANGED <<prospects, customers>>

(* The form has every column, the status too.                              *)
SaveEdit(r) ==
    /\ agent[r].at = "saving"
    /\ LET p == agent[r].prospect IN
       prospects' = IF Kept(p)
           THEN [prospects EXCEPT ![p] =
                    [@ EXCEPT !.who = agent[r].who, !.status = "OPEN",
                              !.by = Blank, !.read = 0, !.edited = TRUE]]
           ELSE prospects
    /\ AgentAt(r, Resting)
    /\ UNCHANGED customers

BeginRemoval(r, p) ==
    /\ agent[r] = Resting /\ Editable(p)
    /\ AgentAt(r, [at |-> "removing", prospect |-> p])
    /\ UNCHANGED <<prospects, customers>>

RemoveProspect(r) ==
    /\ agent[r].at = "removing"
    /\ prospects' = [prospects EXCEPT ![agent[r].prospect] = Removed]
    /\ AgentAt(r, Resting)
    /\ UNCHANGED customers

-----------------------------------------------------------------------------
(* Customers: of a prospect that is converted, or (prospect 0) of the      *)
(* panel or n8n.                                                           *)

BeginCreation(r, p, type, number) ==
    /\ agent[r] = Resting
    /\ p # 0 => Editable(p)
    /\ AgentAt(r, [at |-> "checking", prospect |-> p, type |-> type,
                   number |-> number])
    /\ UNCHANGED <<prospects, customers>>

SlipNumberKnown(type, number) ==
    \E c \in DOMAIN customers :
        Registered(c) /\ customers[c].type = type /\ customers[c].number = number

(* findByDocumentNumber                                                    *)
NumberKnown(type, number) ==
    \E c \in DOMAIN customers : Registered(c) /\ customers[c].number = number

(* The number alone is looked for.  Siigo and the stores are asked next.   *)
CheckNumber(r) ==
    /\ agent[r].at = "checking"
    /\ LET a == agent[r] IN
       AgentAt(r, IF NumberKnown(a.type, a.number) THEN Resting
                  ELSE [at |-> "inserting", prospect |-> a.prospect,
                        type |-> a.type, number |-> a.number,
                        checked |-> Len(customers)])
    /\ UNCHANGED <<prospects, customers>>

(* The unique key is the type with the number.                             *)
InsertCustomer(r) ==
    /\ agent[r].at = "inserting"
    /\ LET a == agent[r]
           taken == \E c \in DOMAIN customers :
                        /\ Registered(c) /\ customers[c].type = a.type
                        /\ customers[c].number = a.number
       IN  IF taken THEN UNCHANGED customers /\ AgentAt(r, Resting)
           ELSE /\ Len(customers) < MaxCustomers
                /\ customers' = Append(customers,
                        [type |-> a.type, number |-> a.number,
                         checked |-> a.checked])
                /\ AgentAt(r, IF a.prospect = 0 THEN Resting
                              ELSE [at |-> "marking", prospect |-> a.prospect,
                                    customer |-> Len(customers) + 1])
    /\ UNCHANGED prospects

(* convertLink: a customer that exists takes the place of a new one.       *)
BeginLinking(r, p, c) ==
    /\ agent[r] = Resting /\ Editable(p)
    /\ AgentAt(r, [at |-> "linking", prospect |-> p, customer |-> c])
    /\ UNCHANGED <<prospects, customers>>

CustomerExists(r) ==
    /\ agent[r].at = "linking"
    /\ AgentAt(r, IF Registered(agent[r].customer)
                  THEN [agent[r] EXCEPT !.at = "marking"] ELSE Resting)
    /\ UNCHANGED <<prospects, customers>>

(* The update is by id alone; without the prospect or the customer it      *)
(* fails, and CONVERSION_NOT_RECORDED tells the customer to be linked.     *)
MarkConverted(r) ==
    /\ agent[r].at = "marking"
    /\ LET a == agent[r] IN
       prospects' = IF Kept(a.prospect) /\ Registered(a.customer)
           THEN [prospects EXCEPT ![a.prospect].status = "CONVERTED",
                                  ![a.prospect].customer = a.customer]
           ELSE prospects
    /\ AgentAt(r, Resting)
    /\ UNCHANGED customers

(* customers.remove; the prospects of the customer forget it.              *)
RemoveCustomer(c) ==
    /\ Registered(c)
    /\ customers' = [customers EXCEPT ![c] = Removed]
    /\ prospects' = [p \in DOMAIN prospects |->
            IF Kept(p) /\ prospects[p].customer = c
            THEN [prospects[p] EXCEPT !.customer = 0] ELSE prospects[p]]
    /\ UNCHANGED agent

-----------------------------------------------------------------------------
(* Files *)

duplicateKeys(who) ==
    IF who.document # Blank THEN {<<"d", who.document>>}
    ELSE IF who.mail # Blank THEN {<<"e", who.mail>>} ELSE {}

(* Rows are found by either column, and known by their key.                *)
existingKeys(file) ==
    LET found == {p \in DOMAIN prospects : Kept(p) /\ \E i \in DOMAIN file :
            \/ /\ file[i].document # Blank
               /\ prospects[p].who.document = file[i].document
            \/ file[i].mail # Blank /\ prospects[p].who.mail = file[i].mail}
    IN  UNION {duplicateKeys(prospects[p].who) : p \in found}

SlipNewRows(file, existing) ==
    {i \in DOMAIN file : duplicateKeys(file[i]) \cap existing = {}}

(* The rows of the file that neither the table nor the file had before.    *)
NewRows(file, existing) ==
    LET before(i) == UNION {duplicateKeys(file[j]) : j \in 1..(i - 1)}
    IN  {i \in DOMAIN file :
            duplicateKeys(file[i]) \cap (existing \cup before(i)) = {}}

(* The new rows keep the order of the file.                                *)
Ascending(order) ==
    \A k, l \in DOMAIN order : k < l => order[k] < order[l]
BeginImport(r, file) ==
    /\ agent[r] = Resting
    /\ LET new == NewRows(file, existingKeys(file)) IN
       \E order \in [1..Cardinality(new) -> new] :
        /\ Ascending(order)
        /\ AgentAt(r, [at |-> "importing", read |-> Len(prospects),
                       todo |-> [k \in DOMAIN order |-> file[order[k]]]])
    /\ UNCHANGED <<prospects, customers>>

InsertChunk(r) ==
    /\ agent[r].at = "importing"
    /\ LET todo == agent[r].todo
           size == IF Len(todo) < ChunkSize THEN Len(todo) ELSE ChunkSize
       IN  /\ Len(prospects) + size <= MaxProspects
           /\ prospects' = prospects \o
                [k \in 1..size |-> NewProspect(todo[k], r, agent[r].read)]
           /\ AgentAt(r, IF size = Len(todo) THEN Resting ELSE
                         [agent[r] EXCEPT !.todo = SubSeq(todo, size + 1, Len(todo))])
    /\ UNCHANGED customers

(* A call or a query fails, or the process restarts.                       *)
Interrupted(r) ==
    /\ agent[r] # Resting
    /\ AgentAt(r, Resting)
    /\ UNCHANGED <<prospects, customers>>

-----------------------------------------------------------------------------
ProspectsNext ==
    \/ \E who \in People : AddProspect(who)
    \/ \E c \in DOMAIN customers : RemoveCustomer(c)
    \/ \E r \in Agent :
        \/ \E p \in DOMAIN prospects :
            \/ BeginRemoval(r, p)
            \/ \E who \in People : BeginEdit(r, p, who)
            \/ \E c \in DOMAIN customers : BeginLinking(r, p, c)
        \/ \E p \in DOMAIN prospects \cup {0} :
            \E type \in DocumentType, number \in Number :
                BeginCreation(r, p, type, number)
        \/ \E file \in Files : BeginImport(r, file)
        \/ SaveEdit(r) \/ RemoveProspect(r)
        \/ CheckNumber(r) \/ InsertCustomer(r)
        \/ CustomerExists(r) \/ MarkConverted(r)
        \/ InsertChunk(r) \/ Interrupted(r)

ProspectsSpec == ProspectsInit /\ [][ProspectsNext]_prospectVars

-----------------------------------------------------------------------------
(* The rows and requests have the declared shapes.                         *)
ProspectsTypeOK ==
    /\ prospects \in Seq(ProspectRow \cup {Removed})
    /\ customers \in Seq(CustomerRow \cup {Removed})
    /\ Len(prospects) <= MaxProspects /\ Len(customers) <= MaxCustomers
    /\ agent \in [Agent -> AgentState]
    /\ \A p \in DOMAIN prospects : Kept(p) =>
        prospects[p].customer = 0 \/ Registered(prospects[p].customer)

(* However often files are uploaded, whole or interrupted, no row is       *)
(* imported beside one with the same document (or address, without a       *)
(* document), unless that one was inserted by somebody else while the file *)
(* was being imported; rows that were edited afterwards aside.             *)
NoRowTwice ==
    \A q \in DOMAIN prospects : \A p \in 1..(q - 1) :
        LET older == prospects[p]
            newer == prospects[q]
        IN  (/\ Kept(p) /\ Kept(q) /\ newer.by # Blank /\ ~older.edited
             /\ duplicateKeys(older.who) \cap duplicateKeys(newer.who) # {})
                => /\ newer.read < p
                   /\ <<older.by, older.read>> # <<newer.by, newer.read>>

(* Conversions, the panel and n8n never leave two customers with one       *)
(* number, unless the second was already being created when the first was  *)
(* inserted, and then their documents are of different types.              *)
OneCustomerPerNumber ==
    \A d \in DOMAIN customers : \A c \in 1..(d - 1) :
        (/\ Registered(c) /\ Registered(d)
         /\ customers[c].number = customers[d].number)
            => /\ customers[d].checked < c
               /\ customers[c].type # customers[d].type
=============================================================================
