------------------------------- MODULE Collect -------------------------------
(***************************************************************************)
(* collectVMs: list the servers of one kind or of both page by page, keep  *)
(* those of the chosen projects, filter them by address, and only then ask *)
(* for the password (and, of bare metal, the details) of every one that is *)
(* left, with a pool of cfg.HTTPWorkers() goroutines; network cards, disks *)
(* and project names follow, one step each here; Details opens them.       *)
(*                                                                         *)
(* The gateway is external: a list that is cut in pages at the moment of   *)
(* the request, so servers that come and go meanwhile shift it.  A request *)
(* may fail; an error that arrives with HTTP status 200 is decoded as an   *)
(* answer with every field left out (doGET).                               *)
(*                                                                         *)
(* Abstracted: what the choice of projects and the filter look at (chosen, *)
(* kept; the filter's rules are IPFilter), and the data of a server.       *)
(***************************************************************************)
EXTENDS Integers, Sequences, FiniteSets, Lists

CONSTANTS ECS, BMS,    \* virtual machines and bare metal
          Kinds,       \* the kinds of cfg.Resource.Type, in their order
          Inventory,   \* the gateway's list of each kind at the start
          PageSize,
          HTTPWorkers,
          MaxChanges   \* bound: changes of the inventory during the run

Servers == ECS \cup BMS

\* The gateway has a server in its list once.
ASSUME CollectAssumption ==
  /\ ECS \cap BMS = {} /\ IsFiniteSet(Servers)
  /\ Kinds \in {<<"ecs">>, <<"bms">>, <<"ecs", "bms">>}
  /\ Inventory \in [ecs : Seq(ECS), bms : Seq(BMS)]
  /\ Distinct(Inventory.ecs) /\ Distinct(Inventory.bms)
  /\ PageSize \in 1..100 /\ HTTPWorkers \in Nat \ {0}
  /\ MaxChanges \in Nat

Workers  == 1..HTTPWorkers

VARIABLES
  chosen,     \* servers of the chosen projects
  kept,       \* servers the filter lets through
  inventory,  \* the gateway's lists, now
  changes,    \* how often they have changed
  soft,       \* an error has arrived with HTTP status 200
  at,         \* where collectVMs stands
  turn,       \* index in Kinds
  page,       \* the page to ask for
  vms,        \* collected of this kind
  result,     \* collected of the kinds before
  dropped,    \* how many the filter removed
  unsent,     \* indices of vms not yet sent on the channel
  holds,      \* the index a worker has in hand, 0 for none
  asked       \* how often a server's password or details were asked for

config  == <<chosen, kept>>
gateway == <<inventory, changes, soft>>
list    == <<turn, page, vms, result, dropped>>
pool    == <<unsent, holds, asked>>
vars    == <<config, gateway, at, list, pool>>

Fetching == {"passwords", "details"}
Stages   == {"list", "enis", "disks", "names", "ok", "failed"} \cup Fetching

CollectTypeOK ==
  /\ chosen \subseteq Servers /\ kept \subseteq Servers
  /\ inventory \in [ecs : Seq(ECS), bms : Seq(BMS)]
  /\ changes \in 0..MaxChanges /\ soft \in BOOLEAN
  /\ at      \in Stages
  /\ turn    \in DOMAIN Kinds
  /\ page    \in Nat \ {0}
  /\ vms     \in Seq(Servers) /\ result \in Seq(Servers)
  /\ dropped \in Nat
  /\ unsent  \subseteq DOMAIN vms
  /\ holds   \in [Workers -> DOMAIN vms \cup {0}]
  /\ asked   \in [Fetching -> [Servers -> Nat]]

Begin(some, good) ==
  /\ chosen = some /\ kept = good
  /\ inventory = Inventory
  /\ changes = 0 /\ soft = FALSE
  /\ at      = "list"
  /\ turn    = 1
  /\ page    = 1
  /\ vms     = << >>
  /\ result  = << >>
  /\ dropped = 0
  /\ unsent  = {}
  /\ holds   = [w \in Workers |-> 0]
  /\ asked   = [what \in Fetching |-> [s \in Servers |-> 0]]

Init == \E some, good \in SUBSET Servers : Begin(some, good)

kind == Kinds[turn]

-------------------------------------------------------------------------------
(* The gateway *)

\* A new server is listed first, or last.
Appear(s) ==
  /\ changes < MaxChanges /\ at = "list"
  /\ s \notin InList(inventory.ecs) \cup InList(inventory.bms)
  /\ LET k == IF s \in ECS THEN "ecs" ELSE "bms" IN
     \E q \in {<<s>> \o inventory[k], Append(inventory[k], s)} :
       inventory' = [inventory EXCEPT ![k] = q]
  /\ changes' = changes + 1
  /\ UNCHANGED <<config, soft, at, list, pool>>

Disappear(s) ==
  /\ changes < MaxChanges /\ at = "list"
  /\ s \in InList(inventory.ecs) \cup InList(inventory.bms)
  /\ inventory' = [ecs |-> Only(inventory.ecs, Servers \ {s}),
                   bms |-> Only(inventory.bms, Servers \ {s})]
  /\ changes' = changes + 1
  /\ UNCHANGED <<config, soft, at, list, pool>>

-------------------------------------------------------------------------------
(* collectECS, collectBMS: the list, the filter *)

LastPage(total) == total <= 0 \/ page >= total

\* Mutant: the number dropped is that of this kind only.
FilterLast(all) ==
  /\ vms'     = Only(all, kept)
  /\ dropped' = Len(all) - Len(vms')
  /\ unsent'  = DOMAIN vms'

\* Mutant: the filter comes after the passwords.
FilterLater(all) ==
  /\ vms'     = all
  /\ dropped' = dropped
  /\ unsent'  = DOMAIN vms'

\* filterVMs, and the start of fetchPasswords.
Filter(all) ==
  /\ vms'     = Only(all, kept)
  /\ dropped' = dropped + Len(all) - Len(vms')
  /\ unsent'  = DOMAIN vms'

\* Mutant: a page goes in front of those before it.
GatheredFirst(items) == Only(items, chosen) \o vms

Gathered(items) == vms \o Only(items, chosen)

\* An answer: the servers it lists, and how many pages it says there are.
Listed(items, total) ==
  LET all == Gathered(items) IN
  /\ at = "list"
  /\ \/ /\ LastPage(total)
        /\ Filter(all)
        /\ at' = "passwords"
        /\ UNCHANGED <<page, turn, result, holds, asked>>
     \/ /\ ~LastPage(total)
        /\ vms'  = all
        /\ page' = page + 1
        /\ UNCHANGED <<at, turn, result, dropped, pool>>
  /\ UNCHANGED <<config, inventory, changes>>

ListPage == /\ Listed(PageOf(inventory[kind], page, PageSize), Pages(inventory[kind], PageSize))
            /\ UNCHANGED soft

\* doGET decodes {"Code": ...} into the response without an error.
ListSoftError == Listed(<< >>, 0) /\ soft' = TRUE

Fail == /\ at' = "failed"
        /\ UNCHANGED <<config, gateway, list, pool>>

ListFails == at = "list" /\ Fail

-------------------------------------------------------------------------------
(* fetchPasswords, fetchBmsDetails *)

\* Mutant: an index that is sent stays on the list while others are in hand.
TakeTwice(w, i) ==
  /\ at \in Fetching
  /\ i \in unsent /\ holds[w] = 0
  /\ unsent' = IF \E v \in Workers : holds[v] # 0 THEN unsent ELSE unsent \ {i}
  /\ holds'  = [holds EXCEPT ![w] = i]
  /\ asked'  = [asked EXCEPT ![at][vms[i]] = @ + 1]
  /\ UNCHANGED <<config, gateway, at, list>>

\* The channel has no buffer: an index is sent when a worker takes it.
Take(w, i) ==
  /\ at \in Fetching
  /\ i \in unsent /\ \A n \in unsent : i <= n
  /\ holds[w] = 0
  /\ unsent' = unsent \ {i}
  /\ holds'  = [holds EXCEPT ![w] = i]
  /\ asked'  = [asked EXCEPT ![at][vms[i]] = @ + 1]
  /\ UNCHANGED <<config, gateway, at, list>>

\* Stored or, if the request failed, logged; the worker goes on in both cases.
Answer(w) ==
  /\ at \in Fetching /\ holds[w] # 0
  /\ holds' = [holds EXCEPT ![w] = 0]
  /\ UNCHANGED <<config, gateway, at, list, unsent, asked>>

\* Mutant: nobody waits for the workers.
PoolSent == unsent = {}

\* Mutant: a pool with nothing to do is not over.
PoolWorked == unsent = {} /\ vms # << >> /\ \A w \in Workers : holds[w] = 0

\* wg.Wait returned.
PoolDone == unsent = {} /\ \A w \in Workers : holds[w] = 0

NextKind ==
  /\ turn'   = turn + 1
  /\ page'   = 1
  /\ vms'    = << >>

PasswordsOfBMS ==
  /\ at = "passwords" /\ kind = "bms" /\ PoolDone
  /\ at'     = "details"
  /\ unsent' = DOMAIN vms
  /\ UNCHANGED <<config, gateway, list, holds, asked>>

KindDone ==
  /\ at = IF kind = "bms" THEN "details" ELSE "passwords"
  /\ PoolDone
  /\ result' = result \o vms
  /\ \/ turn < Len(Kinds) /\ at' = "list" /\ NextKind
     \/ /\ turn = Len(Kinds)
        /\ at' = IF result' = << >> THEN "ok" ELSE "enis"
        /\ vms' = << >>
        /\ UNCHANGED <<turn, page>>
  /\ UNCHANGED <<config, gateway, dropped, pool>>

-------------------------------------------------------------------------------
(* collectVMs: what is added to every server *)

Add(from, to) == /\ at = from
                 /\ at' = to
                 /\ UNCHANGED <<config, gateway, list, pool>>

\* A failure leaves the addresses of the cards out.
Enis  == Add("enis", "disks")
\* A failure ends the collection.
Disks == Add("disks", "names") \/ (at = "disks" /\ Fail)
\* A failure leaves the projects' ids in place of their names.
Names == Add("names", "ok")

Gateway == \E s \in Servers : Appear(s) \/ Disappear(s)
Collecting ==
  \/ ListPage \/ ListSoftError \/ ListFails
  \/ \E w \in Workers : Answer(w) \/ \E i \in DOMAIN vms : Take(w, i)
  \/ PasswordsOfBMS \/ KindDone
  \/ Enis \/ Disks \/ Names

Next == Gateway \/ Collecting

Spec == Init /\ [][Next]_vars

\* The collector's own goroutines run on; every request ends, since the client
\* has a timeout, with an answer or an error.
FairSpec == Spec /\ WF_vars(Collecting)

-------------------------------------------------------------------------------
(* Properties *)

\* The reference: one kind's servers, chosen and kept, in the gateway's order.
Wanted(k) == Only(Inventory[k], chosen \cap kept)

\* The inventory has stood still, and every error was told by its HTTP status.
Calm == changes = 0 /\ ~soft

\* A collection that succeeds in calm has every server of the inventory that is
\* chosen and kept, once, in order (main.go:265 "拉取全部服务器").
ResultIsInventory ==
  at = "ok" /\ Calm => result = IF Len(Kinds) = 2 THEN Wanted("ecs") \o Wanted("bms")
                                                  ELSE Wanted(Kinds[1])

\* No request is made for a server outside the chosen projects or removed by
\* the filter (README.md:160 "被过滤的主机不会产生任何 API 请求").
OnlyKeptAreAsked ==
  \A what \in Fetching, s \in Servers : asked[what][s] > 0 => s \in chosen \cap kept

\* In calm, every server in the result was asked for exactly once, by whichever
\* worker; a list that shifts between two pages may bring a server twice.
AskedOnce ==
  Calm => \A i \in DOMAIN result :
    /\ asked["passwords"][result[i]] = 1
    /\ asked["details"][result[i]] = IF result[i] \in BMS THEN 1 ELSE 0

\* In calm, the number reported as filtered is that of the chosen servers that
\* are missing, over all kinds (main.go:413-416).
DroppedIsHonest ==
  at = "ok" /\ Calm =>
    dropped = Cardinality({s \in chosen \ kept : \E n \in DOMAIN Kinds :
                             s \in InList(Inventory[Kinds[n]])})

\* What a calm collection returns and what it reports as filtered fit together.
InventoryInv == ResultIsInventory /\ DroppedIsHonest

\* The requests of the pools are for kept servers, and one for each.
RequestsInv == CollectTypeOK /\ OnlyKeptAreAsked /\ AskedOnce

\* Every collection ends: the pages run out and the pools drain.
CollectEnds == <>(at \in {"ok", "failed"})
=============================================================================
