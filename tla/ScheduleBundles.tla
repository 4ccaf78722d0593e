----------------------------- MODULE ScheduleBundles -----------------------------
(****************************************************************************)
(* Schedule bundles: a named set of schedules.  A client is on a bundle     *)
(* when it is linked to a member for specific clients; the link table is    *)
(* the only record.  The modal decides from its last fetch what it asks and *)
(* whom a new member would be linked to, its dialogs stay open while the    *)
(* data is fetched again under them, and several of its requests can be     *)
(* under way; schedules are retired and linked by others.  Names, and the   *)
(* renaming of a bundle, are left out; a request is one step of the server. *)
(****************************************************************************)
EXTENDS Naturals, FiniteSets

CONSTANTS
  BuSchedules, \* schedules
  BuClients,   \* clients
  MaxRequests  \* bound: requests of the modal, and writes of others

ASSUME BuAssumption == IsFiniteSet(BuSchedules) /\ IsFiniteSet(BuClients) /\ MaxRequests \in Nat

VARIABLES
  kind,    \* server: "default", "specific" (for specific clients) or "retired", by schedule
  links,   \* server: tblScheduleClient
  members, \* server: tblBulkRunScheduleBundleMember of the bundle
  bundle,  \* server: the bundle is there
  known,   \* detail.data: members and clients as last fetched, Unread before
  fetched, \* the detail is being fetched
  open,    \* bundleId is set
  prompt,  \* the open ConfirmDialog, NoDialog for none
  picked,  \* pickedClients
  requests, \* mutations under way
  sent     \* requests and writes of others so far

buServer == <<kind, links, members, bundle>>
buPage == <<known, fetched, open, prompt, picked>>
buVars == <<buServer, buPage, requests, sent>>

\* nonDefaultMembers: live and for specific clients.
Specific(ms) == {s \in ms : kind[s] = "specific"}

LinkedTo(ms) == {c \in BuClients : \E s \in ms : <<s, c>> \in links}

\* How many of the members it needs a client is on: onMembers, ofMembers.
Coverage(c) == [on |-> Cardinality({s \in Specific(members) : <<s, c>> \in links}),
                of |-> Cardinality(Specific(members))]

\* GetBundleDetailAsync.
Detail ==
  [read |-> TRUE,
   members |-> [s \in {s \in members : kind[s] # "retired"} |-> kind[s]],
   clients |-> [c \in LinkedTo(Specific(members)) |-> Coverage(c)]]

Unread == [read |-> FALSE, members |-> << >>, clients |-> << >>]

NoDialog == [asks |-> "nothing"]

\* Clients are attached to it, or it is for all: rule 3 of UpsertAsync.
CanBeBooked(s) == kind[s] = "specific" => \E c \in BuClients : <<s, c>> \in links

BuInit ==
  /\ kind \in [BuSchedules -> {"default", "specific"}]
  /\ links \in SUBSET (BuSchedules \X BuClients) /\ \A s \in BuSchedules : CanBeBooked(s)
  /\ members = {} /\ bundle = FALSE
  /\ known = Unread /\ fetched = FALSE /\ open = FALSE /\ prompt = NoDialog
  /\ picked = {} /\ requests = {} /\ sent = 0

-----------------------------------------------------------------------------
Count == sent < MaxRequests /\ sent' = sent + 1

\* CreateBundleModal: no members yet; the modal opens on it.
CreateBundle ==
  /\ ~bundle /\ ~open
  /\ bundle' = TRUE /\ members' = {}
  /\ open' = TRUE /\ fetched' = TRUE
  /\ UNCHANGED <<kind, links, known, prompt, picked, requests, sent>>

OpenBundle ==
  /\ bundle /\ ~open
  /\ open' = TRUE /\ fetched' \in {TRUE, known = Unread}
  /\ UNCHANGED <<buServer, known, prompt, picked, requests, sent>>

\* The effect on bundleId clears the picker; a prompt is above the modal and holds it.
CloseBundle ==
  /\ open /\ prompt = NoDialog
  /\ open' = FALSE /\ picked' = {}
  /\ UNCHANGED <<buServer, known, fetched, prompt, requests, sent>>

FetchDetail ==
  /\ fetched
  /\ fetched' = FALSE /\ known' = IF bundle THEN Detail ELSE known
  /\ UNCHANGED <<buServer, open, prompt, picked, requests, sent>>

RefocusBundle ==
  /\ open /\ ~fetched
  /\ fetched' = TRUE
  /\ UNCHANGED <<buServer, known, open, prompt, picked, requests, sent>>

\* The modal shows d.
BundleShown == open /\ known # Unread /\ prompt = NoDialog

\* busy: a request of the modal is pending.
NotBusy == requests = {}

Request(r) == requests' = requests \cup {r}

\* A schedule from SchedulePicker, which leaves out the members shown.  Clients shown: a prompt asks
\* whether to link them; none shown: it is added as it is.
PickSchedule(s) ==
  /\ BundleShown /\ s \notin DOMAIN known.members
  /\ IF DOMAIN known.clients # {}
       THEN prompt' = [asks |-> "link", schedule |-> s] /\ UNCHANGED <<requests, sent>>
       ELSE /\ Count /\ prompt' = prompt
            /\ Request([does |-> "add", schedule |-> s, link |-> FALSE])
  /\ UNCHANGED <<buServer, known, fetched, open, picked>>

AnswerLink(yes) ==
  /\ prompt.asks = "link" /\ Count
  /\ Request([does |-> "add", schedule |-> prompt.schedule, link |-> yes])
  /\ prompt' = NoDialog
  /\ UNCHANGED <<buServer, known, fetched, open, picked>>

\* Remove on a schedule, Remove on a client, Delete bundle: off while busy, asked first.
AskRemoveSchedule(s) ==
  /\ BundleShown /\ NotBusy /\ s \in DOMAIN known.members
  /\ prompt' = [asks |-> "remove", schedule |-> s]
  /\ UNCHANGED <<buServer, known, fetched, open, picked, requests, sent>>

AskRemoveClient(c) ==
  /\ BundleShown /\ NotBusy /\ c \in DOMAIN known.clients
  /\ prompt' = [asks |-> "detach", client |-> c]
  /\ UNCHANGED <<buServer, known, fetched, open, picked, requests, sent>>

AskDelete ==
  /\ BundleShown /\ NotBusy
  /\ prompt' = [asks |-> "delete"]
  /\ UNCHANGED <<buServer, known, fetched, open, picked, requests, sent>>

Confirmed ==
  /\ prompt.asks \in {"remove", "detach", "delete"} /\ Count
  /\ Request(CASE prompt.asks = "remove" -> [does |-> "remove", schedule |-> prompt.schedule]
               [] prompt.asks = "detach" -> [does |-> "detach", client |-> prompt.client]
               [] prompt.asks = "delete" -> [does |-> "delete"])
  /\ prompt' = NoDialog
  /\ UNCHANGED <<buServer, known, fetched, open, picked>>

Dismissed ==
  /\ prompt.asks \in {"remove", "detach", "delete"}
  /\ prompt' = NoDialog
  /\ UNCHANGED <<buServer, known, fetched, open, picked, requests, sent>>

\* The picker greys a client that covers every member shown.
Whole(c) == c \in DOMAIN known.clients /\ known.clients[c].on >= known.clients[c].of

PickClient(c) ==
  /\ BundleShown /\ ~Whole(c) /\ c \notin picked
  /\ picked' = picked \cup {c}
  /\ UNCHANGED <<buServer, known, fetched, open, prompt, requests, sent>>

AttachPending == \E r \in requests : r.does = "attach"

\* Add: off while a specific member is not shown, or an attach is pending.
AddClients ==
  /\ BundleShown /\ picked # {} /\ ~AttachPending
  /\ \E s \in DOMAIN known.members : known.members[s] = "specific"
  /\ Count /\ Request([does |-> "attach", clients |-> picked])
  /\ UNCHANGED <<buServer, buPage>>

\* Complete, on a client that misses members.
Complete(c) ==
  /\ BundleShown /\ NotBusy /\ c \in DOMAIN known.clients /\ ~Whole(c)
  /\ Count /\ Request([does |-> "attach", clients |-> {c}])
  /\ UNCHANGED <<buServer, buPage>>

-----------------------------------------------------------------------------
\* The end of a request: what it changed is fetched again; a refusal is a toast.
Answered(r) ==
  /\ requests' = requests \ {r}
  /\ fetched' = (fetched \/ open)
  /\ open' = (open /\ r.does # "delete")
  /\ picked' = IF r.does = "attach" \/ r.does = "delete" THEN {} ELSE picked
  /\ UNCHANGED <<known, prompt, sent>>

\* AddBundleMembersAsync: with link, the clients on the bundle before it joined are linked.
AddMember(r) ==
  /\ r.does = "add" /\ bundle /\ kind[r.schedule] # "retired"
  /\ members' = members \cup {r.schedule}
  /\ links' = links \cup
       {<<s, c>> : s \in IF r.link THEN Specific({r.schedule} \ members) ELSE {},
                   c \in LinkedTo(Specific(members))}
  /\ Answered(r) /\ UNCHANGED <<kind, bundle>>

\* RemoveBundleMemberAsync leaves the links.
RemoveMember(r) ==
  /\ r.does = "remove"
  /\ members' = members \ {r.schedule}
  /\ Answered(r) /\ UNCHANGED <<kind, links, bundle>>

\* AttachClientsToBundleAsync: every live member for specific clients.
AttachClients(r) ==
  /\ r.does = "attach" /\ members # {}
  /\ links' = links \cup (Specific(members) \X r.clients)
  /\ Answered(r) /\ UNCHANGED <<kind, members, bundle>>

\* DetachClientFromBundleAsync: its links to every member, default and retired ones too.
DetachClient(r) ==
  /\ r.does = "detach"
  /\ links' = links \ (members \X {r.client})
  /\ Answered(r) /\ UNCHANGED <<kind, members, bundle>>

\* DeleteBundleAsync: the members go by cascade.
DeleteBundle(r) ==
  /\ r.does = "delete" /\ bundle
  /\ bundle' = FALSE /\ members' = {}
  /\ Answered(r) /\ UNCHANGED <<kind, links>>

\* The bundle or the schedule is gone, or the call fails.
Refused(r) ==
  /\ requests' = requests \ {r}
  /\ UNCHANGED <<buServer, buPage, sent>>

\* Schedules retired, or given clients by their own modal; its Detach keeps the last client.
OthersChange ==
  /\ Count
  /\ \/ \E s \in BuSchedules : kind' = [kind EXCEPT ![s] = "retired"] /\ UNCHANGED links
     \/ \E s \in BuSchedules, c \in BuClients :
          /\ kind[s] # "retired" /\ UNCHANGED kind
          /\ \/ links' = links \cup {<<s, c>>}
             \/ links' = links \ {<<s, c>>} /\ CanBeBooked(s)'
  /\ UNCHANGED <<members, bundle, buPage, requests>>

BuNext ==
  \/ CreateBundle \/ OpenBundle \/ CloseBundle \/ FetchDetail \/ RefocusBundle
  \/ AskDelete \/ Confirmed \/ Dismissed \/ AddClients \/ OthersChange
  \/ \E s \in BuSchedules : PickSchedule(s) \/ AskRemoveSchedule(s)
  \/ \E yes \in BOOLEAN : AnswerLink(yes)
  \/ \E c \in BuClients : AskRemoveClient(c) \/ PickClient(c) \/ Complete(c)
  \/ \E r \in requests : AddMember(r) \/ RemoveMember(r) \/ AttachClients(r) \/ DetachClient(r)
                           \/ DeleteBundle(r) \/ Refused(r)

BuSpec == BuInit /\ [][BuNext]_buVars

-----------------------------------------------------------------------------
\* At most one removal and one attach are under way, although a schedule may be added meanwhile:
\* the buttons are off, or behind a prompt.
BuTypeOK ==
  /\ kind \in [BuSchedules -> {"default", "specific", "retired"}]
  /\ links \subseteq BuSchedules \X BuClients /\ members \subseteq BuSchedules
  /\ bundle \in BOOLEAN /\ (~bundle => members = {}) /\ picked \subseteq BuClients
  /\ DOMAIN known.members \subseteq BuSchedules /\ DOMAIN known.clients \subseteq BuClients
  /\ Cardinality({r \in requests : r.does \in {"remove", "detach", "delete"}}) <= 1
  /\ Cardinality({r \in requests : r.does = "attach"}) <= 1
===============================================================================
