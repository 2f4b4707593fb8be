--------------------------- MODULE EventListeners ---------------------------
(* What the BFF does with the events the indexer posts and with logins: the  *)
(* names they are emitted under, the listeners of those names, the rows,     *)
(* scores, tags, notices and campaigns they lead to, and the hourly          *)
(* recalculation beside them.  One profile owns every address; the table of  *)
(* events is the one the BFF's migrations make.                              *)
EXTENDS Integers, FiniteSets, Sequences

CONSTANTS
  MaxWork,      \* events and hourly recalculations of one behaviour
  ManualTag,    \* tags members give
  MaxSaves      \* saves of the tags by a member

(* Sui's own JSON of an event: names of types carry their package and        *)
(* module, and amounts are under parsedJson.                                 *)
RawFields == {"type", "id", "timestampMs", "parsedJson"}

(* What is posted: the router sends the event as it is, after the alert of   *)
(* an amount over the indexer's own threshold.  A login is emitted in the    *)
(* BFF.  The trade is over the threshold of its workspace only.              *)
Payload(kind, type, fields) == [kind |-> kind, type |-> type, fields |-> fields]
WhaleAlert == Payload("swap", "WhaleAlert", RawFields)
Posted == {Payload("stake", "0x2::m::StakeEvent", RawFields), WhaleAlert,
           Payload("swap", "0x2::m::SwapEvent", RawFields),
           Payload("trade", "0x2::m::SwapEvent", RawFields)}
Login == Payload("login", "wallet_connect", {"method"})
Payloads == Posted \union {Login}

(* The names an event is emitted under; what comes after indexer.event is a  *)
(* part of its own here.                                                     *)
Emitted(p) ==
  IF p = Login THEN {<<"indexer.event">>} ELSE {<<"indexer.event">>, <<"indexer.event", p.type>>}

(* The listeners, by the name they gave.  The emitter is made without its    *)
(* wildcard option: names are compared as they are.                          *)
Listener(on, does) == [on |-> on, does |-> does]
Listeners == {
  Listener(<<"indexer.event">>, "ingest"),
  Listener(<<"indexer.event">>, "match"),
  Listener(<<"indexer.event">>, "threshold"),
  Listener(<<"indexer.event", "WhaleAlert">>, "whale"),
  Listener(<<"indexer.event", "wallet_connected">>, "gas"),
  Listener(<<"indexer.event", "*">>, "tags")}
Hears(l, name) == l.on = name

(* Types of triggers the editor of a campaign offers.                        *)
TriggerTypes == {"nft_minted", "token_transferred", "defi_action", "wallet_connected",
                 "segment_entered", "segment_exited", "whale_alert"}

(* Which of the listeners called do more than return at once.                *)
GoesOn(does, p, profile) ==
  CASE does = "ingest"    -> TRUE
    [] does = "match"     -> profile /\ p.type \in TriggerTypes
    [] does = "threshold" -> profile /\ {"amount", "token"} \subseteq p.fields
    [] does = "whale"     -> TRUE
    [] does \in {"gas", "tags"} -> profile
Called(p, profile) ==
  {does \in {l.does : l \in {l \in Listeners : \E n \in Emitted(p) : Hears(l, n)}} :
     GoesOn(does, p, profile)}

-----------------------------------------------------------------------------
(* Tags and scores count the rows of a profile by the type in the row.       *)

Rule(tag, types, least) == [tag |-> tag, types |-> types, least |-> least]
NftTypes  == {"MintNFTEvent", "TransferObject"}
VoteTypes == {"VoteEvent", "DelegateEvent"}
SwapTypes == {"SwapEvent", "AddLiquidityEvent"}
TagRules == {
  Rule("auto:NFT_Collector", NftTypes, 5),
  Rule("auto:DeFi_Power_User", SwapTypes \union {"StakeEvent"}, 10),
  Rule("auto:DAO_Voter", VoteTypes, 3),
  Rule("auto:Diamond_Hands", {"StakeEvent"}, 1)}
(* The sum of amounts for auto:Whale is zero: no row has one.                *)
AutoTags(rows) ==
  {r.tag : r \in {r \in TagRules : Cardinality({p \in rows : p.type \in r.types}) >= r.least}}
AllAutoTags == {r.tag : r \in TagRules}
(* A tag a member thinks of is none of these.                                *)
ASSUME ListenAssumption == ManualTag \intersect AllAutoTags = {}
(* Slip: the tags are those computed.                                        *)
TagsComputed(existing, auto) == auto
MergeTags(existing, auto) == (existing \ AllAutoTags) \union auto

(* The rows a score counts; the age of the oldest row is its other part.     *)
Counted(rows) ==
  {p \in rows : p.type \in NftTypes \union VoteTypes \union SwapTypes \union
                           {"StakeEvent", "UnstakeEvent"}}

-----------------------------------------------------------------------------
VARIABLES
  seen,       \* events delivered
  tasks,      \* handlers under way, and the hourly job
  rows,       \* wallet_events of the profile
  score,      \* the rows the profile's score was computed from
  snapshot,   \* the same of the last snapshot
  tags,
  notices,    \* who notified of which event
  started,    \* the triggers whose campaigns were started, by event
  sweeps,
  saved,      \* the manual tags the members last saved
  saves,
  muddled     \* what went wrong: a task failed, two recalculations overlapped, an
              \* event named no profile, a member saved tags the job had read

listenVars == <<seen, tasks, rows, score, snapshot, tags, notices, started, sweeps, saved,
                saves, muddled>>

ListenInit ==
  /\ seen = {} /\ tasks = {} /\ rows = {} /\ score = {} /\ snapshot = {} /\ tags = {}
  /\ notices = {} /\ started = {} /\ sweeps = 0 /\ saved = {} /\ saves = 0 /\ muddled = {}

Task(does, p, profile) ==
  [does |-> does, of |-> p, profile |-> profile, at |-> does, rows |-> {},
   tags |-> IF does \in {"tags", "recalc"} THEN tags ELSE {}]
Under(t, step) == t \in tasks /\ t.at = step
Goes(t, step) == tasks' = (tasks \ {t}) \union {[t EXCEPT !.at = step]}
Ends(t) == tasks' = tasks \ {t}

(* An event is delivered, its profile named unless the enrichment failed,    *)
(* and every listener of its names is called.  The alert of a swap is posted     *)
(* before the swap; a login finds the profile of its address.                *)
Deliver(p, profile) ==
  /\ p \notin seen /\ Cardinality(seen) + sweeps < MaxWork
  /\ p = Login => profile
  /\ p = WhaleAlert => \A q \in seen : q.kind # "swap"
  /\ seen' = seen \union {p}
  /\ tasks' = tasks \union {Task(does, p, profile) : does \in Called(p, profile)}
  /\ muddled' = IF profile THEN muddled ELSE muddled \union {"nameless"}
  /\ UNCHANGED <<rows, score, snapshot, tags, notices, started, sweeps, saved, saves>>

(* EventIngestListener finds the profile and writes the row.                 *)
Ingest(t) ==
  /\ Under(t, "ingest") /\ rows' = rows \union {t.of} /\ Goes(t, "calculate")
  /\ UNCHANGED <<seen, score, snapshot, tags, notices, started, sweeps, saved, saves, muddled>>

(* EngagementService: read the rows, write the score, then the snapshot.     *)
CalculateScore(t) ==
  /\ Under(t, "calculate")
  /\ tasks' = (tasks \ {t}) \union {[t EXCEPT !.at = "persist", !.rows = rows]}
  /\ muddled' = IF \E u \in tasks : u.at \in {"persist", "snapshot"}
                THEN muddled \union {"overlap"} ELSE muddled
  /\ UNCHANGED <<seen, rows, score, snapshot, tags, notices, started, sweeps, saved, saves>>

PersistScore(t) ==
  /\ Under(t, "persist") /\ score' = t.rows /\ Goes(t, "snapshot")
  /\ UNCHANGED <<seen, rows, snapshot, tags, notices, started, sweeps, saved, saves, muddled>>

WriteSnapshot(t) ==
  /\ Under(t, "snapshot") /\ snapshot' = t.rows /\ Ends(t)
  /\ UNCHANGED <<seen, rows, score, tags, notices, started, sweeps, saved, saves, muddled>>

(* A campaign of every trigger of this type is started for the profile.      *)
Match(t) ==
  /\ Under(t, "match") /\ started' = started \union {<<t.of.type, t.of>>} /\ Ends(t)
  /\ UNCHANGED <<seen, rows, score, snapshot, tags, notices, sweeps, saved, saves, muddled>>

(* WhaleAlertListener notifies the workspace of the profile and emits        *)
(* whale_alert, which starts the campaigns waiting for one.                  *)
Notify(t) ==
  /\ t.at \in {"whale", "threshold"} /\ t \in tasks /\ t.profile
  /\ notices' = notices \union {<<t.does, t.of>>}
  /\ tasks' = (tasks \ {t}) \union
              {[t EXCEPT !.at = "match", !.of = Payload(t.of.kind, "whale_alert", {})]}
  /\ UNCHANGED <<seen, rows, score, snapshot, tags, started, sweeps, saved, saves, muddled>>

(* Without a profile there is no workspace, and the notice is refused.       *)
NotifyNobody(t) ==
  /\ Under(t, "whale") /\ ~t.profile /\ Ends(t)
  /\ UNCHANGED <<seen, rows, score, snapshot, tags, notices, started, sweeps, saved, saves, muddled>>

(* ScoreRecalcJob reads the profiles, then takes one after the other.        *)
StartRecalc ==
  /\ Cardinality(seen) + sweeps < MaxWork /\ ~ \E t \in tasks : t.does = "recalc"
  /\ sweeps' = sweeps + 1
  /\ tasks' = tasks \union {[Task("recalc", Login, TRUE) EXCEPT !.at = "tags"]}
  /\ UNCHANGED <<seen, rows, score, snapshot, tags, notices, started, saved, saves, muddled>>

(* Merge the tags that were read with those computed now.                    *)
UpdateAutoTags(t) ==
  /\ Under(t, "tags")
  /\ tags' = MergeTags(t.tags, AutoTags(rows))
  /\ muddled' = IF tags = t.tags THEN muddled ELSE muddled \union {"tags"}
  /\ IF t.does = "recalc" THEN Goes(t, "calculate") ELSE Ends(t)
  /\ UNCHANGED <<seen, rows, score, snapshot, notices, started, sweeps, saved, saves>>

(* A member saves the tags of the profile, the automatic ones as they are.   *)
SaveTags(manual) ==
  /\ saves < MaxSaves /\ manual # saved
  /\ saves' = saves + 1 /\ saved' = manual /\ tags' = MergeTags(manual, tags \ ManualTag)
  /\ UNCHANGED <<seen, tasks, rows, score, snapshot, notices, started, sweeps, muddled>>

(* A query fails or the BFF stops: what is left of the handler is not done,  *)
(* once in a behaviour.                                                      *)
TaskFails(t) ==
  /\ t \in tasks /\ "failure" \notin muddled /\ Ends(t) /\ muddled' = muddled \union {"failure"}
  /\ UNCHANGED <<seen, rows, score, snapshot, tags, notices, started, sweeps, saved, saves>>

ListenNext ==
  \/ \E p \in Payloads, profile \in BOOLEAN : Deliver(p, profile)
  \/ \E t \in tasks :
       \/ Ingest(t) \/ CalculateScore(t) \/ PersistScore(t) \/ WriteSnapshot(t)
       \/ Match(t) \/ Notify(t) \/ NotifyNobody(t) \/ UpdateAutoTags(t) \/ TaskFails(t)
  \/ StartRecalc
  \/ \E manual \in SUBSET ManualTag : SaveTags(manual)

ListenSpec == ListenInit /\ [][ListenNext]_listenVars

ListenTypeOK ==
  /\ seen \subseteq Payloads /\ rows \subseteq seen
  /\ score \subseteq rows /\ snapshot \subseteq rows
  /\ tags \subseteq ManualTag \union AllAutoTags /\ saved \subseteq ManualTag
  /\ \A t \in tasks : t.at \in {"ingest", "calculate", "persist", "snapshot", "match", "whale",
                                "threshold", "tags"}
  /\ muddled \subseteq {"overlap", "tags", "failure", "nameless"}

-----------------------------------------------------------------------------
AllHandled == tasks = {}

(* The score and its last snapshot lag behind the rows only after a failure  *)
(* or after two recalculations that overlapped.                              *)
ScoreIsCurrent ==
  AllHandled /\ muddled \intersect {"overlap", "failure"} = {} => score = rows /\ snapshot = rows

(* A recalculation leaves the tags of the members alone, unless one of them  *)
(* saved after the job had read the tags.                                    *)
ManualTagsKept == "tags" \notin muddled => tags \intersect ManualTag = saved

(* No event that was posted counts: its row has the full name of its type,   *)
(* and the rules, the score and the triggers have other names.  So no tag is *)
(* automatic, scores are by age alone, and the only events that start a      *)
(* campaign are whale alerts, once each.                                     *)
OnlyWhalesStart ==
  /\ Counted(rows) = {} /\ tags \intersect AllAutoTags = {}
  /\ \A s \in started : s[1] = "whale_alert"
  /\ notices \subseteq {<<"whale", WhaleAlert>>}
  /\ Cardinality(started) <= Cardinality(notices)

ListenersSafety == ScoreIsCurrent /\ ManualTagsKept /\ OnlyWhalesStart

(* What the tests and the roadmap say an event leads to, when every handler  *)
(* is through and none failed: a tag for a stake, a notice for a trade over  *)
(* the threshold of the workspace, a campaign for a login.                   *)
AsTested(p) ==
  CASE p.kind = "stake" -> "auto:Diamond_Hands" \in tags
    [] p.kind = "trade" -> \E n \in notices : n[2] = p
    [] p.kind = "login" -> \E s \in started : s[1] = "wallet_connected"
    [] OTHER -> TRUE
EventsAsTested == AllHandled /\ muddled = {} => \A p \in seen : AsTested(p)
=============================================================================
