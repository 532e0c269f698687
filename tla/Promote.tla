------------------------------ MODULE Promote ------------------------------
(***************************************************************************)
(* One promoted link and its campaigns (r2/lib/promote.py), the requests   *)
(* that change them (r2/controllers/promotecontroller.py), the hourly job, *)
(* and the authorization holds on the advertiser's card                    *)
(* (r2/lib/authorize/interaction.py, the Bids of r2/models/bidding.py).    *)
(*                                                                         *)
(* Every process works with the copies of the link and of the campaigns it *)
(* has loaded.  Amounts are left out: a payment is for the whole budget.   *)
(***************************************************************************)
EXTENDS Integers, FiniteSets

CONSTANTS
    Campaigns,        \* the campaigns that may be created
    Nobody,           \* no campaign
    Web,              \* request handlers
    MaxDay,           \* bound on time
    MaxRun,           \* bound: days a campaign runs
    MaxHolds,         \* bound: holds the gateway has created
    MaxPromoRequests, \* bound: requests that do not create a campaign
    MaxPromoFaults    \* bound: answers of the gateway lost, voids refused

ASSUME PromoteAssumption ==
    /\ Nobody \notin Campaigns /\ "job" \notin Web
    /\ MaxDay \in Nat /\ MaxRun \in Nat \ {0} /\ MaxHolds \in Nat /\ MaxPromoRequests \in Nat
    /\ MaxPromoFaults \in Nat

\* PROMOTE_STATUS, in its order.
StatusRank == [unpaid |-> 0, unseen |-> 1, accepted |-> 2, rejected |-> 3, pending |-> 4,
               promoted |-> 5, finished |-> 6, edited_live |-> 7]
Statuses == DOMAIN StatusRank

Days == 0..(MaxDay + 1 + MaxRun)
Holds == 1..MaxHolds
NoTransaction == 0
Freebie == -1                    \* the transaction -link._id
Transactions == {NoTransaction, Freebie} \cup Holds

Procs == Web \cup {"job"}

VARIABLES
    day,       \* today, as promo_datetime_now has it
    status,    \* link.promote_status
    camps,     \* camps[c]: the campaign, its PromotionWeights (listed) and trans_id
    bids,      \* bids[h]: the status of the Bid row of a hold
    freebies,  \* freebies[c]: the status of the Bid row of a freebie
    gateway,   \* gateway[h]: what authorize.net knows of a hold, and its campaign
    proc,      \* proc[p]: the request or the run p is working on
    settled,   \* the job has worked alone, and nothing has happened since
    approved,  \* an admin has accepted the link as it is, and has not rejected it
    edited,    \* one has, but it was changed since without becoming edited_live
    odd,       \* what has happened after which the code promises less
    promoRequests, promoFaults  \* against the bounds

promoBounds == <<promoRequests, promoFaults>>
moneyVars == <<bids, freebies, gateway>>
ghostVars == <<settled, approved, edited, odd>>
promoVars == <<day, status, camps, moneyVars, proc, ghostVars, promoBounds>>

BidStatuses == {"none", "AUTH", "CHARGE", "VOID"}
NoCampaign == [state |-> "none", listed |-> FALSE, start |-> 0, end |-> 0, trans |-> NoTransaction]
NoHold == [camp |-> Nobody, state |-> "none"]
AtRest == [op |-> "none", at |-> "idle", camp |-> Nobody, link |-> "unpaid",
           trans |-> [c \in Campaigns |-> NoTransaction], hold |-> NoTransaction,
           todo |-> {}, live |-> FALSE]

Places ==
    [none |-> {"idle"}, budget |-> {"void"}, delete |-> {"void", "delete"},
     pay |-> {"void", "auth", "status", "trans"}, freebie |-> {"void", "auth", "status", "trans"},
     accept |-> {"next", "pending", "promote"}, charge0 |-> {"next", "pending"},
     charge1 |-> {"next", "pending"}, promote |-> {"next", "promote"}]

\* The type invariant, with what get_transactions and charge_transaction take
\* for granted: the transaction of a campaign has its Bid row and is a hold of
\* that campaign, whichever answers of the gateway were lost.
PromoteTypeOK ==
    /\ day \in 0..MaxDay
    /\ status \in Statuses
    /\ camps \in [Campaigns -> [state : {"none", "open", "deleted"}, listed : BOOLEAN,
                                start : Days, end : Days, trans : Transactions]]
    /\ \A c \in Campaigns :
          /\ camps[c].trans = Freebie => freebies[c] # "none"
          /\ camps[c].trans \in Holds =>
                bids[camps[c].trans] # "none" /\ gateway[camps[c].trans].camp = c
    /\ bids \in [Holds -> BidStatuses]
    /\ freebies \in [Campaigns -> BidStatuses]
    /\ gateway \in [Holds -> [camp : Campaigns \cup {Nobody},
                              state : {"none", "held", "captured", "settled", "gone"}]]
    /\ \A p \in Procs :
          /\ proc[p] \in [op : DOMAIN Places, at : UNION {Places[op] : op \in DOMAIN Places},
                          camp : Campaigns \cup {Nobody}, link : Statuses,
                          trans : [Campaigns -> Transactions], hold : Transactions,
                          todo : SUBSET Campaigns, live : BOOLEAN]
          /\ proc[p].at \in Places[proc[p].op]
          /\ (proc[p].at = "idle") = (proc[p] = AtRest)
    /\ settled \in BOOLEAN /\ approved \in BOOLEAN /\ edited \in BOOLEAN
    /\ odd \subseteq {"stale", "lost", "twice", "unvoided"}
    /\ promoRequests \in 0..MaxPromoRequests /\ promoFaults \in 0..MaxPromoFaults

\* new_promotion.
PromoteInit ==
    /\ day = 0
    /\ status = "unpaid"
    /\ camps = [c \in Campaigns |-> NoCampaign]
    /\ bids = [h \in Holds |-> "none"]
    /\ freebies = [c \in Campaigns |-> "none"]
    /\ gateway = [h \in Holds |-> NoHold]
    /\ proc = [p \in Procs |-> AtRest]
    /\ settled = FALSE /\ approved = FALSE /\ edited = FALSE
    /\ odd = {}
    /\ promoRequests = 0 /\ promoFaults = 0

-----------------------------------------------------------------------------
(* Conditions on a copy of the link and of a campaign's transaction        *)

\* Mutant of IsAccepted: whatever comes after accepted.
IsAcceptedLoose(link) == StatusRank[link] >= StatusRank["accepted"]

IsAccepted(link) ==
    link \notin {"rejected", "edited_live"} /\ StatusRank[link] >= StatusRank["accepted"]

\* authorize.is_charged_transaction.
Charged(t, c) ==
    CASE t = NoTransaction -> FALSE
      [] t = Freebie -> freebies[c] = "CHARGE"
      [] OTHER -> bids[t] = "CHARGE"

Runs(c, date) == camps[c].start <= date /\ date < camps[c].end

\* is_live_promo.
IsLive(c) ==
    /\ status = "promoted"
    /\ Runs(c, day) /\ camps[c].trans # NoTransaction /\ Charged(camps[c].trans, c)

Idle(p) == proc[p].at = "idle"
Finish(p) == [proc EXCEPT ![p] = AtRest]

\* update_promote_status with p's copy of the link: _commit writes what has
\* changed in the copy, over whatever the database has.
SetStatus(p, new) ==
    /\ status' = IF new = proc[p].link THEN status ELSE new
    /\ odd' = IF status \notin {proc[p].link, status'} THEN odd \cup {"stale"} ELSE odd

-----------------------------------------------------------------------------
(* Requests that are over at once                                          *)

Request ==
    /\ promoRequests < MaxPromoRequests
    /\ promoRequests' = promoRequests + 1
    /\ settled' = FALSE

\* Dates from first on; the code allows an empty range.
Dates(first) ==
    {d \in Days \X Days : d[1] \in first..(day + 1) /\ d[2] \in d[1]..(d[1] + MaxRun)}

NewCampaign(c) ==
    /\ camps[c].state = "none"
    /\ \E d \in Dates(day) : camps' = [camps EXCEPT ![c] = [NoCampaign EXCEPT
                                        !.state = "open", !.listed = TRUE,
                                        !.start = d[1], !.end = d[2]]]
    /\ settled' = FALSE
    /\ UNCHANGED <<day, status, moneyVars, proc, approved, edited, odd, promoBounds>>

\* edit_campaign with new dates only; a campaign that is paid for and has begun
\* (is_live_promo or is_complete_promo) keeps its start.
EditDates(c) ==
    /\ camps[c].state = "open"
    /\ Request
    /\ \E d \in Dates(0) :
          /\ d # <<camps[c].start, camps[c].end>>
          /\ camps[c].trans # NoTransaction /\ camps[c].start <= day => d[1] = camps[c].start
          /\ camps' = [camps EXCEPT ![c].start = d[1], ![c].end = d[2],
                                    ![c].listed = TRUE]
    /\ UNCHANGED <<day, status, moneyVars, proc, approved, edited, odd, promoFaults>>

TerminateCampaign(c) ==
    /\ IsLive(c)
    /\ Request
    /\ camps' = [camps EXCEPT ![c].end = day, ![c].listed = TRUE]
    /\ status' = IF \E d \in Campaigns \ {c} : camps[d].state # "deleted" /\ IsLive(d)
                 THEN status ELSE "finished"
    /\ UNCHANGED <<day, moneyVars, proc, approved, edited, odd, promoFaults>>

RejectPromotion ==
    /\ status # "rejected"
    /\ Request
    /\ status' = "rejected"
    /\ approved' = FALSE /\ edited' = FALSE
    /\ UNCHANGED <<day, camps, moneyVars, proc, odd, promoFaults>>

\* _edit_promo and POST_editusertext, in any status.  The advertiser's change of
\* a promoted link makes it edited_live; a selftext, a sponsor's change and a link
\* in any other status are not looked at.
EditPromotion ==
    /\ approved' = FALSE
    /\ \/ /\ status = "promoted"
          /\ Request
          /\ status' = "edited_live"
          /\ edited' = FALSE
       \/ /\ edited' = (approved \/ edited)
          /\ UNCHANGED <<status, settled, promoRequests>>
    /\ UNCHANGED <<day, camps, moneyVars, proc, odd, promoFaults>>

-----------------------------------------------------------------------------
(* Requests that call the gateway                                          *)

\* The copies a request or a pass keeps, of the campaigns it will look at.
TransIds(S) == [c \in Campaigns |-> IF c \in S THEN camps[c].trans ELSE NoTransaction]

Loaded(op, place, c) == [AtRest EXCEPT !.op = op, !.at = place, !.camp = c, !.link = status,
                                       !.trans = TransIds({c})]

\* Requests for one campaign that overlap.
Overlaps(c) ==
    IF \E v \in Web : proc[v].camp = c /\ proc[v].op # "accept" THEN odd \cup {"twice"} ELSE odd

\* POST_update_pay for a campaign that has not begun, POST_freebie.
BeginAuth(w, c, op) ==
    /\ Idle(w)
    /\ camps[c].state # "none"
    /\ op = "pay" => camps[c].start >= day
    /\ Request
    /\ proc' = [proc EXCEPT ![w] = Loaded(op, "void", c)]
    /\ odd' = Overlaps(c)
    /\ UNCHANGED <<day, status, camps, moneyVars, approved, edited, promoFaults>>

\* edit_campaign with another budget.
BeginBudget(w, c) ==
    /\ Idle(w)
    /\ camps[c].state = "open"
    /\ IsLive(c) => camps[c].trans = Freebie
    /\ Request
    /\ proc' = [proc EXCEPT ![w] = Loaded("budget", "void", c)]
    /\ odd' = Overlaps(c)
    /\ UNCHANGED <<day, status, camps, moneyVars, approved, edited, promoFaults>>

\* delete_campaign: first its PromotionWeights.
BeginDelete(w, c) ==
    /\ Idle(w)
    /\ camps[c].state # "none"
    /\ Request
    /\ camps' = [camps EXCEPT ![c].listed = FALSE]
    /\ proc' = [proc EXCEPT ![w] = Loaded("delete", "void", c)]
    /\ odd' = Overlaps(c)
    /\ UNCHANGED <<day, status, moneyVars, approved, edited, promoFaults>>

AfterVoid(w) ==
    CASE proc[w].op \in {"pay", "freebie"} ->
            [proc EXCEPT ![w].at = "auth", ![w].trans[proc[w].camp] = NoTransaction]
      [] proc[w].op = "delete" -> [proc EXCEPT ![w].at = "delete"]
      [] OTHER -> Finish(w)

\* What the gateway can still undo (external).
CanVoid(h) == gateway[h].state \in {"held", "captured"}

\* Mutant of HasBid: a charge is left alone.
HasBidUncharged(t, c) == t # NoTransaction /\ ~Charged(t, c)

\* get_transactions.
HasBid(t, c) == t # NoTransaction

\* void_campaign: whether the gateway has voided the hold is not looked at.
VoidCampaign(w) ==
    LET c == proc[w].camp  t == proc[w].trans[c]
    IN  /\ proc[w].at = "void"
        /\ camps' = [camps EXCEPT ![c].trans = IF HasBid(t, c) THEN NoTransaction ELSE @,
                                  ![c].listed = @ \/ proc[w].op = "budget"]
        /\ freebies' = IF HasBid(t, c) /\ t = Freebie THEN [freebies EXCEPT ![c] = "VOID"]
                       ELSE freebies
        /\ IF HasBid(t, c) /\ t \in Holds /\ CanVoid(t)
           THEN /\ gateway' = [gateway EXCEPT ![t].state = "gone"]
                /\ bids' = [bids EXCEPT ![t] = "VOID"]
           ELSE UNCHANGED <<gateway, bids>>
        /\ odd' = IF t \in Holds /\ gateway[t].state = "settled"
                  THEN odd \cup {"unvoided"} ELSE odd
        /\ proc' = AfterVoid(w)
        /\ UNCHANGED <<day, status, settled, approved, edited, promoBounds>>

\* The gateway refuses to void the hold: void_campaign goes on as if it had.
VoidRefused(w) ==
    LET c == proc[w].camp  t == proc[w].trans[c]
    IN  /\ proc[w].at = "void" /\ t \in Holds /\ CanVoid(t)
        /\ promoFaults < MaxPromoFaults
        /\ promoFaults' = promoFaults + 1
        /\ camps' = [camps EXCEPT ![c].trans = NoTransaction,
                                  ![c].listed = @ \/ proc[w].op = "budget"]
        /\ odd' = odd \cup {"unvoided"}
        /\ proc' = AfterVoid(w)
        /\ UNCHANGED <<day, status, moneyVars, settled, approved, edited, promoRequests>>

\* The answer to the void is lost, and the request ends.
VoidLost(w) ==
    LET t == proc[w].trans[proc[w].camp]
    IN  /\ proc[w].at = "void" /\ t \in Holds /\ CanVoid(t)
        /\ promoFaults < MaxPromoFaults
        /\ promoFaults' = promoFaults + 1
        /\ gateway' = [gateway EXCEPT ![t].state = "gone"]
        /\ proc' = Finish(w)
        /\ UNCHANGED <<day, status, camps, bids, freebies, ghostVars, promoRequests>>

DeleteCampaign(w) ==
    /\ proc[w].at = "delete"
    /\ camps' = [camps EXCEPT ![proc[w].camp].state = "deleted"]
    /\ proc' = Finish(w)
    /\ UNCHANGED <<day, status, moneyVars, ghostVars, promoBounds>>

AuthFreebie(w) ==
    LET c == proc[w].camp
    IN  /\ proc[w].at = "auth" /\ proc[w].op = "freebie"
        /\ freebies' = [freebies EXCEPT ![c] = "AUTH"]
        /\ proc' = [proc EXCEPT ![w].at = "status", ![w].hold = Freebie]
        /\ UNCHANGED <<day, status, camps, bids, gateway, ghostVars, promoBounds>>

\* create_authorization_hold: a new hold, or one that the gateway has made for the
\* campaign before, whatever has become of it (DuplicateTransactionError).
NewHolds(c) ==
    {h \in Holds : \/ gateway[h] = NoHold /\ \A g \in 1..(h - 1) : gateway[g] # NoHold
                   \/ gateway[h].camp = c}

Held(h, c) ==
    [gateway EXCEPT ![h] = IF @ = NoHold THEN [camp |-> c, state |-> "held"] ELSE @]

\* Mutant of BidOf: none for the hold of an answer that was lost.
BidOfNew(h) == IF gateway[h] = NoHold THEN "AUTH" ELSE bids[h]

\* The Bid row: auth_transaction also makes one for a hold it learns of now, and
\* leaves the one there is as it is.
BidOf(h) == IF bids[h] = "none" THEN "AUTH" ELSE bids[h]

AuthHold(w) ==
    LET c == proc[w].camp
    IN  /\ proc[w].at = "auth" /\ proc[w].op = "pay"
        /\ \E h \in NewHolds(c) :
              /\ gateway' = Held(h, c)
              /\ bids' = [bids EXCEPT ![h] = BidOf(h)]
              /\ proc' = [proc EXCEPT ![w].at = "status", ![w].hold = h]
        /\ UNCHANGED <<day, status, camps, freebies, ghostVars, promoBounds>>

AuthLost(w) ==
    LET c == proc[w].camp
    IN  /\ proc[w].at = "auth" /\ proc[w].op = "pay"
        /\ promoFaults < MaxPromoFaults
        /\ promoFaults' = promoFaults + 1
        /\ \E h \in NewHolds(c) : gateway' = Held(h, c)
        /\ proc' = Finish(w)
        /\ UNCHANGED <<day, status, camps, bids, freebies, ghostVars, promoRequests>>

\* The card is declined: the copy's trans_id stays 0.
AuthDeclined(w) ==
    /\ proc[w].at = "auth" /\ proc[w].op = "pay"
    /\ proc' = Finish(w)
    /\ UNCHANGED <<day, status, camps, moneyVars, ghostVars, promoBounds>>

\* auth_campaign: a link that was finished is accepted, without review.
StatusOfPaid(link) ==
    IF link = "finished" THEN "accepted"
    ELSE IF StatusRank[link] < StatusRank["unseen"] THEN "unseen" ELSE link

PaidStatus(w) ==
    /\ proc[w].at = "status"
    /\ SetStatus(w, StatusOfPaid(proc[w].link))
    /\ proc' = [proc EXCEPT ![w].at = "trans", ![w].link = StatusOfPaid(@)]
    /\ UNCHANGED <<day, camps, moneyVars, settled, approved, edited, promoBounds>>

PaidTrans(w) ==
    /\ proc[w].at = "trans"
    /\ camps' = [camps EXCEPT ![proc[w].camp].trans = proc[w].hold]
    /\ proc' = Finish(w)
    /\ UNCHANGED <<day, status, moneyVars, ghostVars, promoBounds>>

-----------------------------------------------------------------------------
(* Charging and promoting: accept_promotion and the job                    *)

\* is_accepted_promo, once the link is accepted.
Payable(c, date) == Runs(c, date) /\ camps[c].trans # NoTransaction

\* accept_promotion.  A link that was edited while live is not charged for
\* again (live).
AcceptPromotion(w) ==
    /\ Idle(w)
    /\ Request
    /\ status' = "accepted"
    /\ approved' = TRUE /\ edited' = FALSE
    /\ LET todo == {c \in Campaigns : /\ camps[c].state = "open"
                                      /\ Payable(c, day)}
       IN  proc' = [proc EXCEPT ![w] = [AtRest EXCEPT
              !.op = "accept", !.at = "next", !.link = "accepted", !.todo = todo,
              !.trans = TransIds(todo), !.live = (status = "edited_live")]]
    /\ UNCHANGED <<day, camps, moneyVars, odd, promoFaults>>

\* One pass of the job, with what get_promos finds in PromotionWeights.
Pass(op, offset) ==
    LET todo == {c \in Campaigns : /\ camps[c].listed /\ IsAccepted(status)
                                   /\ Payable(c, day + offset)}
    IN  [AtRest EXCEPT !.op = op, !.at = "next", !.link = status, !.todo = todo,
                       !.trans = TransIds(todo)]

\* make_daily_promotions, which runs every hour.
JobStart ==
    /\ Idle("job") /\ ~settled
    /\ proc' = [proc EXCEPT !["job"] = Pass("charge0", 0)]
    /\ settled' = \A w \in Web : Idle(w)
    /\ UNCHANGED <<day, status, camps, moneyVars, approved, edited, odd, promoBounds>>

Charges(p) == proc[p].op \in {"charge0", "charge1"} \/ (proc[p].op = "accept" /\ ~proc[p].live)
Promotes(p) == proc[p].op \in {"promote", "accept"}

Turn(p, c, place) ==
    [proc EXCEPT ![p].at = place, ![p].todo = @ \ {c}, ![p].trans[c] = NoTransaction]

\* The campaign is charged already, or is not to be charged now.
Consider(p, c) ==
    LET charged == Charged(proc[p].trans[c], c)
    IN  /\ proc[p].at = "next" /\ c \in proc[p].todo
        /\ charged \/ ~Charges(p)
        /\ proc' = Turn(p, c, IF charged /\ Promotes(p) THEN "promote" ELSE "next")
        /\ UNCHANGED <<day, status, camps, moneyVars, ghostVars, promoBounds>>

\* charge_campaign with a transaction that is not charged.
MustCharge(p, c) ==
    /\ proc[p].at = "next" /\ c \in proc[p].todo
    /\ Charges(p) /\ ~Charged(proc[p].trans[c], c)

ChargeFreebie(p, c) ==
    /\ MustCharge(p, c) /\ proc[p].trans[c] = Freebie
    /\ freebies' = [freebies EXCEPT ![c] = "CHARGE"]
    /\ proc' = Turn(p, c, "pending")
    /\ UNCHANGED <<day, status, camps, bids, gateway, ghostVars, promoBounds>>

Capture(p, c) ==
    LET h == proc[p].trans[c]
    IN  /\ MustCharge(p, c) /\ h \in Holds /\ gateway[h].state = "held"
        /\ gateway' = [gateway EXCEPT ![h].state = "captured"]
        /\ bids' = [bids EXCEPT ![h] = "CHARGE"]
        /\ proc' = Turn(p, c, "pending")
        /\ UNCHANGED <<day, status, camps, freebies, ghostVars, promoBounds>>

\* The answer to the capture is lost, and the process ends.
CaptureLost(p, c) ==
    LET h == proc[p].trans[c]
    IN  /\ MustCharge(p, c) /\ h \in Holds /\ gateway[h].state = "held"
        /\ promoFaults < MaxPromoFaults
        /\ promoFaults' = promoFaults + 1
        /\ gateway' = [gateway EXCEPT ![h].state = "captured"]
        /\ proc' = Finish(p)
        /\ odd' = odd \cup {"lost"}
        /\ settled' = FALSE
        /\ UNCHANGED <<day, status, camps, bids, freebies, approved, edited, promoRequests>>

\* AuthorizationHoldNotFound.
HoldNotFound(p, c) ==
    LET h == proc[p].trans[c]
    IN  /\ MustCharge(p, c) /\ h \in Holds /\ gateway[h].state = "gone"
        /\ bids' = [bids EXCEPT ![h] = "VOID"]
        /\ camps' = [camps EXCEPT ![c].trans = NoTransaction]
        /\ odd' = IF camps[c].trans \notin {h, NoTransaction} THEN odd \cup {"twice"} ELSE odd
        /\ proc' = Turn(p, c, "next")
        /\ UNCHANGED <<day, status, freebies, gateway, settled, approved, edited, promoBounds>>

\* Any other error of the gateway, or the hold has been captured: the campaign
\* waits for the next run.
CaptureRefused(p, c) ==
    LET h == proc[p].trans[c]
    IN  /\ MustCharge(p, c) /\ h \in Holds
        /\ gateway[h].state \in {"held", "captured", "settled"}
        /\ proc' = Turn(p, c, "next")
        /\ settled' = (settled /\ gateway[h].state # "held")
        /\ UNCHANGED <<day, status, camps, moneyVars, approved, edited, odd, promoBounds>>

SetPending(p) ==
    LET new == IF proc[p].link = "promoted" THEN "promoted" ELSE "pending"
    IN  /\ proc[p].at = "pending"
        /\ SetStatus(p, new)
        /\ proc' = [proc EXCEPT ![p].link = new,
                                ![p].at = IF Promotes(p) THEN "promote" ELSE "next"]
        /\ UNCHANGED <<day, camps, moneyVars, settled, approved, edited, promoBounds>>

PromoteLink(p) ==
    /\ proc[p].at = "promote"
    /\ SetStatus(p, "promoted")
    /\ proc' = [proc EXCEPT ![p].link = "promoted", ![p].at = "next",
                            ![p].live = @ \/ proc[p].op = "promote"]
    /\ UNCHANGED <<day, camps, moneyVars, settled, approved, edited, promoBounds>>

AcceptEnds(w) ==
    /\ proc[w].at = "next" /\ proc[w].op = "accept" /\ proc[w].todo = {}
    /\ proc' = Finish(w)
    /\ UNCHANGED <<day, status, camps, moneyVars, ghostVars, promoBounds>>

NextPass ==
    /\ proc["job"].at = "next" /\ proc["job"].todo = {}
    /\ \/ /\ proc["job"].op = "charge0"
          /\ proc' = [proc EXCEPT !["job"] = Pass("charge1", 1)]
       \/ /\ proc["job"].op = "charge1"
          /\ proc' = [proc EXCEPT !["job"] = Pass("promote", 0)]
    /\ UNCHANGED <<day, status, camps, moneyVars, ghostVars, promoBounds>>

\* Mutant of Expired: the links the job has just promoted too.
ExpiredAll(live) == status = "promoted"

\* The links to expire: promoted ones that the job has not met.
Expired(live) == status = "promoted" /\ ~live

ExpireLinks ==
    /\ proc["job"].at = "next" /\ proc["job"].todo = {} /\ proc["job"].op = "promote"
    /\ status' = IF Expired(proc["job"].live) THEN "finished" ELSE status
    /\ proc' = Finish("job")
    /\ UNCHANGED <<day, camps, moneyVars, ghostVars, promoBounds>>

-----------------------------------------------------------------------------
(* The gateway, and time                                                   *)

\* The charges of a day are settled (external).
SettleCharges ==
    /\ \E h \in Holds : gateway[h].state = "captured"
    /\ gateway' = [h \in Holds |-> IF gateway[h].state = "captured"
                                   THEN [gateway[h] EXCEPT !.state = "settled"] ELSE gateway[h]]
    /\ UNCHANGED <<day, status, camps, bids, freebies, proc, ghostVars, promoBounds>>

HoldExpires(h) ==
    /\ gateway[h].state = "held"
    /\ gateway' = [gateway EXCEPT ![h].state = "gone"]
    /\ settled' = FALSE
    /\ UNCHANGED <<day, status, camps, bids, freebies, proc, approved, edited, odd, promoBounds>>

DayPasses ==
    /\ day < MaxDay
    /\ day' = day + 1
    /\ settled' = FALSE
    /\ UNCHANGED <<status, camps, moneyVars, proc, approved, edited, odd, promoBounds>>

PromoteNext ==
    \/ \E c \in Campaigns : NewCampaign(c) \/ EditDates(c) \/ TerminateCampaign(c)
    \/ RejectPromotion \/ EditPromotion
    \/ \E w \in Web, c \in Campaigns :
          \/ \E op \in {"pay", "freebie"} : BeginAuth(w, c, op)
          \/ BeginBudget(w, c) \/ BeginDelete(w, c)
    \/ \E w \in Web : \/ VoidCampaign(w) \/ VoidRefused(w) \/ VoidLost(w) \/ DeleteCampaign(w)
                      \/ AuthFreebie(w) \/ AuthHold(w) \/ AuthLost(w) \/ AuthDeclined(w)
                      \/ PaidStatus(w) \/ PaidTrans(w)
                      \/ AcceptPromotion(w) \/ AcceptEnds(w)
    \/ JobStart \/ NextPass \/ ExpireLinks
    \/ \E p \in Procs, c \in Campaigns :
          \/ Consider(p, c) \/ ChargeFreebie(p, c) \/ Capture(p, c) \/ CaptureLost(p, c)
          \/ HoldNotFound(p, c) \/ CaptureRefused(p, c)
    \/ \E p \in Procs : SetPending(p) \/ PromoteLink(p)
    \/ SettleCharges \/ DayPasses \/ \E h \in Holds : HoldExpires(h)

PromoteSpec == PromoteInit /\ [][PromoteNext]_promoVars

-----------------------------------------------------------------------------
(* Properties                                                              *)

\* What goes live, waits to go live, or is left as accepted or finished is what an
\* admin has accepted, through every order of payments, campaigns, rejections,
\* edits and runs of the job, with two exceptions.  The link was changed since then
\* in a way that no code looks at: while it was not promoted, by a sponsor, or in
\* its selftext (edited; promote.py:722 wants a review for a finished one, but
\* nothing calls unapprove_promotion).  Even then its rejection, or a change that
\* made it edited_live, stands.  And a process has written the status from a copy
\* older than somebody else's decision (stale).
LiveIsApproved ==
    status \in {"accepted", "pending", "promoted", "finished"} =>
        approved \/ edited \/ "stale" \in odd

\* Every charge on the advertiser's card is the current transaction of its
\* campaign and is recorded as charged; so no campaign is charged twice, and
\* none that was voided or paid for anew keeps an old charge.  Not when the
\* answer of a capture was lost, when two requests for one campaign overlapped,
\* or when the gateway refused a void that void_campaign then ignores.
ChargedIsCurrent ==
    odd \cap {"lost", "twice", "unvoided"} = {} /\ (\A p \in Procs : Idle(p)) =>
        \A h \in Holds : gateway[h].state \in {"captured", "settled"} =>
            camps[gateway[h].camp].trans = h /\ bids[h] = "CHARGE"

\* Once make_daily_promotions has worked undisturbed, an accepted link is
\* promoted exactly while one of its campaigns runs and is charged, and nothing
\* that runs today or tomorrow is still waiting to be charged.  A run is disturbed
\* by requests, a new day, a hold that expires, a process that ends in a call, and
\* a hold that the gateway refuses to capture: that one waits for the next run.
JobSettles ==
    settled /\ Idle("job") =>
        /\ (status = "promoted") = (/\ IsAccepted(status)
                                    /\ \E c \in Campaigns : /\ camps[c].listed
                                                            /\ Payable(c, day)
                                                            /\ Charged(camps[c].trans, c))
        /\ IsAccepted(status) =>
              \A c \in Campaigns :
                 camps[c].listed /\ (Payable(c, day) \/ Payable(c, day + 1)) =>
                    Charged(camps[c].trans, c) \/ "lost" \in odd
=============================================================================
