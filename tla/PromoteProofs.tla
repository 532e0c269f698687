---------------------------- MODULE PromoteProofs ----------------------------
(***************************************************************************)
(* For any campaigns, request handlers, days, holds, requests, lost        *)
(* answers and refused voids: a link goes live only while an admin's       *)
(* acceptance stands, every charge is the current one of its campaign, and *)
(* the job leaves nothing undone that it could do.                         *)
(***************************************************************************)
EXTENDS Promote, TLAPS

-----------------------------------------------------------------------------
(* The types, process by process                                           *)

Ops == {"none", "budget", "delete", "pay", "freebie", "accept", "charge0", "charge1", "promote"}
Ats == {"idle", "void", "delete", "auth", "status", "trans", "next", "pending", "promote"}

\* The operations that are about one campaign.
CampaignOps == {"budget", "delete", "pay", "freebie"}

CampRecord == [state : {"none", "open", "deleted"}, listed : BOOLEAN,
               start : Days, end : Days, trans : Transactions]
HoldRecord == [camp : Campaigns \cup {Nobody},
               state : {"none", "held", "captured", "settled", "gone"}]
ProcRecord == [op : Ops, at : Ats, camp : Campaigns \cup {Nobody}, link : Statuses,
               trans : [Campaigns -> Transactions], hold : Transactions,
               todo : SUBSET Campaigns, live : BOOLEAN]

\* r is where its operation has it, and what is over is forgotten.
WellPlaced(r) ==
    /\ r.at \in Places[r.op]
    /\ r.at = "idle" => r = AtRest
    /\ r.op \in CampaignOps <=> r.camp \in Campaigns

ProcsTyped ==
    /\ proc \in [Procs -> ProcRecord]
    /\ \A p \in Procs : WellPlaced(proc[p])

\* The job and the requests do not do each other's work.
OwnWork ==
    /\ proc["job"].op \in {"none", "charge0", "charge1", "promote"}
    /\ \A w \in Web : proc[w].op \in CampaignOps \cup {"none", "accept"}

\* A transaction that somebody knows of has its Bid row, and is a hold of that
\* campaign.
Backed(t, c) ==
    /\ t = Freebie => freebies[c] # "none"
    /\ t \in Holds => bids[t] # "none" /\ gateway[t].camp = c

CampsBacked == \A c \in Campaigns : Backed(camps[c].trans, c)
CopiesBacked == \A p \in Procs, c \in Campaigns : Backed(proc[p].trans[c], c)
HoldsBacked ==
    \A p \in Procs : proc[p].at \in {"status", "trans"} => Backed(proc[p].hold, proc[p].camp)

DataTyped ==
    /\ day \in 0..MaxDay
    /\ status \in Statuses
    /\ camps \in [Campaigns -> CampRecord]
    /\ bids \in [Holds -> BidStatuses]
    /\ freebies \in [Campaigns -> BidStatuses]
    /\ gateway \in [Holds -> HoldRecord]
    /\ settled \in BOOLEAN /\ approved \in BOOLEAN /\ edited \in BOOLEAN
    /\ odd \subseteq {"stale", "lost", "twice", "unvoided"}
    /\ promoRequests \in 0..MaxPromoRequests /\ promoFaults \in 0..MaxPromoFaults

PromoteTyped ==
    DataTyped /\ ProcsTyped /\ OwnWork /\ CampsBacked /\ CopiesBacked /\ HoldsBacked

\* The table of places.
LEMMA PlacesAre ==
  /\ DOMAIN Places = Ops
  /\ \A o \in Ops : Places[o] \subseteq Ats
  /\ Places["none"] = {"idle"} /\ Places["budget"] = {"void"}
  /\ Places["delete"] = {"void", "delete"}
  /\ Places["pay"] = {"void", "auth", "status", "trans"}
  /\ Places["freebie"] = {"void", "auth", "status", "trans"}
  /\ Places["accept"] = {"next", "pending", "promote"}
  /\ Places["charge0"] = {"next", "pending"} /\ Places["charge1"] = {"next", "pending"}
  /\ Places["promote"] = {"next", "promote"}
  BY DEF Places, Ops, Ats

LEMMA StatusesAre ==
  /\ Statuses = {"unpaid", "unseen", "accepted", "rejected", "pending", "promoted",
                 "finished", "edited_live"}
  /\ \A s \in Statuses : IsAccepted(s) <=> s \in {"accepted", "pending", "promoted", "finished"}
  /\ \A s \in Statuses : StatusOfPaid(s) = IF s = "finished" THEN "accepted"
                                           ELSE IF s = "unpaid" THEN "unseen" ELSE s
  BY DEF Statuses, StatusRank, IsAccepted, StatusOfPaid

\* The type invariant is a consequence.
LEMMA TypedIsTypeOK == PromoteTyped => PromoteTypeOK
  <1> SUFFICES ASSUME PromoteTyped PROVE PromoteTypeOK
    OBVIOUS
  <1>1. UNION {Places[op] : op \in DOMAIN Places} = Ats
    <2>1. Places["none"] \cup Places["delete"] \cup Places["pay"]
            \cup Places["accept"] = Ats
      BY PlacesAre DEF Ats
    <2>2. QED
      BY <2>1, PlacesAre DEF Ops
  <1>2. ASSUME NEW p \in Procs
        PROVE  /\ proc[p] \in ProcRecord
               /\ proc[p].at \in Places[proc[p].op]
               /\ (proc[p].at = "idle") = (proc[p] = AtRest)
    BY DEF PromoteTyped, ProcsTyped, WellPlaced, AtRest
  <1>3. QED
    BY <1>1, <1>2, PlacesAre
    DEF PromoteTyped, DataTyped, CampsBacked, Backed, PromoteTypeOK, CampRecord, HoldRecord,
        ProcRecord

\* Nobody at work is a process at rest.
LEMMA RestIsPlaced ==
  /\ AtRest \in ProcRecord /\ WellPlaced(AtRest)
  /\ \A c \in Campaigns : AtRest.trans[c] = NoTransaction
  /\ NoTransaction # Freebie /\ NoTransaction \notin Holds /\ Freebie \notin Holds
  /\ NoTransaction \in Transactions /\ Freebie \in Transactions /\ Holds \subseteq Transactions
  <1>1. /\ NoTransaction # Freebie /\ NoTransaction \notin Holds /\ Freebie \notin Holds
        /\ NoTransaction \in Transactions /\ Freebie \in Transactions
        /\ Holds \subseteq Transactions
    BY PromoteAssumption DEF NoTransaction, Freebie, Holds, Transactions
  <1>2. [c \in Campaigns |-> NoTransaction] \in [Campaigns -> Transactions]
    BY <1>1
  <1>3. AtRest \in ProcRecord
    BY <1>1, <1>2, StatusesAre DEF AtRest, ProcRecord, Ops, Ats
  <1>4. AtRest.at \in Places[AtRest.op] /\ AtRest.op \notin CampaignOps
    BY PlacesAre DEF AtRest, CampaignOps
  <1>5. QED
    BY <1>1, <1>3, <1>4, PromoteAssumption DEF WellPlaced, AtRest

\* One process moves on, the others stay.
LEMMA OneMoves ==
  ASSUME ProcsTyped, NEW p \in Procs, NEW r, r \in ProcRecord, WellPlaced(r),
         proc' = [proc EXCEPT ![p] = r]
  PROVE  ProcsTyped' /\ proc'[p] = r /\ \A q \in Procs \ {p} : proc'[q] = proc[q]
  BY DEF ProcsTyped

LEMMA PromoteStarts == PromoteInit => PromoteTyped
  <1> SUFFICES ASSUME PromoteInit PROVE PromoteTyped
    OBVIOUS
  <1> USE PromoteAssumption DEF PromoteInit
  <1>1. NoCampaign \in CampRecord
    BY RestIsPlaced DEF NoCampaign, CampRecord, Days
  <1>2. NoHold \in HoldRecord
    BY DEF NoHold, HoldRecord
  <1>3. DataTyped
    <2>1. camps \in [Campaigns -> CampRecord] /\ gateway \in [Holds -> HoldRecord]
      BY <1>1, <1>2
    <2>2. bids \in [Holds -> BidStatuses] /\ freebies \in [Campaigns -> BidStatuses]
      BY DEF BidStatuses
    <2>3. /\ 0 \in 0..MaxDay /\ 0 \in 0..MaxPromoRequests /\ 0 \in 0..MaxPromoFaults
          /\ status \in Statuses
      BY StatusesAre
    <2>4. QED
      BY <2>1, <2>2, <2>3 DEF DataTyped
  <1>4. ProcsTyped /\ OwnWork
    BY RestIsPlaced DEF ProcsTyped, OwnWork, Procs, AtRest
  <1>5. CampsBacked
    BY RestIsPlaced DEF CampsBacked, Backed, NoCampaign
  <1>6. CopiesBacked /\ HoldsBacked
    BY RestIsPlaced DEF CopiesBacked, HoldsBacked, Backed, AtRest
  <1>7. QED
    BY <1>3, <1>4, <1>5, <1>6 DEF PromoteTyped

-----------------------------------------------------------------------------
(* Every step keeps the types                                              *)

\* Bid rows stay, and a hold stays its campaign's.
MoneyKept ==
    /\ \A h \in Holds : /\ bids[h] # "none" => bids'[h] # "none"
                        /\ gateway[h].camp \in Campaigns => gateway'[h].camp = gateway[h].camp
    /\ \A c \in Campaigns : freebies[c] # "none" => freebies'[c] # "none"

\* p's copies are those it had, or what the campaigns have now; and it has no
\* new hold.
NothingNew(p) ==
    /\ \A c \in Campaigns : proc'[p].trans[c] \in {proc[p].trans[c], NoTransaction, camps[c].trans}
    /\ proc'[p].at \in {"status", "trans"} =>
          /\ proc[p].at \in {"status", "trans"}
          /\ proc'[p].hold = proc[p].hold /\ proc'[p].camp = proc[p].camp

LEMMA BackedStep ==
  ASSUME PromoteTyped, MoneyKept,
         \A c \in Campaigns : camps'[c].trans \in {camps[c].trans, NoTransaction},
         \A p \in Procs : NothingNew(p)
  PROVE  CampsBacked' /\ CopiesBacked' /\ HoldsBacked'
  <1> USE RestIsPlaced
  <1>1. ASSUME NEW t, NEW c \in Campaigns, Backed(t, c)
        PROVE  /\ t = Freebie => freebies'[c] # "none"
               /\ t \in Holds => bids'[t] # "none" /\ gateway'[t].camp = c
    BY <1>1 DEF Backed, MoneyKept
  <1>2. CampsBacked'
    BY <1>1 DEF PromoteTyped, CampsBacked, Backed
  <1>3. CopiesBacked'
    BY <1>1 DEF PromoteTyped, CampsBacked, CopiesBacked, Backed, NothingNew
  <1>4. HoldsBacked'
    <2> SUFFICES ASSUME NEW p \in Procs, proc'[p].at \in {"status", "trans"}
                 PROVE  Backed(proc[p].hold, proc[p].camp)'
      BY DEF HoldsBacked
    <2>1. /\ proc[p].at \in {"status", "trans"} /\ Backed(proc[p].hold, proc[p].camp)
          /\ proc'[p].hold = proc[p].hold /\ proc'[p].camp = proc[p].camp
      BY DEF NothingNew, PromoteTyped, HoldsBacked
    <2>2. proc[p].op \in Ops /\ proc[p].at \in Places[proc[p].op]
      BY DEF PromoteTyped, ProcsTyped, WellPlaced, ProcRecord
    <2>3. proc[p].op \in {"pay", "freebie"}
      BY <2>1, <2>2, PlacesAre DEF Ops
    <2>4. proc[p].camp \in Campaigns
      BY <2>3 DEF PromoteTyped, ProcsTyped, WellPlaced, CampaignOps
    <2>5. QED
      BY <1>1, <2>1, <2>4 DEF Backed
  <1>5. QED
    BY <1>2, <1>3, <1>4

\* Where nobody moves, nothing is new.
LEMMA NobodyMoves ==
  ASSUME UNCHANGED proc, PromoteTyped
  PROVE  ProcsTyped' /\ OwnWork' /\ \A p \in Procs : NothingNew(p)
  <1>1. ProcsTyped' /\ OwnWork'
    BY DEF PromoteTyped, ProcsTyped, OwnWork
  <1>2. QED
    BY <1>1 DEF NothingNew

LEMMA DatesAre ==
  ASSUME NEW first, NEW d \in Dates(first)
  PROVE  d[1] \in Days /\ d[2] \in Days
  BY DEF Dates

LEMMA RequestCounted ==
  ASSUME DataTyped, Request
  PROVE  settled' = FALSE /\ promoRequests' \in 0..MaxPromoRequests
  BY PromoteAssumption DEF DataTyped, Request

LEMMA QuickRequestsTyped ==
  ASSUME PromoteTyped,
         \/ \E c \in Campaigns : NewCampaign(c) \/ EditDates(c) \/ TerminateCampaign(c)
         \/ RejectPromotion \/ EditPromotion
         \/ SettleCharges \/ DayPasses \/ \E h \in Holds : HoldExpires(h)
  PROVE  PromoteTyped'
  <1>1. ASSUME DataTyped', MoneyKept, UNCHANGED proc,
               \A c \in Campaigns : camps'[c].trans \in {camps[c].trans, NoTransaction}
        PROVE  PromoteTyped'
    BY <1>1, NobodyMoves, BackedStep DEF PromoteTyped
  <1>2. DataTyped
    BY DEF PromoteTyped
  <1>3. UNCHANGED moneyVars => MoneyKept
    BY DEF moneyVars, MoneyKept
  <1> USE PromoteAssumption
  <1>4. ASSUME NEW c \in Campaigns, NewCampaign(c)
        PROVE  PromoteTyped'
    <2>1. PICK d \in Dates(day) : camps' = [camps EXCEPT ![c] = [NoCampaign EXCEPT
                                        !.state = "open", !.listed = TRUE,
                                        !.start = d[1], !.end = d[2]]]
      BY <1>4, Zenon DEF NewCampaign
    <2>0. /\ UNCHANGED <<day, status, bids, freebies, gateway, proc, approved, edited, odd>>
          /\ UNCHANGED <<promoRequests, promoFaults>> /\ settled' = FALSE
      BY <1>4, Zenon DEF NewCampaign, moneyVars, promoBounds
    <2>2. [NoCampaign EXCEPT !.state = "open", !.listed = TRUE, !.start = d[1], !.end = d[2]]
            \in CampRecord
      BY DatesAre, RestIsPlaced DEF NoCampaign, CampRecord
    <2>3. DataTyped'
      BY <1>2, <2>0, <2>1, <2>2 DEF DataTyped
    <2>4. \A e \in Campaigns : camps'[e].trans \in {camps[e].trans, NoTransaction}
      BY <1>2, <2>1 DEF DataTyped, NoCampaign
    <2>5. QED
      BY <1>1, <1>3, <2>0, <2>3, <2>4 DEF moneyVars
  <1>5. ASSUME NEW c \in Campaigns, EditDates(c)
        PROVE  PromoteTyped'
    <2>1. PICK d \in Dates(0) : camps' = [camps EXCEPT ![c].start = d[1], ![c].end = d[2],
                                                      ![c].listed = TRUE]
      BY <1>5, Zenon DEF EditDates
    <2>0. /\ UNCHANGED <<day, status, bids, freebies, gateway, proc, approved, edited, odd>>
          /\ UNCHANGED promoFaults /\ Request
      BY <1>5, Zenon DEF EditDates, moneyVars
    <2>2. camps' \in [Campaigns -> CampRecord]
      <3>1. camps[c] \in CampRecord /\ d[1] \in Days /\ d[2] \in Days
        BY <1>2, DatesAre DEF DataTyped
      <3>2. camps' = [camps EXCEPT ![c] = [camps[c] EXCEPT !.start = d[1], !.end = d[2],
                                                           !.listed = TRUE]]
        BY <1>2, <2>1 DEF DataTyped
      <3>3. [camps[c] EXCEPT !.start = d[1], !.end = d[2], !.listed = TRUE] \in CampRecord
        BY <3>1 DEF CampRecord
      <3>4. QED
        BY <1>2, <3>2, <3>3 DEF DataTyped
    <2>3. DataTyped'
      BY <1>2, <2>0, <2>2, RequestCounted DEF DataTyped
    <2>4. \A e \in Campaigns : camps'[e].trans \in {camps[e].trans, NoTransaction}
      BY <1>2, <2>1 DEF DataTyped, CampRecord
    <2>5. QED
      BY <1>1, <1>3, <2>0, <2>3, <2>4 DEF moneyVars
  <1>6. ASSUME NEW c \in Campaigns, TerminateCampaign(c)
        PROVE  PromoteTyped'
    <2>1. day \in Days
      BY <1>2 DEF DataTyped, Days
    <2>2. camps' \in [Campaigns -> CampRecord]
      BY <1>2, <1>6, <2>1 DEF TerminateCampaign, DataTyped, CampRecord
    <2>3. DataTyped'
      BY <1>2, <1>6, <2>2, StatusesAre, RequestCounted
      DEF TerminateCampaign, DataTyped, moneyVars
    <2>4. \A e \in Campaigns : camps'[e].trans \in {camps[e].trans, NoTransaction}
      BY <1>2, <1>6 DEF TerminateCampaign, DataTyped, CampRecord
    <2>5. QED
      BY <1>1, <1>3, <1>6, <2>3, <2>4 DEF TerminateCampaign
  <1>7. ASSUME RejectPromotion \/ EditPromotion \/ DayPasses
        PROVE  PromoteTyped'
    <2>1. DataTyped'
      <3>1. CASE RejectPromotion
        BY <1>2, <3>1, StatusesAre, RequestCounted DEF RejectPromotion, DataTyped, moneyVars
      <3>2. CASE EditPromotion
        <4>1. edited' \in BOOLEAN /\ approved' \in BOOLEAN
          BY <1>2, <3>2, Zenon DEF EditPromotion, DataTyped
        <4>2. /\ status' \in Statuses /\ settled' \in BOOLEAN
              /\ promoRequests' \in 0..MaxPromoRequests
          BY <1>2, <3>2, StatusesAre, RequestCounted DEF EditPromotion, DataTyped
        <4>3. QED
          BY <1>2, <3>2, <4>1, <4>2 DEF EditPromotion, DataTyped, moneyVars
      <3>3. CASE DayPasses
        <4>1. day' \in 0..MaxDay
          BY <1>2, <3>3 DEF DayPasses, DataTyped
        <4>2. QED
          BY <1>2, <3>3, <4>1 DEF DayPasses, DataTyped, moneyVars, promoBounds
      <3>4. QED
        BY <1>7, <3>1, <3>2, <3>3
    <2>2. UNCHANGED <<proc, camps, moneyVars>>
      BY <1>7 DEF RejectPromotion, EditPromotion, DayPasses
    <2>3. QED
      BY <1>1, <1>3, <2>1, <2>2
  <1>8. ASSUME SettleCharges
        PROVE  PromoteTyped'
    <2>1. gateway' = [h \in Holds |-> IF gateway[h].state = "captured"
                                      THEN [gateway[h] EXCEPT !.state = "settled"] ELSE gateway[h]]
      BY <1>8 DEF SettleCharges
    <2>2. gateway' \in [Holds -> HoldRecord] /\ \A h \in Holds : gateway'[h].camp = gateway[h].camp
      BY <1>2, <2>1 DEF DataTyped, HoldRecord
    <2>3. DataTyped' /\ MoneyKept
      BY <1>2, <1>8, <2>2 DEF SettleCharges, DataTyped, MoneyKept, ghostVars, promoBounds
    <2>4. QED
      BY <1>1, <1>8, <2>3 DEF SettleCharges
  <1>9. ASSUME NEW h \in Holds, HoldExpires(h)
        PROVE  PromoteTyped'
    <2>1. /\ gateway' \in [Holds -> HoldRecord]
          /\ \A g \in Holds : gateway'[g].camp = gateway[g].camp
      BY <1>2, <1>9 DEF HoldExpires, DataTyped, HoldRecord
    <2>2. DataTyped' /\ MoneyKept
      BY <1>2, <1>9, <2>1 DEF HoldExpires, DataTyped, MoneyKept, promoBounds
    <2>3. QED
      BY <1>1, <1>9, <2>2 DEF HoldExpires
  <1>10. QED
    BY <1>4, <1>5, <1>6, <1>7, <1>8, <1>9

\* What p may be asked to do.
WorkOf(p) ==
    IF p = "job" THEN {"none", "charge0", "charge1", "promote"}
    ELSE CampaignOps \cup {"none", "accept"}

LEMMA MovedTyped ==
  ASSUME PromoteTyped, DataTyped', MoneyKept,
         \A c \in Campaigns : camps'[c].trans \in {camps[c].trans, NoTransaction},
         NEW p \in Procs, NEW r, r \in ProcRecord, WellPlaced(r), r.op \in WorkOf(p),
         proc' = [proc EXCEPT ![p] = r],
         \A c \in Campaigns : r.trans[c] \in {proc[p].trans[c], NoTransaction, camps[c].trans},
         r.at \in {"status", "trans"} =>
            /\ proc[p].at \in {"status", "trans"}
            /\ r.hold = proc[p].hold /\ r.camp = proc[p].camp
  PROVE  PromoteTyped'
  <1>1. ProcsTyped' /\ proc'[p] = r /\ \A q \in Procs \ {p} : proc'[q] = proc[q]
    BY OneMoves DEF PromoteTyped
  <1>2. \A q \in Procs : NothingNew(q)
    BY <1>1 DEF NothingNew
  <1>3. CampsBacked' /\ CopiesBacked' /\ HoldsBacked'
    BY <1>2, BackedStep
  <1>4. OwnWork'
    BY <1>1, PromoteAssumption DEF OwnWork, PromoteTyped, WorkOf, Procs
  <1>5. QED
    BY <1>1, <1>3, <1>4 DEF PromoteTyped

\* A process that has finished.
LEMMA FinishedTyped ==
  ASSUME PromoteTyped, DataTyped', MoneyKept,
         \A c \in Campaigns : camps'[c].trans \in {camps[c].trans, NoTransaction},
         NEW p \in Procs, proc' = Finish(p)
  PROVE  PromoteTyped'
  <1>1. AtRest.op \in WorkOf(p) /\ AtRest.at = "idle"
    BY DEF AtRest, WorkOf
  <1>2. QED
    BY <1>1, MovedTyped, RestIsPlaced DEF Finish

\* Each process is a record that is well placed.
LEMMA ProcFields ==
  ASSUME PromoteTyped, NEW p \in Procs
  PROVE  /\ proc[p] \in ProcRecord /\ WellPlaced(proc[p]) /\ proc[p].op \in WorkOf(p)
         /\ proc[p].op \in Ops /\ proc[p].at \in Ats /\ proc[p].link \in Statuses
         /\ proc[p].trans \in [Campaigns -> Transactions] /\ proc[p].hold \in Transactions
         /\ proc[p].todo \subseteq Campaigns /\ proc[p].live \in BOOLEAN
         /\ proc[p].at \in Places[proc[p].op]
         /\ proc[p].at \in {"void", "delete", "auth", "status", "trans"} =>
               proc[p].camp \in Campaigns
  <1>1. /\ proc[p] \in ProcRecord /\ WellPlaced(proc[p]) /\ proc[p].op \in WorkOf(p)
    BY DEF PromoteTyped, ProcsTyped, OwnWork, WorkOf, Procs
  <1>2. /\ proc[p].op \in Ops /\ proc[p].at \in Ats /\ proc[p].link \in Statuses
        /\ proc[p].trans \in [Campaigns -> Transactions] /\ proc[p].hold \in Transactions
        /\ proc[p].todo \subseteq Campaigns /\ proc[p].live \in BOOLEAN
    BY <1>1 DEF ProcRecord
  <1>3. /\ proc[p].at \in Places[proc[p].op]
        /\ proc[p].op \in CampaignOps => proc[p].camp \in Campaigns
    BY <1>1 DEF WellPlaced
  <1>4. proc[p].at \in {"void", "delete", "auth", "status", "trans"} =>
           proc[p].op \in CampaignOps
    BY <1>2, <1>3, PlacesAre DEF Ops, CampaignOps
  <1>5. QED
    BY <1>1, <1>2, <1>3, <1>4

\* What a request loads of the campaign it is about.
LEMMA LoadedIs ==
  ASSUME PromoteTyped, NEW c \in Campaigns, NEW op \in CampaignOps
  PROVE  /\ Loaded(op, "void", c) \in ProcRecord /\ WellPlaced(Loaded(op, "void", c))
         /\ Loaded(op, "void", c).op = op /\ Loaded(op, "void", c).at = "void"
         /\ Loaded(op, "void", c).camp = c /\ Loaded(op, "void", c).link = status
         /\ Loaded(op, "void", c).todo = {}
         /\ \A d \in Campaigns : Loaded(op, "void", c).trans[d] =
                                    IF d = c THEN camps[c].trans ELSE NoTransaction
  <1>1. TransIds({c}) \in [Campaigns -> Transactions]
    BY RestIsPlaced DEF TransIds, PromoteTyped, DataTyped, CampRecord
  <1> DEFINE r == Loaded(op, "void", c)
  <1>2. AtRest \in ProcRecord /\ AtRest.todo = {}
    BY RestIsPlaced DEF AtRest
  <1>3. /\ op \in Ops /\ "void" \in Ats /\ c \in Campaigns \cup {Nobody}
        /\ status \in Statuses
    BY DEF CampaignOps, Ops, Ats, PromoteTyped, DataTyped
  <1>4. /\ r \in ProcRecord
        /\ r.op = op /\ r.at = "void" /\ r.camp = c /\ r.link = status
        /\ r.todo = {} /\ r.trans = TransIds({c})
    BY <1>1, <1>2, <1>3 DEF Loaded, ProcRecord
  <1>5. "void" \in Places[op]
    BY PlacesAre DEF CampaignOps
  <1>6. QED
    BY <1>4, <1>5 DEF WellPlaced, TransIds

LEMMA OverlapsTyped == \A c \in Campaigns : DataTyped =>
    Overlaps(c) \subseteq {"stale", "lost", "twice", "unvoided"}
  BY DEF Overlaps, DataTyped

LEMMA BeginsTyped ==
  ASSUME PromoteTyped, NEW w \in Web, NEW c \in Campaigns,
         \/ \E op \in {"pay", "freebie"} : BeginAuth(w, c, op)
         \/ BeginBudget(w, c) \/ BeginDelete(w, c)
  PROVE  PromoteTyped'
  <1>1. DataTyped
    BY DEF PromoteTyped
  <1>2. PICK op \in CampaignOps : proc' = [proc EXCEPT ![w] = Loaded(op, "void", c)]
    BY DEF BeginAuth, BeginBudget, BeginDelete, CampaignOps
  <1>3. /\ Request /\ odd' = Overlaps(c)
        /\ UNCHANGED <<day, status, bids, freebies, gateway, approved, edited, promoFaults>>
        /\ camps' \in {camps, [camps EXCEPT ![c].listed = FALSE]}
    BY DEF BeginAuth, BeginBudget, BeginDelete, moneyVars
  <1>4. /\ camps' \in [Campaigns -> CampRecord]
        /\ \A d \in Campaigns : camps'[d].trans = camps[d].trans
    <2>1. CASE camps' = camps
      BY <1>1, <2>1 DEF DataTyped
    <2>2. CASE camps' = [camps EXCEPT ![c].listed = FALSE]
      BY <1>1, <2>2 DEF DataTyped, CampRecord
    <2>3. QED
      BY <1>3, <2>1, <2>2
  <1>5. DataTyped'
    BY <1>1, <1>3, <1>4, RequestCounted, OverlapsTyped DEF DataTyped
  <1>6. MoneyKept
    BY <1>3 DEF MoneyKept
  <1>7. w \in Procs /\ op \in WorkOf(w)
    BY PromoteAssumption DEF Procs, WorkOf
  <1> DEFINE r == Loaded(op, "void", c)
  <1>8. /\ r \in ProcRecord /\ WellPlaced(r) /\ r.op = op /\ r.at = "void"
        /\ \A d \in Campaigns : r.trans[d] \in {proc[w].trans[d], NoTransaction, camps[d].trans}
    BY LoadedIs
  <1>9. proc' = [proc EXCEPT ![w] = r]
    BY <1>2
  <1> HIDE DEF r
  <1>10. QED
    BY <1>4, <1>5, <1>6, <1>7, <1>8, <1>9, MovedTyped

LEMMA VoidTyped ==
  ASSUME PromoteTyped, NEW w \in Web, VoidCampaign(w) \/ VoidRefused(w)
  PROVE  PromoteTyped'
  <1> DEFINE c == proc[w].camp
             t == proc[w].trans[c]
  <1>1. w \in Procs /\ DataTyped /\ proc[w].at = "void"
    BY DEF Procs, PromoteTyped, VoidCampaign, VoidRefused
  <1>2. c \in Campaigns /\ t \in Transactions
    BY <1>1, ProcFields, SMTT(30)
  <1>3. /\ camps' = [camps EXCEPT ![c].trans = IF HasBid(t, c) THEN NoTransaction ELSE @,
                                   ![c].listed = @ \/ proc[w].op = "budget"]
        /\ freebies' \in {freebies, [freebies EXCEPT ![c] = "VOID"]}
        /\ \/ UNCHANGED <<gateway, bids>>
           \/ /\ t \in Holds
              /\ gateway' = [gateway EXCEPT ![t].state = "gone"]
              /\ bids' = [bids EXCEPT ![t] = "VOID"]
        /\ odd' \in {odd, odd \cup {"unvoided"}}
        /\ proc' = AfterVoid(w)
        /\ UNCHANGED <<day, status, settled, approved, edited, promoRequests>>
    <2>1. CASE VoidCampaign(w)
      BY <2>1 DEF VoidCampaign, promoBounds
    <2>2. CASE VoidRefused(w)
      <3>1. HasBid(t, c)
        BY <2>2, RestIsPlaced DEF VoidRefused, HasBid
      <3>2. QED
        BY <2>2, <3>1 DEF VoidRefused, moneyVars
    <2>3. QED
      BY <2>1, <2>2, SMTT(30)
  <1>0. promoFaults' \in 0..MaxPromoFaults
    <2>1. CASE VoidCampaign(w)
      BY <1>1, <2>1 DEF VoidCampaign, DataTyped, promoBounds
    <2>2. CASE VoidRefused(w)
      <3>1. promoFaults' = promoFaults + 1 /\ promoFaults < MaxPromoFaults
        BY <2>2 DEF VoidRefused
      <3>2. QED
        BY <1>1, <3>1, PromoteAssumption DEF DataTyped
    <2>3. QED
      BY <2>1, <2>2, SMTT(30)
  <1> HIDE DEF c, t
  <1>4. /\ camps' \in [Campaigns -> CampRecord]
        /\ \A d \in Campaigns : camps'[d].trans \in {camps[d].trans, NoTransaction}
    <2>1. camps[c] \in CampRecord
      BY <1>1, <1>2 DEF DataTyped
    <2> DEFINE x == [camps[c] EXCEPT !.trans = IF HasBid(t, c) THEN NoTransaction ELSE @,
                                     !.listed = @ \/ proc[w].op = "budget"]
    <2>2. x \in CampRecord /\ x.trans \in {camps[c].trans, NoTransaction}
      BY <2>1, RestIsPlaced DEF CampRecord
    <2>3. camps' = [camps EXCEPT ![c] = x]
      BY <1>1, <1>2, <1>3 DEF DataTyped
    <2> HIDE DEF x
    <2>4. QED
      BY <1>1, <1>2, <2>2, <2>3 DEF DataTyped
  <1>5. /\ freebies' \in [Campaigns -> BidStatuses]
        /\ \A d \in Campaigns : freebies[d] # "none" => freebies'[d] # "none"
    BY <1>1, <1>2, <1>3 DEF DataTyped, BidStatuses
  <1>6. /\ gateway' \in [Holds -> HoldRecord] /\ bids' \in [Holds -> BidStatuses]
        /\ \A h \in Holds : /\ bids[h] # "none" => bids'[h] # "none"
                            /\ gateway'[h].camp = gateway[h].camp
    <2>1. CASE UNCHANGED <<gateway, bids>>
      BY <1>1, <2>1 DEF DataTyped
    <2>2. CASE /\ t \in Holds
               /\ gateway' = [gateway EXCEPT ![t].state = "gone"]
               /\ bids' = [bids EXCEPT ![t] = "VOID"]
      BY <1>1, <2>2 DEF DataTyped, HoldRecord, BidStatuses
    <2>3. QED
      BY <1>3, <2>1, <2>2
  <1>7. DataTyped'
    BY <1>0, <1>1, <1>3, <1>4, <1>5, <1>6 DEF DataTyped
  <1>8. MoneyKept
    BY <1>5, <1>6 DEF MoneyKept
  <1>9. CASE proc' = Finish(w)
    BY <1>1, <1>4, <1>7, <1>8, <1>9, FinishedTyped
  <1>10. CASE /\ proc[w].op \in {"pay", "freebie"}
              /\ proc' = [proc EXCEPT ![w].at = "auth", ![w].trans[c] = NoTransaction]
    <2> DEFINE r == [proc[w] EXCEPT !.at = "auth", !.trans[c] = NoTransaction]
    <2>1. /\ proc[w] \in ProcRecord /\ WellPlaced(proc[w]) /\ proc[w].op \in WorkOf(w)
          /\ proc[w].trans \in [Campaigns -> Transactions]
      BY <1>1, ProcFields
    <2>2. proc' = [proc EXCEPT ![w] = r]
      BY <1>1, <1>10 DEF PromoteTyped, ProcsTyped
    <2>3. /\ r \in ProcRecord /\ r.at = "auth" /\ r.op = proc[w].op /\ r.camp = proc[w].camp
          /\ r.trans = [proc[w].trans EXCEPT ![c] = NoTransaction]
      BY <2>1, RestIsPlaced DEF ProcRecord, Ats
    <2> HIDE DEF r
    <2>4. WellPlaced(r)
      BY <1>2, <1>10, <2>1, <2>3, PlacesAre DEF WellPlaced, CampaignOps, c
    <2>5. \A d \in Campaigns : r.trans[d] \in {proc[w].trans[d], NoTransaction, camps[d].trans}
      BY <2>1, <2>3
    <2>6. QED
      BY <1>1, <1>4, <1>7, <1>8, <2>1, <2>2, <2>3, <2>4, <2>5, MovedTyped
  <1>11. CASE proc[w].op = "delete" /\ proc' = [proc EXCEPT ![w].at = "delete"]
    <2> DEFINE r == [proc[w] EXCEPT !.at = "delete"]
    <2>1. /\ proc[w] \in ProcRecord /\ WellPlaced(proc[w]) /\ proc[w].op \in WorkOf(w)
      BY <1>1, ProcFields
    <2>2. proc' = [proc EXCEPT ![w] = r]
      BY <1>1, <1>11 DEF PromoteTyped, ProcsTyped
    <2>3. /\ r \in ProcRecord /\ r.at = "delete" /\ r.op = proc[w].op /\ r.camp = proc[w].camp
          /\ r.trans = proc[w].trans
      BY <2>1 DEF ProcRecord, Ats
    <2> HIDE DEF r
    <2>4. WellPlaced(r)
      BY <1>2, <1>11, <2>1, <2>3, PlacesAre DEF WellPlaced, CampaignOps, c
    <2>5. QED
      BY <1>1, <1>4, <1>7, <1>8, <2>1, <2>2, <2>3, <2>4, MovedTyped
  <1>12. QED
    BY <1>3, <1>9, <1>10, <1>11, SMTT(30) DEF AfterVoid, c

\* A process that goes on with what it does.
LEMMA GoesOnTyped ==
  ASSUME PromoteTyped, DataTyped', MoneyKept,
         \A c \in Campaigns : camps'[c].trans \in {camps[c].trans, NoTransaction},
         NEW p \in Procs, NEW r, r \in ProcRecord, r.at # "idle", r.at \in Places[proc[p].op],
         r.op = proc[p].op, r.camp = proc[p].camp,
         proc' = [proc EXCEPT ![p] = r],
         \A c \in Campaigns : r.trans[c] \in {proc[p].trans[c], NoTransaction, camps[c].trans},
         r.at \in {"status", "trans"} => proc[p].at \in {"status", "trans"} /\ r.hold = proc[p].hold
  PROVE  PromoteTyped'
  <1>1. WellPlaced(r) /\ r.op \in WorkOf(p)
    BY ProcFields DEF WellPlaced
  <1>2. QED
    BY <1>1, MovedTyped

\* The bounds, the ghosts and the data stay what they are.
LEMMA UnchangedTyped ==
  ASSUME PromoteTyped, UNCHANGED <<day, status, camps, moneyVars, ghostVars, promoBounds>>
  PROVE  /\ DataTyped' /\ MoneyKept
         /\ \A c \in Campaigns : camps'[c].trans \in {camps[c].trans, NoTransaction}
  BY DEF PromoteTyped, DataTyped, MoneyKept, moneyVars, ghostVars, promoBounds

LEMMA FreebieTyped ==
  ASSUME PromoteTyped, NEW w \in Web, AuthFreebie(w)
  PROVE  PromoteTyped'
  <1> DEFINE c == proc[w].camp
             r == [proc[w] EXCEPT !.at = "status", !.hold = Freebie]
  <1>1. w \in Procs /\ DataTyped /\ proc[w].at = "auth" /\ proc[w].op = "freebie"
    BY DEF Procs, PromoteTyped, AuthFreebie
  <1>2. c \in Campaigns /\ proc[w] \in ProcRecord /\ proc[w].op \in WorkOf(w)
    BY <1>1, ProcFields
  <1>3. proc' = [proc EXCEPT ![w] = r]
    BY <1>1 DEF AuthFreebie, PromoteTyped, ProcsTyped
  <1>4. /\ r \in ProcRecord /\ r.at = "status" /\ r.op = "freebie" /\ r.camp = c
        /\ r.trans = proc[w].trans /\ r.hold = Freebie
    BY <1>1, <1>2, RestIsPlaced DEF ProcRecord, Ats
  <1>5. WellPlaced(r)
    BY <1>2, <1>4, PlacesAre DEF WellPlaced, CampaignOps
  <1> HIDE DEF r
  <1>6. ProcsTyped' /\ proc'[w] = r /\ \A q \in Procs \ {w} : proc'[q] = proc[q]
    BY <1>1, <1>3, <1>4, <1>5, OneMoves DEF PromoteTyped
  <1>7. OwnWork'
    BY <1>1, <1>2, <1>4, <1>6, PromoteAssumption DEF OwnWork, PromoteTyped, WorkOf, Procs
  <1>8. /\ freebies' = [freebies EXCEPT ![c] = "AUTH"] /\ UNCHANGED <<camps, bids, gateway>>
        /\ UNCHANGED <<day, status, ghostVars, promoBounds>>
    BY DEF AuthFreebie
  <1>9. DataTyped'
    BY <1>1, <1>2, <1>8 DEF DataTyped, BidStatuses, ghostVars, promoBounds
  <1>10. freebies'[c] # "none" /\ \A d \in Campaigns : freebies[d] # "none" => freebies'[d] # "none"
    BY <1>1, <1>2, <1>8 DEF DataTyped
  <1> HIDE DEF c
  <1>11. CampsBacked'
    BY <1>8, <1>10 DEF PromoteTyped, CampsBacked, Backed
  <1>12. CopiesBacked'
    <2>1. \A q \in Procs : proc'[q].trans = proc[q].trans
      BY <1>4, <1>6
    <2>2. QED
      BY <1>8, <1>10, <2>1 DEF PromoteTyped, CopiesBacked, Backed
  <1>13. HoldsBacked'
    <2>1. ASSUME NEW q \in Procs \ {w}, proc'[q].at \in {"status", "trans"}
          PROVE  Backed(proc[q].hold, proc[q].camp)'
      <3>1. proc[q].camp \in Campaigns /\ Backed(proc[q].hold, proc[q].camp)
        BY <1>6, <2>1, ProcFields DEF PromoteTyped, HoldsBacked
      <3>2. QED
        BY <1>6, <1>8, <1>10, <2>1, <3>1 DEF Backed
    <2>2. Backed(proc[w].hold, proc[w].camp)'
      BY <1>4, <1>6, <1>10, RestIsPlaced DEF Backed
    <2>3. QED
      BY <2>1, <2>2 DEF HoldsBacked
  <1>14. QED
    BY <1>6, <1>7, <1>9, <1>11, <1>12, <1>13 DEF PromoteTyped

\* A hold that nobody knows of, or that is the campaign's already and stays as it is.
LEMMA NewHoldIs ==
  ASSUME PromoteTyped, NEW c \in Campaigns, NEW h \in NewHolds(c)
  PROVE  /\ h \in Holds /\ gateway[h].camp \in {Nobody, c}
         /\ gateway[h] = NoHold \/ gateway[h].camp = c
         /\ Held(h, c) \in [Holds -> HoldRecord]
         /\ Held(h, c)[h] = IF gateway[h] = NoHold THEN [camp |-> c, state |-> "held"]
                            ELSE gateway[h]
         /\ Held(h, c)[h].camp = c
         /\ \A g \in Holds \ {h} : Held(h, c)[g] = gateway[g]
         /\ BidOf(h) \in BidStatuses \ {"none"} /\ (bids[h] # "none" => BidOf(h) = bids[h])
  <1>1. h \in Holds /\ (gateway[h] = NoHold \/ gateway[h].camp = c)
    BY DEF NewHolds
  <1>2. gateway \in [Holds -> HoldRecord] /\ bids[h] \in BidStatuses
    BY <1>1 DEF PromoteTyped, DataTyped
  <1>3. [camp |-> c, state |-> "held"] \in HoldRecord
    BY DEF HoldRecord
  <1>4. BidOf(h) \in BidStatuses \ {"none"} /\ (bids[h] # "none" => BidOf(h) = bids[h])
    BY <1>2 DEF BidOf, BidStatuses
  <1> DEFINE x == IF gateway[h] = NoHold THEN [camp |-> c, state |-> "held"] ELSE gateway[h]
  <1>5. x \in HoldRecord /\ x.camp = c
    BY <1>1, <1>2, <1>3
  <1>6. Held(h, c) = [gateway EXCEPT ![h] = x]
    BY <1>1, <1>2 DEF Held
  <1>7. gateway[h].camp \in {Nobody, c}
    BY <1>1 DEF NoHold
  <1>8. /\ Held(h, c) \in [Holds -> HoldRecord] /\ Held(h, c)[h] = x
        /\ \A g \in Holds \ {h} : Held(h, c)[g] = gateway[g]
    <2> HIDE DEF x
    <2>1. QED
      BY <1>1, <1>2, <1>5, <1>6
  <1>9. QED
    BY <1>1, <1>4, <1>5, <1>7, <1>8

LEMMA HoldTyped ==
  ASSUME PromoteTyped, NEW w \in Web, AuthHold(w)
  PROVE  PromoteTyped'
  <1> DEFINE c == proc[w].camp
  <1>1. w \in Procs /\ DataTyped /\ proc[w].at = "auth" /\ proc[w].op = "pay"
    BY DEF Procs, PromoteTyped, AuthHold
  <1>2. c \in Campaigns /\ proc[w] \in ProcRecord /\ proc[w].op \in WorkOf(w)
    BY <1>1, ProcFields
  <1>3. PICK h \in NewHolds(c) :
              /\ gateway' = Held(h, c)
              /\ bids' = [bids EXCEPT ![h] = BidOf(h)]
              /\ proc' = [proc EXCEPT ![w].at = "status", ![w].hold = h]
    BY DEF AuthHold
  <1>4. /\ h \in Holds /\ gateway[h].camp \in {Nobody, c}
        /\ gateway' \in [Holds -> HoldRecord] /\ gateway'[h].camp = c
        /\ \A g \in Holds \ {h} : gateway'[g] = gateway[g]
        /\ BidOf(h) \in BidStatuses \ {"none"}
    <2> HIDE DEF c
    <2>1. /\ h \in Holds /\ gateway[h].camp \in {Nobody, c}
          /\ Held(h, c) \in [Holds -> HoldRecord] /\ Held(h, c)[h].camp = c
          /\ \A g \in Holds \ {h} : Held(h, c)[g] = gateway[g]
          /\ BidOf(h) \in BidStatuses \ {"none"}
      BY <1>2, NewHoldIs, ZenonT(40)
    <2>2. QED
      BY <1>3, <2>1, Zenon
  <1> DEFINE r == [proc[w] EXCEPT !.at = "status", !.hold = h]
  <1>5. proc' = [proc EXCEPT ![w] = r]
    BY <1>1, <1>3 DEF PromoteTyped, ProcsTyped
  <1>6. /\ r \in ProcRecord /\ r.at = "status" /\ r.op = "pay" /\ r.camp = c
        /\ r.trans = proc[w].trans /\ r.hold = h
    BY <1>1, <1>2, <1>4, RestIsPlaced DEF ProcRecord, Ats
  <1>7. WellPlaced(r)
    BY <1>2, <1>6, PlacesAre DEF WellPlaced, CampaignOps
  <1> HIDE DEF r
  <1>8. ProcsTyped' /\ proc'[w] = r /\ \A q \in Procs \ {w} : proc'[q] = proc[q]
    BY <1>1, <1>5, <1>6, <1>7, OneMoves DEF PromoteTyped
  <1>9. OwnWork'
    BY <1>1, <1>2, <1>6, <1>8, PromoteAssumption DEF OwnWork, PromoteTyped, WorkOf, Procs
  <1>10. UNCHANGED <<day, status, camps, freebies, ghostVars, promoBounds>>
    BY DEF AuthHold
  <1>11. DataTyped'
    <2>1. bids' \in [Holds -> BidStatuses]
      BY <1>1, <1>3, <1>4 DEF DataTyped
    <2>2. QED
      BY <1>1, <1>4, <1>10, <2>1 DEF DataTyped, ghostVars, promoBounds
  <1>12. /\ gateway'[h].camp = c /\ bids'[h] # "none"
         /\ \A g \in Holds \ {h} : gateway'[g] = gateway[g] /\ bids'[g] = bids[g]
    BY <1>1, <1>3, <1>4 DEF DataTyped
  <1> HIDE DEF c
  <1>13. ASSUME NEW d \in Campaigns, NEW t, Backed(t, d)
         PROVE  /\ t = Freebie => freebies'[d] # "none"
                /\ t \in Holds => bids'[t] # "none" /\ gateway'[t].camp = d
    BY <1>4, <1>10, <1>12, <1>13, PromoteAssumption DEF Backed
  <1>14. CampsBacked'
    BY <1>10, <1>13 DEF PromoteTyped, CampsBacked, Backed
  <1>15. CopiesBacked'
    <2>1. \A q \in Procs : proc'[q].trans = proc[q].trans
      BY <1>6, <1>8
    <2>2. QED
      BY <1>13, <2>1 DEF PromoteTyped, CopiesBacked, Backed
  <1>16. HoldsBacked'
    <2>1. ASSUME NEW q \in Procs \ {w}, proc'[q].at \in {"status", "trans"}
          PROVE  Backed(proc[q].hold, proc[q].camp)'
      <3>1. proc[q].camp \in Campaigns /\ Backed(proc[q].hold, proc[q].camp)
        BY <1>8, <2>1, ProcFields DEF PromoteTyped, HoldsBacked
      <3>2. QED
        BY <1>8, <1>13, <2>1, <3>1 DEF Backed
    <2>2. Backed(proc[w].hold, proc[w].camp)'
      BY <1>4, <1>6, <1>8, <1>12, RestIsPlaced DEF Backed
    <2>3. QED
      BY <2>1, <2>2 DEF HoldsBacked
  <1>17. QED
    BY <1>8, <1>9, <1>11, <1>14, <1>15, <1>16 DEF PromoteTyped

\* update_promote_status.
LEMMA SetStatusTyped ==
  ASSUME PromoteTyped, NEW p \in Procs, NEW new \in Statuses, SetStatus(p, new),
         UNCHANGED <<day, camps, moneyVars, settled, approved, edited, promoBounds>>
  PROVE  /\ DataTyped' /\ MoneyKept
         /\ \A c \in Campaigns : camps'[c].trans \in {camps[c].trans, NoTransaction}
  BY DEF SetStatus, PromoteTyped, DataTyped, MoneyKept, moneyVars, promoBounds

LEMMA PaidTyped ==
  ASSUME PromoteTyped, NEW w \in Web, PaidStatus(w) \/ PaidTrans(w)
  PROVE  PromoteTyped'
  <1>1. /\ w \in Procs /\ DataTyped /\ proc[w].at \in {"status", "trans"}
        /\ proc[w] \in ProcRecord /\ proc[w].camp \in Campaigns /\ proc[w].link \in Statuses
        /\ proc[w].op \in WorkOf(w) /\ proc[w].op \in {"pay", "freebie"}
    <2>1. w \in Procs /\ DataTyped /\ proc[w].at \in {"status", "trans"}
      BY DEF Procs, PromoteTyped, PaidStatus, PaidTrans
    <2>2. /\ proc[w].op \in Ops /\ proc[w].at \in Places[proc[w].op]
          /\ proc[w] \in ProcRecord /\ proc[w].camp \in Campaigns /\ proc[w].link \in Statuses
          /\ proc[w].op \in WorkOf(w)
      BY <2>1, ProcFields
    <2>3. QED
      BY <2>1, <2>2, PlacesAre DEF Ops
  <1>2. CASE PaidStatus(w)
    <2> DEFINE new == StatusOfPaid(proc[w].link)
               r == [proc[w] EXCEPT !.at = "trans", !.link = new]
    <2>1. new \in Statuses
      BY <1>1, StatusesAre
    <2>2. proc' = [proc EXCEPT ![w] = r]
      BY <1>1, <1>2 DEF PaidStatus, PromoteTyped, ProcsTyped
    <2>3. /\ r \in ProcRecord /\ r.at = "trans" /\ r.op = proc[w].op /\ r.camp = proc[w].camp
          /\ r.trans = proc[w].trans /\ r.hold = proc[w].hold
      BY <1>1, <2>1 DEF ProcRecord, Ats
    <2>4. "trans" \in Places[proc[w].op]
      BY <1>1, PlacesAre
    <2>5. /\ DataTyped' /\ MoneyKept
          /\ \A c \in Campaigns : camps'[c].trans \in {camps[c].trans, NoTransaction}
      BY <1>1, <1>2, <2>1, SetStatusTyped DEF PaidStatus
    <2> HIDE DEF r
    <2>6. QED
      BY <1>1, <2>2, <2>3, <2>4, <2>5, GoesOnTyped, ZenonT(40)
  <1>3. CASE PaidTrans(w)
    <2>1. /\ camps' = [camps EXCEPT ![proc[w].camp].trans = proc[w].hold]
          /\ proc' = [proc EXCEPT ![w] = AtRest]
          /\ UNCHANGED <<day, status, bids, freebies, gateway, ghostVars, promoBounds>>
      BY <1>3 DEF PaidTrans, Finish, moneyVars
    <2>2. proc[w].hold \in Transactions /\ Backed(proc[w].hold, proc[w].camp)
      BY <1>1, ProcFields DEF PromoteTyped, HoldsBacked
    <2>3. /\ camps' \in [Campaigns -> CampRecord]
          /\ \A c \in Campaigns : camps'[c].trans =
                IF c = proc[w].camp THEN proc[w].hold ELSE camps[c].trans
      BY <1>1, <2>1, <2>2, SMTT(30) DEF DataTyped, CampRecord
    <2>4. DataTyped'
      BY <1>1, <2>1, <2>3 DEF DataTyped, ghostVars, promoBounds
    <2>5. ProcsTyped' /\ proc'[w] = AtRest /\ \A q \in Procs \ {w} : proc'[q] = proc[q]
      BY <1>1, <2>1, OneMoves, RestIsPlaced DEF PromoteTyped
    <2>6. OwnWork'
      BY <1>1, <2>5, PromoteAssumption DEF OwnWork, PromoteTyped, Procs, AtRest
    <2>7. CampsBacked'
      BY <2>1, <2>2, <2>3 DEF PromoteTyped, CampsBacked, Backed
    <2>8. CopiesBacked'
      BY <2>1, <2>5, RestIsPlaced DEF PromoteTyped, CopiesBacked, Backed
    <2>9. HoldsBacked'
      BY <2>1, <2>5 DEF PromoteTyped, HoldsBacked, Backed, AtRest
    <2>10. QED
      BY <2>4, <2>5, <2>6, <2>7, <2>8, <2>9 DEF PromoteTyped
  <1>4. QED
    BY <1>2, <1>3

LEMMA EndsTyped ==
  ASSUME PromoteTyped, NEW w \in Web,
         \/ DeleteCampaign(w) \/ VoidLost(w) \/ AuthLost(w) \/ AuthDeclined(w)
         \/ AcceptEnds(w)
  PROVE  PromoteTyped'
  <1>1. w \in Procs /\ DataTyped
    BY DEF Procs, PromoteTyped
  <1>2. CASE DeleteCampaign(w)
    <2>1. proc[w].camp \in Campaigns
      BY <1>1, <1>2, ProcFields DEF DeleteCampaign
    <2>2. /\ camps' \in [Campaigns -> CampRecord]
          /\ \A c \in Campaigns : camps'[c].trans = camps[c].trans
      BY <1>1, <1>2, <2>1 DEF DeleteCampaign, DataTyped, CampRecord
    <2>3. DataTyped' /\ MoneyKept
      BY <1>1, <1>2, <2>2
      DEF DeleteCampaign, DataTyped, MoneyKept, moneyVars, ghostVars, promoBounds
    <2>4. QED
      BY <1>1, <1>2, <2>2, <2>3, FinishedTyped DEF DeleteCampaign
  <1>3. CASE AuthLost(w)
    <2>1. proc[w].camp \in Campaigns
      BY <1>1, <1>3, ProcFields DEF AuthLost
    <2>2. PICK h \in NewHolds(proc[w].camp) : gateway' = Held(h, proc[w].camp)
      BY <1>3 DEF AuthLost
    <2>3. /\ h \in Holds /\ gateway[h].camp \in {Nobody, proc[w].camp}
          /\ gateway' \in [Holds -> HoldRecord] /\ gateway'[h].camp = proc[w].camp
          /\ \A g \in Holds \ {h} : gateway'[g] = gateway[g]
      <3> DEFINE c == proc[w].camp
      <3> HIDE DEF c
      <3>0. c \in Campaigns /\ h \in NewHolds(c)
        BY <2>1 DEF c
      <3>1. /\ h \in Holds /\ gateway[h].camp \in {Nobody, c}
            /\ Held(h, c) \in [Holds -> HoldRecord] /\ Held(h, c)[h].camp = c
            /\ \A g \in Holds \ {h} : Held(h, c)[g] = gateway[g]
        BY <3>0, NewHoldIs, ZenonT(40)
      <3>2. gateway' = Held(h, c)
        BY <2>2 DEF c
      <3>3. QED
        BY <3>1, <3>2, Zenon DEF c
    <2>4. \A g \in Holds : gateway[g].camp \in Campaigns => gateway'[g].camp = gateway[g].camp
      BY <2>3, PromoteAssumption
    <2>5. promoFaults' \in 0..MaxPromoFaults
      BY <1>1, <1>3, PromoteAssumption DEF AuthLost, DataTyped
    <2>6. DataTyped' /\ MoneyKept
      BY <1>1, <1>3, <2>3, <2>4, <2>5 DEF AuthLost, DataTyped, MoneyKept, ghostVars
    <2>7. QED
      BY <1>1, <1>3, <2>6, FinishedTyped DEF AuthLost
  <1>4. CASE AuthDeclined(w) \/ AcceptEnds(w)
    BY <1>1, <1>4, UnchangedTyped, FinishedTyped DEF AuthDeclined, AcceptEnds
  <1>5. CASE VoidLost(w)
    <2>1. PICK t \in Holds : gateway' = [gateway EXCEPT ![t].state = "gone"]
      BY <1>5 DEF VoidLost
    <2>2. /\ gateway' \in [Holds -> HoldRecord]
          /\ \A g \in Holds : gateway'[g].camp = gateway[g].camp
      BY <1>1, <2>1 DEF DataTyped, HoldRecord
    <2>3. promoFaults' \in 0..MaxPromoFaults
      BY <1>1, <1>5, PromoteAssumption, SMTT(30) DEF VoidLost, DataTyped
    <2>4. DataTyped' /\ MoneyKept
      BY <1>1, <1>5, <2>2, <2>3 DEF VoidLost, DataTyped, MoneyKept, ghostVars
    <2>5. QED
      BY <1>1, <1>5, <2>4, FinishedTyped DEF VoidLost
  <1>6. QED
    BY <1>2, <1>3, <1>4, <1>5

\* What a pass has loaded.
LEMMA LoadsTodo ==
  ASSUME PromoteTyped, NEW S \in SUBSET Campaigns
  PROVE  /\ TransIds(S) \in [Campaigns -> Transactions]
         /\ \A c \in Campaigns :
               TransIds(S)[c] = IF c \in S THEN camps[c].trans ELSE NoTransaction
  BY RestIsPlaced DEF TransIds, PromoteTyped, DataTyped, CampRecord

LEMMA PassIs ==
  ASSUME PromoteTyped, NEW op \in {"charge0", "charge1", "promote"}, NEW offset \in Int
  PROVE  /\ Pass(op, offset) \in ProcRecord /\ WellPlaced(Pass(op, offset))
         /\ Pass(op, offset).op = op /\ Pass(op, offset).at = "next"
         /\ Pass(op, offset).camp = Nobody
         /\ Pass(op, offset).link = status /\ Pass(op, offset).live = FALSE
         /\ \A c \in Campaigns :
               c \in Pass(op, offset).todo <=> /\ camps[c].listed /\ IsAccepted(status)
                                               /\ Payable(c, day + offset)
         /\ \A c \in Campaigns : Pass(op, offset).trans[c] =
               IF c \in Pass(op, offset).todo THEN camps[c].trans ELSE NoTransaction
  <1> DEFINE todo == {c \in Campaigns : /\ camps[c].listed /\ IsAccepted(status)
                                        /\ Payable(c, day + offset)}
             r == [AtRest EXCEPT !.op = op, !.at = "next", !.link = status, !.todo = todo,
                                 !.trans = TransIds(todo)]
  <1>1. Pass(op, offset) = r
    BY DEF Pass
  <1>2. todo \in SUBSET Campaigns
    OBVIOUS
  <1>3. /\ TransIds(todo) \in [Campaigns -> Transactions]
        /\ \A c \in Campaigns :
               TransIds(todo)[c] = IF c \in todo THEN camps[c].trans ELSE NoTransaction
    BY <1>2, LoadsTodo
  <1>4. /\ AtRest \in ProcRecord /\ op \in Ops /\ "next" \in Ats /\ status \in Statuses
        /\ AtRest.camp = Nobody /\ AtRest.live = FALSE
    BY RestIsPlaced DEF AtRest, Ops, Ats, PromoteTyped, DataTyped
  <1> HIDE DEF todo
  <1>5. /\ r \in ProcRecord /\ r.op = op /\ r.at = "next" /\ r.link = status
        /\ r.todo = todo /\ r.trans = TransIds(todo) /\ r.camp = Nobody /\ r.live = FALSE
    BY <1>2, <1>3, <1>4 DEF ProcRecord
  <1>6. "next" \in Places[op] /\ op \notin CampaignOps
    BY PlacesAre DEF CampaignOps
  <1> HIDE DEF r
  <1>7. WellPlaced(r)
    BY <1>5, <1>6, PromoteAssumption DEF WellPlaced
  <1>8. QED
    BY <1>1, <1>3, <1>5, <1>7 DEF todo

LEMMA PassesTyped ==
  ASSUME PromoteTyped, JobStart \/ NextPass \/ ExpireLinks
  PROVE  PromoteTyped'
  <1>1. "job" \in Procs /\ DataTyped
    BY DEF Procs, PromoteTyped
  <1>2. ASSUME NEW op \in {"charge0", "charge1", "promote"}, NEW offset \in {0, 1},
               proc' = [proc EXCEPT !["job"] = Pass(op, offset)],
               DataTyped', MoneyKept, UNCHANGED camps
        PROVE  PromoteTyped'
    <2> DEFINE r == Pass(op, offset)
    <2>0. offset \in Int
      OBVIOUS
    <2>1. /\ r \in ProcRecord /\ WellPlaced(r) /\ r.op = op /\ r.at = "next"
          /\ \A c \in Campaigns :
                r.trans[c] \in {proc["job"].trans[c], NoTransaction, camps[c].trans}
      <3>1. /\ r \in ProcRecord /\ WellPlaced(r) /\ r.op = op /\ r.at = "next"
            /\ \A c \in Campaigns : r.trans[c] =
                  IF c \in r.todo THEN camps[c].trans ELSE NoTransaction
        BY <2>0, PassIs
      <3>2. QED
        BY <3>1
    <2>2. r.op \in WorkOf("job")
      BY <2>1 DEF WorkOf
    <2>3. proc' = [proc EXCEPT !["job"] = r]
      BY <1>2
    <2> HIDE DEF r
    <2>4. QED
      BY <1>1, <1>2, <2>1, <2>2, <2>3, MovedTyped
  <1>3. CASE JobStart
    <2>1. DataTyped' /\ MoneyKept
      BY <1>1, <1>3 DEF JobStart, DataTyped, MoneyKept, moneyVars, promoBounds
    <2>2. QED
      BY <1>2, <1>3, <2>1 DEF JobStart
  <1>4. CASE NextPass
    BY <1>2, <1>4, UnchangedTyped DEF NextPass
  <1>5. CASE ExpireLinks
    <2>1. DataTyped' /\ MoneyKept
      BY <1>1, <1>5, StatusesAre
      DEF ExpireLinks, DataTyped, MoneyKept, moneyVars, ghostVars, promoBounds
    <2>2. QED
      BY <1>1, <1>5, <2>1, FinishedTyped DEF ExpireLinks
  <1>6. QED
    BY <1>3, <1>4, <1>5

\* What accept_promotion has loaded.
LEMMA AcceptLoads ==
  ASSUME PromoteTyped, NEW w \in Web, AcceptPromotion(w)
  PROVE  \E r \in ProcRecord :
            /\ proc' = [proc EXCEPT ![w] = r]
            /\ r.op = "accept" /\ r.at = "next" /\ r.link = "accepted" /\ r.camp = Nobody
            /\ \A c \in Campaigns : r.trans[c] \in {NoTransaction, camps[c].trans}
  <1> DEFINE todo == {c \in Campaigns : camps[c].state = "open" /\ Payable(c, day)}
             r == [AtRest EXCEPT
                    !.op = "accept", !.at = "next", !.link = "accepted", !.todo = todo,
                    !.trans = TransIds(todo), !.live = (status = "edited_live")]
  <1>1. proc' = [proc EXCEPT ![w] = r]
    BY DEF AcceptPromotion
  <1>2. todo \in SUBSET Campaigns
    OBVIOUS
  <1>3. /\ TransIds(todo) \in [Campaigns -> Transactions]
        /\ \A c \in Campaigns : TransIds(todo)[c] \in {NoTransaction, camps[c].trans}
    BY <1>2, LoadsTodo
  <1>4. /\ AtRest \in ProcRecord /\ AtRest.camp = Nobody
        /\ "accept" \in Ops /\ "next" \in Ats /\ "accepted" \in Statuses
    BY RestIsPlaced, StatusesAre DEF Ops, Ats, AtRest
  <1> HIDE DEF todo
  <1>5. /\ r \in ProcRecord /\ r.op = "accept" /\ r.at = "next" /\ r.trans = TransIds(todo)
        /\ r.link = "accepted" /\ r.camp = Nobody
    BY <1>2, <1>3, <1>4 DEF ProcRecord
  <1> HIDE DEF r
  <1>6. QED
    BY <1>1, <1>3, <1>5

LEMMA AcceptTyped ==
  ASSUME PromoteTyped, NEW w \in Web, AcceptPromotion(w)
  PROVE  PromoteTyped'
  <1>1. w \in Procs /\ DataTyped
    BY DEF Procs, PromoteTyped
  <1>2. PICK r \in ProcRecord :
            /\ proc' = [proc EXCEPT ![w] = r]
            /\ r.op = "accept" /\ r.at = "next" /\ r.camp = Nobody
            /\ \A c \in Campaigns : r.trans[c] \in {NoTransaction, camps[c].trans}
    BY AcceptLoads
  <1>3. WellPlaced(r) /\ r.op \in WorkOf(w)
    BY <1>2, PlacesAre, PromoteAssumption DEF WellPlaced, CampaignOps, WorkOf
  <1>4. DataTyped' /\ MoneyKept /\ UNCHANGED camps
    BY <1>1, StatusesAre, RequestCounted
    DEF AcceptPromotion, DataTyped, MoneyKept, moneyVars
  <1>5. QED
    BY <1>1, <1>2, <1>3, <1>4, MovedTyped

\* Turning to the next campaign, or to the status of the link.
LEMMA TurnTyped ==
  ASSUME PromoteTyped, DataTyped', MoneyKept,
         \A d \in Campaigns : camps'[d].trans \in {camps[d].trans, NoTransaction},
         NEW p \in Procs, NEW c \in Campaigns, NEW place,
         place \in {"next", "pending", "promote"}, place \in Places[proc[p].op],
         proc' = Turn(p, c, place)
  PROVE  PromoteTyped'
  <1> DEFINE r == [proc[p] EXCEPT !.at = place, !.todo = @ \ {c}, !.trans[c] = NoTransaction]
  <1>1. /\ proc[p] \in ProcRecord /\ proc[p].trans \in [Campaigns -> Transactions]
        /\ proc[p].todo \subseteq Campaigns
    BY ProcFields
  <1>2. proc' = [proc EXCEPT ![p] = r]
    BY DEF Turn, PromoteTyped, ProcsTyped
  <1>3. /\ r \in ProcRecord /\ r.at = place /\ r.op = proc[p].op /\ r.camp = proc[p].camp
        /\ r.trans = [proc[p].trans EXCEPT ![c] = NoTransaction]
    BY <1>1, RestIsPlaced DEF ProcRecord, Ats
  <1> HIDE DEF r
  <1>4. \A d \in Campaigns : r.trans[d] \in {proc[p].trans[d], NoTransaction, camps[d].trans}
    BY <1>1, <1>3
  <1>5. QED
    BY <1>2, <1>3, <1>4, GoesOnTyped

LEMMA ChargingTyped ==
  ASSUME PromoteTyped, NEW p \in Procs, NEW c \in Campaigns,
         \/ Consider(p, c) \/ ChargeFreebie(p, c) \/ Capture(p, c) \/ CaptureLost(p, c)
         \/ HoldNotFound(p, c) \/ CaptureRefused(p, c)
  PROVE  PromoteTyped'
  <1> DEFINE h == proc[p].trans[c]
  <1>1. DataTyped /\ proc[p].op \in Ops /\ proc[p].at \in Places[proc[p].op]
    BY ProcFields DEF PromoteTyped
  <1>2. proc[p].at = "next"
    BY DEF Consider, ChargeFreebie, Capture, CaptureLost, HoldNotFound, CaptureRefused, MustCharge
  <1>3. /\ "next" \in Places[proc[p].op]
        /\ Charges(p) => "pending" \in Places[proc[p].op]
        /\ Promotes(p) => "promote" \in Places[proc[p].op]
    BY <1>1, <1>2, PlacesAre DEF Charges, Promotes
  <1>4. ASSUME UNCHANGED bids \/ (h \in Holds /\ \E b \in {"CHARGE", "VOID"} :
                                                       bids' = [bids EXCEPT ![h] = b])
        PROVE  /\ bids' \in [Holds -> BidStatuses]
               /\ \A g \in Holds : bids[g] # "none" => bids'[g] # "none"
    BY <1>1, <1>4 DEF DataTyped, BidStatuses
  <1>5. ASSUME h \in Holds, gateway' = [gateway EXCEPT ![h].state = "captured"]
        PROVE  /\ gateway' \in [Holds -> HoldRecord]
               /\ \A g \in Holds : gateway'[g].camp = gateway[g].camp
    BY <1>1, <1>5 DEF DataTyped, HoldRecord
  <1>6. CASE Consider(p, c)
    <2>1. PICK place : /\ place = IF Charged(h, c) /\ Promotes(p) THEN "promote" ELSE "next"
                       /\ proc' = Turn(p, c, place)
      BY <1>6 DEF Consider
    <2>2. QED
      BY <1>3, <1>6, <2>1, TurnTyped, UnchangedTyped DEF Consider
  <1>7. CASE ChargeFreebie(p, c)
    <2>1. /\ freebies' \in [Campaigns -> BidStatuses]
          /\ \A d \in Campaigns : freebies[d] # "none" => freebies'[d] # "none"
      BY <1>1, <1>7 DEF ChargeFreebie, DataTyped, BidStatuses
    <2>2. DataTyped' /\ MoneyKept /\ UNCHANGED camps
      BY <1>1, <1>7, <2>1 DEF ChargeFreebie, DataTyped, MoneyKept, ghostVars, promoBounds
    <2>3. QED
      BY <1>3, <1>7, <2>2, TurnTyped DEF ChargeFreebie, MustCharge
  <1>8. CASE Capture(p, c)
    <2>1. DataTyped' /\ MoneyKept /\ UNCHANGED camps
      BY <1>1, <1>4, <1>5, <1>8 DEF Capture, DataTyped, MoneyKept, ghostVars, promoBounds
    <2>2. QED
      BY <1>3, <1>8, <2>1, TurnTyped DEF Capture, MustCharge
  <1>9. CASE CaptureLost(p, c)
    <2>1. promoFaults' \in 0..MaxPromoFaults
      BY <1>1, <1>9, PromoteAssumption DEF CaptureLost, DataTyped
    <2>2. DataTyped' /\ MoneyKept /\ UNCHANGED camps
      BY <1>1, <1>5, <1>9, <2>1 DEF CaptureLost, DataTyped, MoneyKept
    <2>3. QED
      BY <1>9, <2>2, FinishedTyped DEF CaptureLost
  <1>10. CASE HoldNotFound(p, c)
    <2>1. /\ camps' \in [Campaigns -> CampRecord]
          /\ \A d \in Campaigns : camps'[d].trans \in {camps[d].trans, NoTransaction}
      BY <1>1, <1>10, RestIsPlaced DEF HoldNotFound, DataTyped, CampRecord
    <2>2. DataTyped' /\ MoneyKept
      BY <1>1, <1>4, <1>10, <2>1 DEF HoldNotFound, DataTyped, MoneyKept, promoBounds
    <2>3. QED
      BY <1>3, <1>10, <2>1, <2>2, TurnTyped DEF HoldNotFound
  <1>11. CASE CaptureRefused(p, c)
    <2>1. settled' \in BOOLEAN
      BY <1>1, <1>11, Zenon DEF CaptureRefused, DataTyped
    <2>2. DataTyped' /\ MoneyKept /\ UNCHANGED camps
      BY <1>1, <1>11, <2>1 DEF CaptureRefused, DataTyped, MoneyKept, moneyVars, promoBounds
    <2>3. QED
      BY <1>3, <1>11, <2>2, TurnTyped DEF CaptureRefused
  <1>12. QED
    BY <1>6, <1>7, <1>8, <1>9, <1>10, <1>11

LEMMA PromotingTyped ==
  ASSUME PromoteTyped, NEW p \in Procs, SetPending(p) \/ PromoteLink(p)
  PROVE  PromoteTyped'
  <1>1. /\ proc[p] \in ProcRecord /\ proc[p].op \in Ops /\ proc[p].at \in Places[proc[p].op]
        /\ proc[p].at \in {"pending", "promote"}
    BY ProcFields DEF SetPending, PromoteLink
  <1>2. /\ "next" \in Places[proc[p].op]
        /\ Promotes(p) => "promote" \in Places[proc[p].op]
    BY <1>1, PlacesAre DEF Ops, Promotes
  <1>3. CASE SetPending(p)
    <2> DEFINE new == IF proc[p].link = "promoted" THEN "promoted" ELSE "pending"
               place == IF Promotes(p) THEN "promote" ELSE "next"
               r == [proc[p] EXCEPT !.link = new, !.at = place]
    <2>1. new \in Statuses /\ place \in Places[proc[p].op] /\ place \in {"promote", "next"}
      BY <1>2, StatusesAre
    <2>2. proc' = [proc EXCEPT ![p] = r] /\ SetStatus(p, new)
      BY <1>3 DEF SetPending, PromoteTyped, ProcsTyped
    <2>3. /\ DataTyped' /\ MoneyKept
          /\ \A c \in Campaigns : camps'[c].trans \in {camps[c].trans, NoTransaction}
      BY <1>3, <2>1, <2>2, SetStatusTyped DEF SetPending
    <2> HIDE DEF new, place
    <2>4. /\ r \in ProcRecord /\ r.at = place /\ r.op = proc[p].op /\ r.camp = proc[p].camp
          /\ r.trans = proc[p].trans
      BY <1>1, <2>1 DEF ProcRecord, Ats
    <2> HIDE DEF r
    <2>5. QED
      BY <2>1, <2>2, <2>3, <2>4, GoesOnTyped
  <1>4. CASE PromoteLink(p)
    <2> DEFINE l == proc[p].live \/ proc[p].op = "promote"
               r == [proc[p] EXCEPT !.link = "promoted", !.at = "next", !.live = l]
    <2>1. proc' = [proc EXCEPT ![p] = r] /\ SetStatus(p, "promoted") /\ "promoted" \in Statuses
      BY <1>4, StatusesAre DEF PromoteLink, PromoteTyped, ProcsTyped
    <2>2. /\ DataTyped' /\ MoneyKept
          /\ \A c \in Campaigns : camps'[c].trans \in {camps[c].trans, NoTransaction}
      BY <1>4, <2>1, SetStatusTyped DEF PromoteLink
    <2>3. /\ r \in ProcRecord /\ r.at = "next" /\ r.op = proc[p].op /\ r.camp = proc[p].camp
          /\ r.trans = proc[p].trans
      <3>1. l \in BOOLEAN
        OBVIOUS
      <3> HIDE DEF l
      <3>2. QED
        BY <1>1, <2>1, <3>1 DEF ProcRecord, Ats
    <2> HIDE DEF r
    <2>4. QED
      BY <1>2, <2>1, <2>2, <2>3, GoesOnTyped
  <1>5. QED
    BY <1>3, <1>4

(***************************************************************************)
(* Requests, the job, the gateway and time keep the types, and every       *)
(* transaction that a campaign or a copy names has its Bid row.            *)
(***************************************************************************)
LEMMA PromoteTypedStep == PromoteTyped /\ [PromoteNext]_promoVars => PromoteTyped'
  <1> SUFFICES ASSUME PromoteTyped, [PromoteNext]_promoVars
               PROVE  PromoteTyped'
    OBVIOUS
  <1>1. CASE UNCHANGED promoVars
    <2>1. UNCHANGED <<day, status, camps, moneyVars, proc, ghostVars, promoBounds>>
      BY <1>1 DEF promoVars
    <2>2. QED
      BY <2>1, UnchangedTyped, NobodyMoves, BackedStep DEF PromoteTyped
  <1>2. CASE PromoteNext
    BY <1>2, QuickRequestsTyped, BeginsTyped, VoidTyped, FreebieTyped, HoldTyped, PaidTyped,
       EndsTyped, PassesTyped, AcceptTyped, ChargingTyped, PromotingTyped
    DEF PromoteNext
  <1>3. QED
    BY <1>1, <1>2

-----------------------------------------------------------------------------
(* Review                                                                  *)

Reviewed == {"accepted", "pending", "promoted", "finished"}

\* An acceptance stands, of the link as it is or as it was.
Accepted == approved \/ edited

\* Whoever has campaigns to look at, or a status to write, has a copy of a link
\* that was accepted.
CopiesReviewed ==
    \A p \in Procs : proc[p].at \in {"pending", "promote"} \/ proc[p].todo # {} =>
                       proc[p].link \in Reviewed

LEMMA CopiesReviewedStep ==
  ASSUME PromoteTyped, CopiesReviewed, [PromoteNext]_promoVars
  PROVE  CopiesReviewed'
  <1>1. /\ proc \in [Procs -> ProcRecord]
        /\ \A p \in Procs : proc[p].todo \subseteq Campaigns /\ proc[p].link \in Statuses
    BY DEF PromoteTyped, ProcsTyped, ProcRecord
  <1>2. ASSUME NEW p \in Procs, NEW r, proc' = [proc EXCEPT ![p] = r],
               r.at \in {"pending", "promote"} \/ r.todo # {} => r.link \in Reviewed
        PROVE  CopiesReviewed'
    BY <1>1, <1>2 DEF CopiesReviewed
  <1>3. ASSUME UNCHANGED proc
        PROVE  CopiesReviewed'
    BY <1>3 DEF CopiesReviewed
  <1>4. ASSUME NEW p \in Procs, proc' = Finish(p)
        PROVE  CopiesReviewed'
    BY <1>2, <1>4 DEF Finish, AtRest
  <1>5. Web \subseteq Procs /\ "job" \in Procs
    BY DEF Procs
  <1>6. ASSUME \/ \E c \in Campaigns : NewCampaign(c) \/ EditDates(c) \/ TerminateCampaign(c)
               \/ RejectPromotion \/ EditPromotion
               \/ SettleCharges \/ DayPasses \/ \E h \in Holds : HoldExpires(h)
        PROVE  CopiesReviewed'
    BY <1>3, <1>6
    DEF NewCampaign, EditDates, TerminateCampaign, RejectPromotion, EditPromotion, SettleCharges,
        DayPasses, HoldExpires
  <1>7. ASSUME NEW w \in Web, NEW c \in Campaigns,
               \/ \E op \in {"pay", "freebie"} : BeginAuth(w, c, op)
               \/ BeginBudget(w, c) \/ BeginDelete(w, c)
        PROVE  CopiesReviewed'
    <2>1. PICK op \in CampaignOps : proc' = [proc EXCEPT ![w] = Loaded(op, "void", c)]
      BY <1>7 DEF BeginAuth, BeginBudget, BeginDelete, CampaignOps
    <2>2. Loaded(op, "void", c).at = "void" /\ Loaded(op, "void", c).todo = {}
      BY LoadedIs
    <2>3. QED
      BY <1>2, <1>5, <2>1, <2>2
  <1>8. ASSUME NEW w \in Web,
               VoidCampaign(w) \/ VoidRefused(w) \/ AuthFreebie(w) \/ AuthHold(w)
        PROVE  CopiesReviewed'
    <2>1. w \in Procs /\ proc[w].camp \in Campaigns
      <3>1. w \in Procs /\ proc[w].at \in {"void", "auth"}
        <4>1. CASE VoidCampaign(w) \/ AuthFreebie(w) \/ AuthHold(w)
          BY <1>5, <4>1, SMTT(40) DEF VoidCampaign, AuthFreebie, AuthHold
        <4>2. CASE VoidRefused(w)
          BY <1>5, <4>2, SMTT(30) DEF VoidRefused
        <4>3. QED
          BY <1>8, <4>1, <4>2, SMTT(30)
      <3>2. QED
        BY <3>1, ProcFields
    <2>2. \/ proc' = Finish(w)
          \/ proc' = [proc EXCEPT ![w].at = "auth", ![w].trans[proc[w].camp] = NoTransaction]
          \/ proc' = [proc EXCEPT ![w].at = "delete"]
          \/ \E h : proc' = [proc EXCEPT ![w].at = "status", ![w].hold = h]
      BY <1>8 DEF VoidCampaign, VoidRefused, AfterVoid, AuthFreebie, AuthHold
    <2>3. CASE proc' = Finish(w)
      BY <1>4, <2>1, <2>3
    <2>4. ASSUME proc' = [proc EXCEPT ![w].at = "auth", ![w].trans[proc[w].camp] = NoTransaction]
          PROVE  CopiesReviewed'
      BY <1>1, <2>1, <2>4 DEF CopiesReviewed, ProcRecord
    <2>5. ASSUME proc' = [proc EXCEPT ![w].at = "delete"]
          PROVE  CopiesReviewed'
      BY <1>1, <2>1, <2>5 DEF CopiesReviewed, ProcRecord
    <2>6. ASSUME NEW h, proc' = [proc EXCEPT ![w].at = "status", ![w].hold = h]
          PROVE  CopiesReviewed'
      BY <1>1, <2>1, <2>6 DEF CopiesReviewed, ProcRecord
    <2>7. QED
      BY <2>2, <2>3, <2>4, <2>5, <2>6
  <1>9. ASSUME NEW w \in Web, \/ DeleteCampaign(w) \/ VoidLost(w) \/ AuthLost(w)
                               \/ AuthDeclined(w) \/ PaidTrans(w) \/ AcceptEnds(w)
        PROVE  CopiesReviewed'
    BY <1>4, <1>5, <1>9
    DEF DeleteCampaign, VoidLost, AuthLost, AuthDeclined, PaidTrans, AcceptEnds
  <1>10. ASSUME NEW w \in Web, PaidStatus(w)
         PROVE  CopiesReviewed'
    <2> DEFINE r == [proc[w] EXCEPT !.at = "trans", !.link = StatusOfPaid(@)]
    <2>1. proc' = [proc EXCEPT ![w] = r]
      BY <1>1, <1>10 DEF PaidStatus
    <2>2. r.at = "trans" /\ r.todo = proc[w].todo /\ r.link = StatusOfPaid(proc[w].link)
      BY <1>1, <1>5 DEF ProcRecord
    <2>3. proc[w].link \in Reviewed => StatusOfPaid(proc[w].link) \in Reviewed
      BY <1>1, <1>5, StatusesAre DEF Reviewed
    <2> HIDE DEF r
    <2>4. QED
      BY <1>2, <1>5, <2>1, <2>2, <2>3 DEF CopiesReviewed
  <1>11. ASSUME NEW w \in Web, AcceptPromotion(w)
         PROVE  CopiesReviewed'
    <2>1. PICK r : proc' = [proc EXCEPT ![w] = r] /\ r.link = "accepted"
      BY <1>11, AcceptLoads
    <2>2. QED
      BY <1>2, <1>5, <2>1 DEF Reviewed
  <1>12. ASSUME NEW op \in {"charge0", "charge1", "promote"}, NEW offset \in Int,
                proc' = [proc EXCEPT !["job"] = Pass(op, offset)]
         PROVE  CopiesReviewed'
    <2>1. /\ Pass(op, offset).at = "next" /\ Pass(op, offset).link = status
          /\ Pass(op, offset).todo # {} => IsAccepted(status)
          /\ status \in Statuses
      <3>1. /\ Pass(op, offset).at = "next" /\ Pass(op, offset).link = status
            /\ Pass(op, offset) \in ProcRecord
            /\ \A c \in Campaigns : c \in Pass(op, offset).todo => IsAccepted(status)
        BY PassIs
      <3>2. Pass(op, offset).todo \subseteq Campaigns
        BY <3>1 DEF ProcRecord
      <3>3. QED
        BY <3>1, <3>2 DEF PromoteTyped, DataTyped
    <2>2. QED
      BY <1>2, <1>5, <1>12, <2>1, StatusesAre DEF Reviewed
  <1>13. ASSUME JobStart \/ NextPass \/ ExpireLinks
         PROVE  CopiesReviewed'
    <2>1. \/ proc' = Finish("job")
          \/ proc' = [proc EXCEPT !["job"] = Pass("charge0", 0)]
          \/ proc' = [proc EXCEPT !["job"] = Pass("charge1", 1)]
          \/ proc' = [proc EXCEPT !["job"] = Pass("promote", 0)]
      BY <1>13 DEF JobStart, NextPass, ExpireLinks
    <2>2. 0 \in Int /\ 1 \in Int
      OBVIOUS
    <2>3. QED
      BY <1>4, <1>5, <1>12, <2>1, <2>2
  <1>14. ASSUME NEW p \in Procs, NEW c \in Campaigns,
                \/ Consider(p, c) \/ ChargeFreebie(p, c) \/ Capture(p, c) \/ CaptureLost(p, c)
                \/ HoldNotFound(p, c) \/ CaptureRefused(p, c)
         PROVE  CopiesReviewed'
    <2>1. CASE proc' = Finish(p)
      BY <1>4, <2>1
    <2>2. ASSUME NEW place, proc' = Turn(p, c, place), c \in proc[p].todo
          PROVE  CopiesReviewed'
      <3> DEFINE r == [proc[p] EXCEPT !.at = place, !.todo = @ \ {c}, !.trans[c] = NoTransaction]
      <3>1. proc' = [proc EXCEPT ![p] = r]
        BY <1>1, <2>2 DEF Turn
      <3>2. r.link = proc[p].link
        BY <1>1 DEF ProcRecord
      <3>3. proc[p].link \in Reviewed
        BY <2>2 DEF CopiesReviewed
      <3> HIDE DEF r
      <3>4. QED
        BY <1>2, <3>1, <3>2, <3>3
    <2>3. QED
      BY <1>14, <2>1, <2>2
      DEF Consider, ChargeFreebie, Capture, CaptureLost, HoldNotFound, CaptureRefused, MustCharge
  <1>15. ASSUME NEW p \in Procs, SetPending(p)
         PROVE  CopiesReviewed'
    <2> DEFINE r == [proc[p] EXCEPT
                       !.link = IF proc[p].link = "promoted" THEN "promoted" ELSE "pending",
                       !.at = IF Promotes(p) THEN "promote" ELSE "next"]
    <2>1. proc' = [proc EXCEPT ![p] = r]
      BY <1>1, <1>15 DEF SetPending
    <2>2. r.link \in {"promoted", "pending"}
      BY <1>1 DEF ProcRecord
    <2> HIDE DEF r
    <2>3. QED
      BY <1>2, <2>1, <2>2 DEF Reviewed
  <1>16. ASSUME NEW p \in Procs, PromoteLink(p)
         PROVE  CopiesReviewed'
    <2> DEFINE l == proc[p].live \/ proc[p].op = "promote"
               r == [proc[p] EXCEPT !.link = "promoted", !.at = "next", !.live = l]
    <2>1. proc' = [proc EXCEPT ![p] = r] /\ r.link = "promoted"
      BY <1>1, <1>16 DEF PromoteLink, ProcRecord
    <2> HIDE DEF r
    <2>2. QED
      BY <1>2, <2>1 DEF Reviewed
  <1>17. CASE UNCHANGED promoVars
    BY <1>3, <1>17 DEF promoVars
  <1>18. QED
    BY <1>6, <1>7, <1>8, <1>9, <1>10, <1>11, <1>13, <1>14, <1>15, <1>16, <1>17 DEF PromoteNext

(***************************************************************************)
(* update_promote_status leads from a reviewed copy to a reviewed status,  *)
(* and from no other; the review itself is undone by a rejection and by an *)
(* edit of what is live.                                                   *)
(***************************************************************************)
LEMMA ApprovalStep ==
  ASSUME PromoteTyped, CopiesReviewed, LiveIsApproved, [PromoteNext]_promoVars
  PROVE  LiveIsApproved'
  <1> SUFFICES ASSUME status' \in Reviewed, "stale" \notin odd'
               PROVE  Accepted'
    BY DEF LiveIsApproved, Reviewed, Accepted
  <1>1. "stale" \notin odd => (status \in Reviewed => Accepted)
    BY DEF LiveIsApproved, Reviewed, Accepted
  <1>2. ASSUME NEW p \in Procs, NEW new, SetStatus(p, new), UNCHANGED <<approved, edited>>,
               new \in Reviewed => proc[p].link \in Reviewed
        PROVE  Accepted'
    <2>0. Accepted' = Accepted
      BY <1>2 DEF Accepted
    <2>1. "stale" \notin odd
      BY <1>2 DEF SetStatus
    <2>2. status' = status => Accepted'
      BY <1>1, <2>0, <2>1
    <2>3. ASSUME status' # status
          PROVE  Accepted'
      <3>1. status' = new /\ new # proc[p].link /\ status \in {proc[p].link, status'}
        BY <1>2, <2>3 DEF SetStatus
      <3>2. status \in Reviewed
        BY <1>2, <2>3, <3>1
      <3>3. QED
        BY <1>1, <2>0, <2>1, <3>2
    <2>4. QED
      BY <2>2, <2>3
  <1>3. CASE UNCHANGED <<status, approved, edited>> /\ odd \subseteq odd'
    BY <1>1, <1>3 DEF Accepted
  <1>4. ASSUME NEW c \in Campaigns, TerminateCampaign(c)
        PROVE  Accepted'
    BY <1>1, <1>4 DEF TerminateCampaign, IsLive, Reviewed, Accepted
  <1>5. CASE RejectPromotion \/ EditPromotion
    <2>1. ~RejectPromotion /\ status' # "edited_live"
      BY DEF RejectPromotion, Reviewed
    <2>2. status' = status /\ odd' = odd /\ edited' = (approved \/ edited)
      BY <1>5, <2>1, Zenon DEF EditPromotion
    <2>3. QED
      BY <1>1, <2>2 DEF Accepted
  <1>6. ASSUME NEW w \in Web, AcceptPromotion(w)
        PROVE  Accepted'
    BY <1>6 DEF AcceptPromotion, Accepted
  <1>7. ASSUME NEW w \in Web, PaidStatus(w)
        PROVE  Accepted'
    <2>1. w \in Procs /\ proc[w].link \in Statuses
      BY ProcFields DEF Procs
    <2>2. StatusOfPaid(proc[w].link) \in Reviewed => proc[w].link \in Reviewed
      BY <2>1, StatusesAre DEF Reviewed
    <2>3. QED
      BY <1>2, <1>7, <2>1, <2>2 DEF PaidStatus
  <1>8. ASSUME NEW p \in Procs, SetPending(p) \/ PromoteLink(p)
        PROVE  Accepted'
    <2>1. proc[p].link \in Reviewed
      BY <1>8 DEF SetPending, PromoteLink, CopiesReviewed
    <2>2. QED
      BY <1>2, <1>8, <2>1 DEF SetPending, PromoteLink
  <1>9. CASE ExpireLinks
    BY <1>1, <1>9 DEF ExpireLinks, Expired, ghostVars, Reviewed, Accepted
  <1>10. CASE UNCHANGED promoVars
    BY <1>3, <1>10 DEF promoVars, ghostVars
  <1>11. ASSUME NEW c \in Campaigns, NewCampaign(c) \/ EditDates(c)
         PROVE  Accepted'
    BY <1>3, <1>11 DEF NewCampaign, EditDates
  <1>12. ASSUME NEW w \in Web, NEW c \in Campaigns,
               \/ \E op \in {"pay", "freebie"} : BeginAuth(w, c, op)
               \/ BeginBudget(w, c) \/ BeginDelete(w, c)
         PROVE  Accepted'
    <2>1. ASSUME NEW op \in {"pay", "freebie"}, BeginAuth(w, c, op)
          PROVE  Accepted'
      BY <1>3, <2>1 DEF BeginAuth, Overlaps
    <2>2. CASE BeginBudget(w, c)
      BY <1>3, <2>2 DEF BeginBudget, Overlaps
    <2>3. CASE BeginDelete(w, c)
      <3>1. /\ approved' = approved /\ edited' = edited /\ status' = status
            /\ odd' = Overlaps(c)
        BY <2>3, Zenon DEF BeginDelete
      <3>2. QED
        BY <1>3, <3>1 DEF Overlaps
    <2>4. QED
      BY <1>12, <2>1, <2>2, <2>3
  <1>13. ASSUME NEW w \in Web,
                      \/ VoidCampaign(w) \/ VoidRefused(w) \/ VoidLost(w) \/ DeleteCampaign(w)
                      \/ AuthFreebie(w) \/ AuthHold(w) \/ AuthLost(w) \/ AuthDeclined(w)
                      \/ PaidTrans(w) \/ AcceptEnds(w)
         PROVE  Accepted'
    BY <1>3, <1>13 DEF VoidCampaign, VoidRefused, VoidLost, DeleteCampaign, AuthFreebie,
                       AuthHold, AuthLost, AuthDeclined, PaidTrans, AcceptEnds, ghostVars
  <1>14. CASE \/ JobStart \/ NextPass \/ SettleCharges \/ DayPasses
              \/ \E h \in Holds : HoldExpires(h)
    BY <1>3, <1>14 DEF JobStart, NextPass, SettleCharges, DayPasses, HoldExpires, ghostVars
  <1>15. ASSUME NEW p \in Procs, NEW c \in Campaigns,
                \/ Consider(p, c) \/ ChargeFreebie(p, c) \/ Capture(p, c) \/ CaptureLost(p, c)
                \/ HoldNotFound(p, c) \/ CaptureRefused(p, c)
         PROVE  Accepted'
    BY <1>3, <1>15 DEF Consider, ChargeFreebie, Capture, CaptureLost, HoldNotFound,
                       CaptureRefused, ghostVars
  <1>16. QED
    BY <1>4, <1>5, <1>6, <1>7, <1>8, <1>9, <1>10, <1>11, <1>12, <1>13, <1>14, <1>15
    DEF PromoteNext

-----------------------------------------------------------------------------
(* Money                                                                   *)

Undisturbed == odd \cap {"lost", "twice", "unvoided"} = {}

Spent(h) == gateway[h].state \in {"captured", "settled"}

\* Only campaigns that exist are paid for.
CreatedFirst ==
    /\ \A c \in Campaigns : camps[c].state = "none" => camps[c].trans = NoTransaction
    /\ \A p \in Procs : proc[p].camp \in Campaigns => camps[proc[p].camp].state # "none"

SpentIsCurrent ==
    \A h \in Holds : Spent(h) =>
        gateway[h].camp \in Campaigns /\ camps[gateway[h].camp].trans = h /\ bids[h] = "CHARGE"

\* A campaign has one request at a time, which knows its transaction until it
\* voids it, and then pays for a campaign that has none.
OneRequest ==
    \A v, w \in Web : v # w /\ proc[v].camp \in Campaigns => proc[w].camp # proc[v].camp
VoidsCurrent ==
    \A w \in Web : proc[w].at = "void" =>
        camps[proc[w].camp].trans \in {proc[w].trans[proc[w].camp], NoTransaction}
PaysUnpaid ==
    \A w \in Web : proc[w].at \in {"auth", "status", "trans"} =>
        camps[proc[w].camp].trans = NoTransaction

\* The hold it gets, a new one or one of before, has not been captured.
HoldUnspent ==
    \A w \in Web : proc[w].at \in {"status", "trans"} /\ proc[w].hold \in Holds =>
        ~Spent(proc[w].hold)

\* What somebody may still capture is current.
CapturesCurrent ==
    \A p \in Procs, c \in Campaigns :
        proc[p].trans[c] \in Holds /\ gateway[proc[p].trans[c]].state = "held" =>
            camps[c].trans = proc[p].trans[c]

MoneyInv ==
    SpentIsCurrent /\ OneRequest /\ VoidsCurrent /\ PaysUnpaid /\ HoldUnspent /\ CapturesCurrent

\* What has gone wrong is not forgotten.
LEMMA OddGrows ==
  ASSUME [PromoteNext]_promoVars
  PROVE  odd \subseteq odd'
  <1>1. CASE UNCHANGED promoVars
    BY <1>1 DEF promoVars, ghostVars
  <1>2. ASSUME NEW c \in Campaigns, NewCampaign(c) \/ EditDates(c) \/ TerminateCampaign(c)
        PROVE  odd \subseteq odd'
    BY <1>2 DEF NewCampaign, EditDates, TerminateCampaign
  <1>3. CASE RejectPromotion \/ EditPromotion
    BY <1>3 DEF RejectPromotion, EditPromotion
  <1>4. ASSUME NEW w \in Web, NEW c \in Campaigns,
               \/ \E op \in {"pay", "freebie"} : BeginAuth(w, c, op)
               \/ BeginBudget(w, c) \/ BeginDelete(w, c)
         PROVE  odd \subseteq odd'
    <2>1. ASSUME NEW op \in {"pay", "freebie"}, BeginAuth(w, c, op)
          PROVE  odd \subseteq odd'
      BY <2>1 DEF BeginAuth, Overlaps
    <2>2. CASE BeginBudget(w, c)
      BY <2>2 DEF BeginBudget, Overlaps
    <2>3. CASE BeginDelete(w, c)
      BY <2>3, Zenon DEF BeginDelete, Overlaps
    <2>4. QED
      BY <1>4, <2>1, <2>2, <2>3
  <1>5. ASSUME NEW w \in Web,
                      \/ VoidCampaign(w) \/ VoidRefused(w) \/ VoidLost(w) \/ DeleteCampaign(w)
                      \/ AuthFreebie(w) \/ AuthHold(w) \/ AuthLost(w) \/ AuthDeclined(w)
                      \/ PaidStatus(w) \/ PaidTrans(w) \/ AcceptPromotion(w) \/ AcceptEnds(w)
        PROVE  odd \subseteq odd'
    BY <1>5 DEF VoidCampaign, VoidRefused, VoidLost, DeleteCampaign, AuthFreebie, AuthHold,
                AuthLost,
                AuthDeclined, PaidStatus, SetStatus, PaidTrans, AcceptPromotion, AcceptEnds,
                ghostVars
  <1>6. CASE \/ JobStart \/ NextPass \/ ExpireLinks \/ SettleCharges \/ DayPasses
             \/ \E h \in Holds : HoldExpires(h)
    BY <1>6 DEF JobStart, NextPass, ExpireLinks, SettleCharges, DayPasses, HoldExpires, ghostVars
  <1>7. ASSUME NEW p \in Procs, NEW c \in Campaigns,
               \/ Consider(p, c) \/ ChargeFreebie(p, c) \/ Capture(p, c) \/ CaptureLost(p, c)
               \/ HoldNotFound(p, c) \/ CaptureRefused(p, c)
        PROVE  odd \subseteq odd'
    BY <1>7 DEF Consider, ChargeFreebie, Capture, CaptureLost, HoldNotFound, CaptureRefused,
                ghostVars
  <1>8. ASSUME NEW p \in Procs, SetPending(p) \/ PromoteLink(p)
        PROVE  odd \subseteq odd'
    BY <1>8 DEF SetPending, PromoteLink, SetStatus
  <1>9. QED
    BY <1>1, <1>2, <1>3, <1>4, <1>5, <1>6, <1>7, <1>8 DEF PromoteNext

(***************************************************************************)
(* How a process may move without any money moving: it forgets copies, or  *)
(* loads them from the campaigns as they are, and begins neither to void   *)
(* nor to pay.                                                             *)
(***************************************************************************)
Calm(p) ==
    /\ \A c \in Campaigns : proc'[p].trans[c] \in {proc[p].trans[c], NoTransaction, camps[c].trans}
    /\ proc'[p].camp \in {proc[p].camp, Nobody}
    /\ proc'[p].at = "void" =>
          proc[p].at = "void" /\ proc'[p].trans = proc[p].trans /\ proc'[p].camp = proc[p].camp
    /\ proc'[p].at \in {"auth", "status", "trans"} =>
          proc[p].at \in {"auth", "status", "trans"} /\ proc'[p].camp = proc[p].camp
    /\ proc'[p].at \in {"status", "trans"} /\ proc'[p].hold \in Holds =>
          proc[p].at \in {"status", "trans"} /\ proc'[p].hold = proc[p].hold

\* The gateway settles charges and forgets holds.
GatewayCalm ==
    \A h \in Holds :
        /\ gateway'[h].camp = gateway[h].camp /\ bids'[h] = bids[h]
        /\ gateway'[h].state \in {"captured", "settled"} => Spent(h)
        /\ gateway'[h].state = "held" => gateway[h].state = "held"

LEMMA CalmStep ==
  ASSUME PromoteTyped, PromoteTyped', MoneyInv, GatewayCalm,
         \A c \in Campaigns : camps'[c].trans = camps[c].trans,
         \A p \in Procs : Calm(p)
  PROVE  MoneyInv'
  <1> USE RestIsPlaced
  <1>1. Web \subseteq Procs /\ Nobody \notin Campaigns
    BY PromoteAssumption DEF Procs
  <1>2. SpentIsCurrent'
    BY DEF MoneyInv, SpentIsCurrent, Spent, GatewayCalm
  <1>3. OneRequest'
    BY <1>1 DEF MoneyInv, OneRequest, Calm
  <1>4. \A w \in Web : proc'[w].at \in {"void", "auth", "status", "trans"} =>
                        proc'[w].camp \in Campaigns
    <2>1. ASSUME NEW w \in Web
          PROVE  /\ proc'[w].at \in Places[proc'[w].op] /\ proc'[w].op \in Ops
                 /\ proc'[w].camp \in Campaigns <=> proc'[w].op \in CampaignOps
      BY <1>1 DEF PromoteTyped, ProcsTyped, WellPlaced, ProcRecord
    <2>2. ASSUME NEW w \in Web, proc'[w].at \in {"void", "auth", "status", "trans"}
          PROVE  proc'[w].op \in CampaignOps
      BY <2>1, <2>2, PlacesAre DEF Ops, CampaignOps
    <2>3. QED
      BY <2>1, <2>2
  <1>5. VoidsCurrent'
    BY <1>1, <1>4 DEF MoneyInv, VoidsCurrent, Calm
  <1>6. PaysUnpaid'
    BY <1>1, <1>4 DEF MoneyInv, PaysUnpaid, Calm
  <1>7. HoldUnspent'
    BY <1>1 DEF MoneyInv, HoldUnspent, Spent, Calm, GatewayCalm
  <1>8. CapturesCurrent'
    BY DEF MoneyInv, CapturesCurrent, Calm, GatewayCalm
  <1>9. QED
    BY <1>2, <1>3, <1>5, <1>6, <1>7, <1>8 DEF MoneyInv

\* One process moves, and calmly.
LEMMA OneCalm ==
  ASSUME PromoteTyped, NEW p \in Procs, NEW r, proc' = [proc EXCEPT ![p] = r],
         \A c \in Campaigns : r.trans[c] \in {proc[p].trans[c], NoTransaction, camps[c].trans},
         r.camp \in {proc[p].camp, Nobody},
         r.at = "void" => proc[p].at = "void" /\ r.trans = proc[p].trans /\ r.camp = proc[p].camp,
         r.at \in {"auth", "status", "trans"} =>
            proc[p].at \in {"auth", "status", "trans"} /\ r.camp = proc[p].camp,
         r.at \in {"status", "trans"} /\ r.hold \in Holds =>
            proc[p].at \in {"status", "trans"} /\ r.hold = proc[p].hold
  PROVE  \A q \in Procs : Calm(q)
  <1>1. proc'[p] = r /\ \A q \in Procs \ {p} : proc'[q] = proc[q]
    BY DEF PromoteTyped, ProcsTyped
  <1>2. QED
    BY <1>1 DEF Calm

LEMMA FinishCalm ==
  ASSUME PromoteTyped, NEW p \in Procs, proc' = Finish(p)
  PROVE  \A q \in Procs : Calm(q)
  <1>1. /\ AtRest.at = "idle" /\ AtRest.camp = Nobody
        /\ \A c \in Campaigns :
              AtRest.trans[c] \in {proc[p].trans[c], NoTransaction, camps[c].trans}
    BY RestIsPlaced DEF AtRest
  <1>2. QED
    BY <1>1, OneCalm DEF Finish

LEMMA TurnCalm ==
  ASSUME PromoteTyped, NEW p \in Procs, NEW c \in Campaigns, NEW place, proc' = Turn(p, c, place),
         place \in {"next", "pending", "promote"}
  PROVE  \A q \in Procs : Calm(q)
  <1> DEFINE r == [proc[p] EXCEPT !.at = place, !.todo = @ \ {c}, !.trans[c] = NoTransaction]
  <1>1. proc[p] \in ProcRecord /\ proc[p].trans \in [Campaigns -> Transactions]
    BY ProcFields
  <1>2. proc' = [proc EXCEPT ![p] = r]
    BY DEF Turn, PromoteTyped, ProcsTyped
  <1>3. /\ r.at = place /\ r.camp = proc[p].camp
        /\ r.trans = [proc[p].trans EXCEPT ![c] = NoTransaction]
    BY <1>1 DEF ProcRecord
  <1> HIDE DEF r
  <1>4. \A d \in Campaigns : r.trans[d] \in {proc[p].trans[d], NoTransaction, camps[d].trans}
    BY <1>1, <1>3
  <1>5. QED
    BY <1>2, <1>3, <1>4, OneCalm

LEMMA PassCalm ==
  ASSUME PromoteTyped, NEW op \in {"charge0", "charge1", "promote"}, NEW offset \in Int,
         proc' = [proc EXCEPT !["job"] = Pass(op, offset)]
  PROVE  \A q \in Procs : Calm(q)
  <1> DEFINE r == Pass(op, offset)
  <1>1. /\ r.at = "next" /\ r.camp = Nobody
        /\ \A c \in Campaigns : r.trans[c] = IF c \in r.todo THEN camps[c].trans ELSE NoTransaction
    BY PassIs
  <1>2. proc' = [proc EXCEPT !["job"] = r]
    OBVIOUS
  <1> HIDE DEF r
  <1>3. "job" \in Procs
    BY DEF Procs
  <1>4. \A c \in Campaigns : r.trans[c] \in {proc["job"].trans[c], NoTransaction, camps[c].trans}
    BY <1>1
  <1>5. QED
    BY <1>1, <1>2, <1>3, <1>4, OneCalm

\* The steps that move no money.
LEMMA CalmActions ==
  ASSUME PromoteTyped, CreatedFirst,
         \/ \E c \in Campaigns : NewCampaign(c) \/ EditDates(c) \/ TerminateCampaign(c)
         \/ RejectPromotion \/ EditPromotion
         \/ \E w \in Web : \/ VoidLost(w) \/ DeleteCampaign(w) \/ AuthFreebie(w) \/ AuthDeclined(w)
                           \/ PaidStatus(w) \/ AcceptPromotion(w) \/ AcceptEnds(w)
         \/ JobStart \/ NextPass \/ ExpireLinks
         \/ \E p \in Procs, c \in Campaigns :
               Consider(p, c) \/ ChargeFreebie(p, c) \/ CaptureRefused(p, c)
         \/ \E p \in Procs : SetPending(p) \/ PromoteLink(p)
         \/ SettleCharges \/ DayPasses \/ \E h \in Holds : HoldExpires(h)
         \/ UNCHANGED promoVars
  PROVE  /\ GatewayCalm
         /\ \A c \in Campaigns : camps'[c].trans = camps[c].trans
         /\ \A p \in Procs : Calm(p)
  <1>1. DataTyped /\ Web \subseteq Procs /\ "job" \in Procs
    BY DEF PromoteTyped, Procs
  <1>2. UNCHANGED <<gateway, bids>> => GatewayCalm
    BY DEF GatewayCalm, Spent
  <1>3. UNCHANGED proc => \A p \in Procs : Calm(p)
    BY DEF Calm
  <1>4. ASSUME NEW c \in Campaigns, NewCampaign(c)
        PROVE  \A d \in Campaigns : camps'[d].trans = camps[d].trans
    <2>1. camps[c].trans = NoTransaction
      BY <1>4 DEF NewCampaign, CreatedFirst
    <2>2. PICK r : camps' = [camps EXCEPT ![c] = [NoCampaign EXCEPT
                      !.state = "open", !.listed = TRUE, !.start = r[1], !.end = r[2]]]
      BY <1>4, Zenon DEF NewCampaign
    <2>3. QED
      BY <1>1, <2>1, <2>2 DEF DataTyped, NoCampaign
  <1>5. ASSUME NEW c \in Campaigns, EditDates(c) \/ TerminateCampaign(c)
        PROVE  \A d \in Campaigns : camps'[d].trans = camps[d].trans
    <2>1. CASE TerminateCampaign(c)
      BY <1>1, <2>1 DEF TerminateCampaign, DataTyped, CampRecord
    <2>2. CASE EditDates(c)
      <3>1. PICK r : camps' = [camps EXCEPT ![c].start = r[1], ![c].end = r[2], ![c].listed = TRUE]
        BY <2>2, Zenon DEF EditDates
      <3>2. QED
        BY <1>1, <3>1 DEF DataTyped, CampRecord
    <2>3. QED
      BY <1>5, <2>1, <2>2
  <1>6. CASE \/ \E c \in Campaigns : NewCampaign(c) \/ EditDates(c) \/ TerminateCampaign(c)
             \/ RejectPromotion \/ EditPromotion \/ DayPasses \/ UNCHANGED promoVars
    <2>1. UNCHANGED <<proc, gateway, bids>>
      BY <1>6 DEF NewCampaign, EditDates, TerminateCampaign, RejectPromotion, EditPromotion,
                  DayPasses, promoVars, moneyVars
    <2>2. \A d \in Campaigns : camps'[d].trans = camps[d].trans
      BY <1>4, <1>5, <1>6 DEF RejectPromotion, EditPromotion, DayPasses, promoVars
    <2>3. QED
      BY <1>2, <1>3, <2>1, <2>2
  <1>7. CASE SettleCharges \/ \E h \in Holds : HoldExpires(h)
    <2>1. UNCHANGED <<proc, camps, bids>>
      BY <1>7 DEF SettleCharges, HoldExpires
    <2>2. ASSUME SettleCharges
          PROVE  GatewayCalm
      <3>1. ASSUME NEW h \in Holds
            PROVE  /\ gateway'[h].camp = gateway[h].camp
                   /\ gateway'[h].state = IF gateway[h].state = "captured" THEN "settled"
                                          ELSE gateway[h].state
        BY <1>1, <2>2 DEF SettleCharges, DataTyped, HoldRecord
      <3>2. \A h \in Holds : gateway'[h].camp = gateway[h].camp /\ bids'[h] = bids[h]
        BY <2>1, <3>1
      <3>3. ASSUME NEW h \in Holds
            PROVE  /\ gateway'[h].state \in {"captured", "settled"} => Spent(h)
                   /\ gateway'[h].state = "held" => gateway[h].state = "held"
        <4>1. CASE gateway[h].state = "captured"
          BY <3>1, <4>1 DEF Spent
        <4>2. CASE gateway[h].state # "captured"
          BY <3>1, <4>2 DEF Spent
        <4>3. QED
          BY <4>1, <4>2
      <3>4. QED
        BY <3>2, <3>3 DEF GatewayCalm
    <2>3. ASSUME NEW h \in Holds, HoldExpires(h)
          PROVE  GatewayCalm
      <3>1. gateway[h].state = "held" /\ gateway'[h].state = "gone"
        BY <1>1, <2>3 DEF HoldExpires, DataTyped, HoldRecord
      <3>2. \A g \in Holds : gateway'[g].camp = gateway[g].camp
        BY <1>1, <2>3 DEF HoldExpires, DataTyped, HoldRecord
      <3>3. \A g \in Holds \ {h} : gateway'[g] = gateway[g]
        BY <1>1, <2>3 DEF HoldExpires, DataTyped
      <3>4. QED
        BY <2>1, <3>1, <3>2, <3>3 DEF GatewayCalm, Spent
    <2>4. QED
      BY <1>3, <1>7, <2>1, <2>2, <2>3
  <1>8. ASSUME NEW w \in Web, DeleteCampaign(w) \/ AuthDeclined(w) \/ AcceptEnds(w)
        PROVE  /\ GatewayCalm
               /\ \A c \in Campaigns : camps'[c].trans = camps[c].trans
               /\ \A p \in Procs : Calm(p)
    <2>1. UNCHANGED <<gateway, bids>> /\ proc' = Finish(w)
      BY <1>8 DEF DeleteCampaign, AuthDeclined, AcceptEnds, moneyVars
    <2>2. \A c \in Campaigns : camps'[c].trans = camps[c].trans
      BY <1>1, <1>8 DEF DeleteCampaign, AuthDeclined, AcceptEnds, DataTyped, CampRecord
    <2>3. QED
      BY <1>1, <1>2, <2>1, <2>2, FinishCalm
  <1>9. ASSUME NEW w \in Web, AuthFreebie(w)
        PROVE  GatewayCalm /\ UNCHANGED camps /\ \A p \in Procs : Calm(p)
    <2> DEFINE r == [proc[w] EXCEPT !.at = "status", !.hold = Freebie]
    <2>1. proc' = [proc EXCEPT ![w] = r] /\ UNCHANGED <<camps, gateway, bids>>
      BY <1>1, <1>9 DEF AuthFreebie, PromoteTyped, ProcsTyped
    <2>2. proc[w] \in ProcRecord /\ proc[w].at = "auth"
      BY <1>1, <1>9, ProcFields DEF AuthFreebie
    <2>3. r.at = "status" /\ r.hold = Freebie /\ r.camp = proc[w].camp /\ r.trans = proc[w].trans
      BY <2>2 DEF ProcRecord
    <2> HIDE DEF r
    <2>4. QED
      BY <1>1, <1>2, <2>1, <2>2, <2>3, OneCalm, RestIsPlaced
  <1>10. ASSUME NEW w \in Web, PaidStatus(w)
         PROVE  GatewayCalm /\ UNCHANGED camps /\ \A p \in Procs : Calm(p)
    <2> DEFINE r == [proc[w] EXCEPT !.at = "trans", !.link = StatusOfPaid(@)]
    <2>1. proc' = [proc EXCEPT ![w] = r] /\ UNCHANGED <<camps, gateway, bids>>
      BY <1>1, <1>10 DEF PaidStatus, PromoteTyped, ProcsTyped, moneyVars
    <2>2. proc[w] \in ProcRecord /\ proc[w].at = "status"
      BY <1>1, <1>10, ProcFields DEF PaidStatus
    <2>3. /\ r.at = "trans" /\ r.hold = proc[w].hold /\ r.camp = proc[w].camp
          /\ r.trans = proc[w].trans
      BY <2>2 DEF ProcRecord
    <2> HIDE DEF r
    <2>4. QED
      BY <1>1, <1>2, <2>1, <2>2, <2>3, OneCalm
  <1>11. ASSUME NEW w \in Web, AcceptPromotion(w)
         PROVE  GatewayCalm /\ UNCHANGED camps /\ \A p \in Procs : Calm(p)
    <2>1. PICK r \in ProcRecord :
            /\ proc' = [proc EXCEPT ![w] = r] /\ r.at = "next" /\ r.camp = Nobody
            /\ \A c \in Campaigns : r.trans[c] \in {NoTransaction, camps[c].trans}
      BY <1>11, AcceptLoads
    <2>2. UNCHANGED <<camps, gateway, bids>>
      BY <1>11 DEF AcceptPromotion, moneyVars
    <2>3. \A c \in Campaigns : r.trans[c] \in {proc[w].trans[c], NoTransaction, camps[c].trans}
      BY <2>1
    <2>4. w \in Procs
      BY <1>1
    <2>5. \A p \in Procs : Calm(p)
      BY <2>1, <2>3, <2>4, OneCalm
    <2>6. QED
      BY <1>2, <2>2, <2>5
  <1>12. CASE JobStart \/ NextPass \/ ExpireLinks
    <2>1. UNCHANGED <<camps, gateway, bids>>
      BY <1>12 DEF JobStart, NextPass, ExpireLinks, moneyVars
    <2>2. \/ proc' = Finish("job")
          \/ proc' = [proc EXCEPT !["job"] = Pass("charge0", 0)]
          \/ proc' = [proc EXCEPT !["job"] = Pass("charge1", 1)]
          \/ proc' = [proc EXCEPT !["job"] = Pass("promote", 0)]
      BY <1>12 DEF JobStart, NextPass, ExpireLinks
    <2>3. 0 \in Int /\ 1 \in Int
      OBVIOUS
    <2>4. \A p \in Procs : Calm(p)
      BY <1>1, <2>2, <2>3, FinishCalm, PassCalm
    <2>5. QED
      BY <1>2, <2>1, <2>4
  <1>13. ASSUME NEW p \in Procs, NEW c \in Campaigns,
                Consider(p, c) \/ ChargeFreebie(p, c) \/ CaptureRefused(p, c)
         PROVE  GatewayCalm /\ UNCHANGED camps /\ \A q \in Procs : Calm(q)
    <2>1. UNCHANGED <<camps, gateway, bids>>
      BY <1>13 DEF Consider, ChargeFreebie, CaptureRefused, moneyVars
    <2>2. PICK place \in {"next", "pending", "promote"} : proc' = Turn(p, c, place)
      BY <1>13 DEF Consider, ChargeFreebie, CaptureRefused
    <2>3. QED
      BY <1>2, <2>1, <2>2, TurnCalm
  <1>14. ASSUME NEW p \in Procs, SetPending(p) \/ PromoteLink(p)
         PROVE  GatewayCalm /\ UNCHANGED camps /\ \A q \in Procs : Calm(q)
    <2>1. UNCHANGED <<camps, gateway, bids>>
      BY <1>14 DEF SetPending, PromoteLink, moneyVars
    <2>2. proc[p] \in ProcRecord
      BY ProcFields
    <2>3. PICK r : /\ proc' = [proc EXCEPT ![p] = r] /\ r.at \in {"next", "promote"}
                   /\ r.trans = proc[p].trans /\ r.camp = proc[p].camp
      <3>1. CASE SetPending(p)
        <4> DEFINE x == [proc[p] EXCEPT
                         !.link = IF proc[p].link = "promoted" THEN "promoted" ELSE "pending",
                         !.at = IF Promotes(p) THEN "promote" ELSE "next"]
        <4>1. proc' = [proc EXCEPT ![p] = x]
          BY <3>1 DEF SetPending, PromoteTyped, ProcsTyped
        <4>2. x.at \in {"next", "promote"} /\ x.trans = proc[p].trans /\ x.camp = proc[p].camp
          BY <2>2 DEF ProcRecord
        <4>3. QED
          BY <4>1, <4>2
      <3>2. CASE PromoteLink(p)
        <4> DEFINE x == [proc[p] EXCEPT !.link = "promoted", !.at = "next",
                                        !.live = @ \/ proc[p].op = "promote"]
        <4>1. proc' = [proc EXCEPT ![p] = x]
          BY <3>2 DEF PromoteLink, PromoteTyped, ProcsTyped
        <4>2. x.at \in {"next", "promote"} /\ x.trans = proc[p].trans /\ x.camp = proc[p].camp
          BY <2>2 DEF ProcRecord
        <4>3. QED
          BY <4>1, <4>2, ZenonT(40)
      <3>3. QED
        BY <1>14, <3>1, <3>2
    <2>4. QED
      BY <1>2, <2>1, <2>3, OneCalm
  <1>15. ASSUME NEW w \in Web, VoidLost(w)
         PROVE  GatewayCalm /\ UNCHANGED camps /\ \A p \in Procs : Calm(p)
    <2>1. PICK t \in Holds : gateway' = [gateway EXCEPT ![t].state = "gone"]
      BY <1>15 DEF VoidLost
    <2>2. UNCHANGED <<camps, bids>> /\ proc' = Finish(w)
      BY <1>15 DEF VoidLost
    <2>3. /\ gateway'[t].state = "gone" /\ \A h \in Holds : gateway'[h].camp = gateway[h].camp
          /\ \A h \in Holds \ {t} : gateway'[h] = gateway[h]
      BY <1>1, <2>1 DEF DataTyped, HoldRecord
    <2>4. GatewayCalm
      BY <2>2, <2>3 DEF GatewayCalm, Spent
    <2>5. QED
      BY <1>1, <2>2, <2>4, FinishCalm, SMTT(30)
  <1>16. QED
    BY <1>6, <1>7, <1>8, <1>9, <1>10, <1>11, <1>12, <1>13, <1>14, <1>15

\* A request that voids what it has loaded.
LEMMA VoidMoves ==
  ASSUME PromoteTyped, NEW w \in Web, VoidCampaign(w) \/ VoidRefused(w)
  PROVE  /\ w \in Procs /\ proc[w].camp \in Campaigns /\ proc[w].at = "void"
         /\ \A q \in Procs \ {w} : proc'[q] = proc[q]
         /\ proc'[w].at \in {"auth", "delete", "idle"}
         /\ proc'[w].camp \in {proc[w].camp, Nobody}
         /\ proc'[w].at = "auth" => proc'[w].camp = proc[w].camp
         /\ \A c \in Campaigns : proc'[w].trans[c] \in {proc[w].trans[c], NoTransaction}
  <1> DEFINE c == proc[w].camp
  <1>1. w \in Procs /\ proc[w].at = "void"
    BY DEF Procs, VoidCampaign, VoidRefused
  <1>2. /\ c \in Campaigns /\ proc[w] \in ProcRecord
        /\ proc[w].trans \in [Campaigns -> Transactions]
    BY <1>1, ProcFields, SMTT(40)
  <1>3. PICK r : /\ proc' = [proc EXCEPT ![w] = r]
                 /\ r.at \in {"auth", "delete", "idle"} /\ r.camp \in {c, Nobody}
                 /\ r.at = "auth" => r.camp = c
                 /\ \A d \in Campaigns : r.trans[d] \in {proc[w].trans[d], NoTransaction}
    <2>1. CASE proc' = Finish(w)
      BY <2>1, RestIsPlaced DEF Finish, AtRest
    <2>2. CASE proc' = [proc EXCEPT ![w].at = "auth", ![w].trans[c] = NoTransaction]
      <3> DEFINE x == [proc[w] EXCEPT !.at = "auth", !.trans[c] = NoTransaction]
      <3>1. proc' = [proc EXCEPT ![w] = x]
        BY <1>1, <2>2 DEF PromoteTyped, ProcsTyped
      <3>2. /\ x.at = "auth" /\ x.camp = c /\ x.trans = [proc[w].trans EXCEPT ![c] = NoTransaction]
        BY <1>2 DEF ProcRecord
      <3> HIDE DEF x
      <3>3. QED
        BY <1>2, <3>1, <3>2
    <2>3. CASE proc' = [proc EXCEPT ![w].at = "delete"]
      <3> DEFINE x == [proc[w] EXCEPT !.at = "delete"]
      <3>1. proc' = [proc EXCEPT ![w] = x]
        BY <1>1, <2>3 DEF PromoteTyped, ProcsTyped
      <3>2. x.at = "delete" /\ x.camp = c /\ x.trans = proc[w].trans
        BY <1>2 DEF ProcRecord
      <3> HIDE DEF x
      <3>3. QED
        BY <3>1, <3>2
    <2>4. QED
      BY <2>1, <2>2, <2>3 DEF VoidCampaign, VoidRefused, AfterVoid
  <1>4. proc'[w] = r /\ \A q \in Procs \ {w} : proc'[q] = proc[q]
    BY <1>1, <1>3 DEF PromoteTyped, ProcsTyped
  <1>5. QED
    BY <1>1, <1>2, <1>3, <1>4, SMTT(30)

\* A request that gets a hold.
LEMMA HoldMoves ==
  ASSUME PromoteTyped, NEW w \in Web, AuthHold(w)
  PROVE  /\ w \in Procs /\ proc[w].camp \in Campaigns /\ proc[w].at = "auth"
         /\ \A q \in Procs \ {w} : proc'[q] = proc[q]
         /\ proc'[w].at = "status" /\ proc'[w].camp = proc[w].camp /\ proc'[w].trans = proc[w].trans
         /\ proc'[w].hold \in NewHolds(proc[w].camp)
         /\ gateway' = Held(proc'[w].hold, proc[w].camp)
         /\ bids' = [bids EXCEPT ![proc'[w].hold] = BidOf(proc'[w].hold)]
  <1>1. w \in Procs /\ proc[w].at = "auth"
    BY DEF Procs, AuthHold
  <1>2. proc[w].camp \in Campaigns /\ proc[w] \in ProcRecord
    BY <1>1, ProcFields
  <1>3. PICK h \in NewHolds(proc[w].camp) :
              /\ gateway' = Held(h, proc[w].camp)
              /\ bids' = [bids EXCEPT ![h] = BidOf(h)]
              /\ proc' = [proc EXCEPT ![w].at = "status", ![w].hold = h]
    BY DEF AuthHold
  <1>4. /\ \A q \in Procs \ {w} : proc'[q] = proc[q]
        /\ proc'[w].at = "status" /\ proc'[w].camp = proc[w].camp /\ proc'[w].trans = proc[w].trans
        /\ proc'[w].hold = h
    BY <1>1, <1>2, <1>3 DEF PromoteTyped, ProcsTyped, ProcRecord
  <1>5. QED
    BY <1>1, <1>2, <1>3, <1>4, Zenon

\* One process is at rest again.
LEMMA FinishMoves ==
  ASSUME PromoteTyped, NEW p \in Procs, proc' = Finish(p)
  PROVE  /\ \A q \in Procs \ {p} : proc'[q] = proc[q]
         /\ proc'[p].at = "idle" /\ proc'[p].camp = Nobody /\ proc'[p].todo = {}
         /\ \A c \in Campaigns : proc'[p].trans[c] = NoTransaction
  <1>1. proc'[p] = AtRest /\ \A q \in Procs \ {p} : proc'[q] = proc[q]
    BY DEF Finish, PromoteTyped, ProcsTyped
  <1>2. QED
    BY <1>1, RestIsPlaced DEF AtRest

\* One process has begun to work for a campaign.
LEMMA BeginMoves ==
  ASSUME PromoteTyped, NEW w \in Web, NEW c \in Campaigns,
         \/ \E op \in {"pay", "freebie"} : BeginAuth(w, c, op)
         \/ BeginBudget(w, c) \/ BeginDelete(w, c)
  PROVE  /\ camps[c].state # "none"
         /\ \A q \in Procs \ {w} : proc'[q] = proc[q]
         /\ proc'[w].at = "void" /\ proc'[w].camp = c
         /\ \A d \in Campaigns : proc'[w].trans[d] = IF d = c THEN camps[c].trans ELSE NoTransaction
         /\ \A d \in Campaigns :
               camps'[d].trans = camps[d].trans /\ camps'[d].state = camps[d].state
         /\ odd' = Overlaps(c) /\ UNCHANGED <<gateway, bids>>
  <1>1. PICK op \in CampaignOps : proc' = [proc EXCEPT ![w] = Loaded(op, "void", c)]
    BY DEF BeginAuth, BeginBudget, BeginDelete, CampaignOps
  <1>2. w \in Procs /\ proc \in [Procs -> ProcRecord] /\ camps \in [Campaigns -> CampRecord]
    BY DEF Procs, PromoteTyped, ProcsTyped, DataTyped
  <1>3. proc'[w] = Loaded(op, "void", c) /\ \A q \in Procs \ {w} : proc'[q] = proc[q]
    BY <1>1, <1>2
  <1>4. camps' \in {camps, [camps EXCEPT ![c].listed = FALSE]}
    BY DEF BeginAuth, BeginBudget, BeginDelete
  <1>5. \A d \in Campaigns : camps'[d].trans = camps[d].trans /\ camps'[d].state = camps[d].state
    BY <1>2, <1>4 DEF CampRecord
  <1>6. camps[c].state # "none" /\ odd' = Overlaps(c) /\ UNCHANGED <<gateway, bids>>
    BY DEF BeginAuth, BeginBudget, BeginDelete, moneyVars
  <1>7. QED
    BY <1>3, <1>5, <1>6, LoadedIs

LEMMA BeginMoney ==
  ASSUME PromoteTyped, MoneyInv, Undisturbed', NEW w \in Web, NEW c \in Campaigns,
         \/ \E op \in {"pay", "freebie"} : BeginAuth(w, c, op)
         \/ BeginBudget(w, c) \/ BeginDelete(w, c)
  PROVE  MoneyInv'
  <1> USE RestIsPlaced
  <1>1. /\ \A q \in Procs \ {w} : proc'[q] = proc[q]
        /\ proc'[w].at = "void" /\ proc'[w].camp = c
        /\ \A d \in Campaigns : proc'[w].trans[d] = IF d = c THEN camps[c].trans ELSE NoTransaction
        /\ \A d \in Campaigns : camps'[d].trans = camps[d].trans
        /\ odd' = Overlaps(c) /\ UNCHANGED <<gateway, bids>>
    BY BeginMoves
  <1>2. Web \subseteq Procs /\ Nobody \notin Campaigns
    BY PromoteAssumption DEF Procs
  <1>3. \A v \in Web : proc[v].camp # c
    <2>1. \A v \in Web : proc[v].camp = c => proc[v].op = "accept"
      BY <1>1 DEF Overlaps, Undisturbed
    <2>2. \A v \in Web : proc[v].camp = c => proc[v].op \in CampaignOps
      BY <1>2 DEF PromoteTyped, ProcsTyped, WellPlaced
    <2>3. QED
      BY <2>1, <2>2 DEF CampaignOps
  <1>4. SpentIsCurrent'
    <2>1. \A h \in Holds : gateway'[h] = gateway[h] /\ bids'[h] = bids[h]
      BY <1>1
    <2>2. QED
      BY <1>1, <2>1 DEF MoneyInv, SpentIsCurrent, Spent
  <1>5. OneRequest'
    BY <1>1, <1>2, <1>3 DEF MoneyInv, OneRequest
  <1>6. ASSUME NEW v \in Web, v # w, proc[v].at \in {"void", "auth", "status", "trans"}
        PROVE  proc[v].camp \in Campaigns
    BY <1>2, <1>6, ProcFields
  <1>7. VoidsCurrent'
    <2>1. camps'[proc'[w].camp].trans \in {proc'[w].trans[proc'[w].camp], NoTransaction}
      BY <1>1
    <2>2. QED
      BY <1>1, <1>2, <1>6, <2>1 DEF MoneyInv, VoidsCurrent
  <1>8. PaysUnpaid'
    BY <1>1, <1>2, <1>6 DEF MoneyInv, PaysUnpaid
  <1>9. HoldUnspent'
    BY <1>1, <1>2 DEF MoneyInv, HoldUnspent, Spent
  <1>10. CapturesCurrent'
    BY <1>1 DEF MoneyInv, CapturesCurrent
  <1>11. QED
    BY <1>4, <1>5, <1>7, <1>8, <1>9, <1>10 DEF MoneyInv

(***************************************************************************)
(* void_campaign undoes the transaction the campaign has, or finds that it *)
(* has none.                                                               *)
(***************************************************************************)
LEMMA VoidMoney ==
  ASSUME PromoteTyped, MoneyInv, Undisturbed', NEW w \in Web, VoidCampaign(w)
  PROVE  MoneyInv'
  <1> USE RestIsPlaced
  <1> DEFINE c == proc[w].camp
             t == proc[w].trans[c]
  <1>1. /\ w \in Procs /\ c \in Campaigns /\ proc[w].at = "void"
        /\ \A q \in Procs \ {w} : proc'[q] = proc[q]
        /\ proc'[w].at \in {"auth", "delete", "idle"}
        /\ proc'[w].camp \in {c, Nobody}
        /\ proc'[w].at = "auth" => proc'[w].camp = c
        /\ \A d \in Campaigns : proc'[w].trans[d] \in {proc[w].trans[d], NoTransaction}
    BY VoidMoves
  <1>2. Web \subseteq Procs /\ Nobody \notin Campaigns /\ DataTyped
    BY PromoteAssumption DEF Procs, PromoteTyped
  <1>3. /\ camps[c].trans \in {t, NoTransaction} /\ t \in Transactions
        /\ Backed(t, c)
    BY <1>1, ProcFields DEF MoneyInv, VoidsCurrent, PromoteTyped, CopiesBacked
  <1>4. \A d \in Campaigns : camps'[d].trans = IF d = c THEN NoTransaction ELSE camps[d].trans
    <2>1. camps' = [camps EXCEPT ![c].trans = IF t # NoTransaction THEN NoTransaction ELSE @,
                                 ![c].listed = @ \/ proc[w].op = "budget"]
      BY DEF VoidCampaign, HasBid
    <2>2. t = NoTransaction => camps[c].trans = NoTransaction
      BY <1>3, SMTT(30)
    <2> HIDE DEF c, t
    <2>3. QED
      BY <1>1, <1>2, <2>1, <2>2 DEF DataTyped, CampRecord
  <1>5. /\ t \in Holds => ~(gateway[t].state = "settled")
        /\ t \in Holds => gateway'[t].state \notin {"held", "captured", "settled"}
        /\ t \in Holds /\ gateway[t].state = "gone" => gateway'[t].state = "gone"
        /\ t \in Holds /\ gateway[t].state = "held" => gateway'[t].state = "gone"
        /\ \A h \in Holds : h # t => gateway'[h] = gateway[h] /\ bids'[h] = bids[h]
        /\ \A h \in Holds : gateway'[h].camp = gateway[h].camp
    <2>1. t \in Holds => gateway[t].state # "settled"
      BY SMTT(40) DEF VoidCampaign, Undisturbed
    <2>2. CASE t \in Holds /\ CanVoid(t)
      <3>1. /\ gateway' = [gateway EXCEPT ![t].state = "gone"]
            /\ bids' = [bids EXCEPT ![t] = "VOID"]
        BY <1>1, <2>2 DEF VoidCampaign, HasBid
      <3> HIDE DEF c, t
      <3>2. QED
        BY <1>2, <2>1, <2>2, <3>1 DEF DataTyped, HoldRecord
    <2>3. CASE ~(t \in Holds /\ CanVoid(t))
      <3>1. UNCHANGED <<gateway, bids>>
        BY <2>3 DEF VoidCampaign
      <3> HIDE DEF c, t
      <3>2. QED
        BY <1>2, <2>1, <2>3, <3>1 DEF DataTyped, HoldRecord, CanVoid
    <2>4. QED
      BY <2>2, <2>3, SMTT(30)
  <1> HIDE DEF t
  <1>6. SpentIsCurrent'
    <2> SUFFICES ASSUME NEW h \in Holds, gateway'[h].state \in {"captured", "settled"}
                 PROVE  /\ gateway'[h].camp \in Campaigns
                        /\ camps'[gateway'[h].camp].trans = h /\ bids'[h] = "CHARGE"
      BY DEF SpentIsCurrent, Spent
    <2>1. h # t /\ gateway'[h] = gateway[h] /\ bids'[h] = bids[h]
      BY <1>5
    <2>2. gateway[h].camp \in Campaigns /\ camps[gateway[h].camp].trans = h /\ bids[h] = "CHARGE"
      BY <2>1 DEF MoneyInv, SpentIsCurrent, Spent
    <2>3. gateway[h].camp # c
      BY <1>3, <2>1, <2>2
    <2>4. QED
      BY <1>4, <2>1, <2>2, <2>3
  <1>7. OneRequest'
    BY <1>1, <1>2 DEF MoneyInv, OneRequest
  <1>8. ASSUME NEW v \in Web, v # w, proc[v].at \in {"void", "auth", "status", "trans"}
        PROVE  proc[v].camp \in Campaigns /\ proc[v].camp # c
    BY <1>1, <1>2, <1>8, ProcFields DEF MoneyInv, OneRequest
  <1>9. VoidsCurrent'
    BY <1>1, <1>2, <1>4, <1>8 DEF MoneyInv, VoidsCurrent
  <1>10. PaysUnpaid'
    BY <1>1, <1>2, <1>4, <1>8 DEF MoneyInv, PaysUnpaid
  <1>11. HoldUnspent'
    <2> SUFFICES ASSUME NEW v \in Web, proc'[v].at \in {"status", "trans"}, proc'[v].hold \in Holds
                 PROVE  gateway'[proc'[v].hold].state \notin {"captured", "settled"}
      BY DEF HoldUnspent, Spent
    <2>1. v # w /\ proc'[v] = proc[v]
      BY <1>1, <1>2
    <2>2. gateway[proc[v].hold].state \notin {"captured", "settled"}
      BY <2>1 DEF MoneyInv, HoldUnspent, Spent
    <2>3. QED
      BY <1>5, <2>1, <2>2
  <1>12. CapturesCurrent'
    <2> SUFFICES ASSUME NEW p \in Procs, NEW d \in Campaigns, proc'[p].trans[d] \in Holds,
                        gateway'[proc'[p].trans[d]].state = "held"
                 PROVE  camps'[d].trans = proc'[p].trans[d]
      BY DEF CapturesCurrent
    <2>1. proc'[p].trans[d] = proc[p].trans[d]
      BY <1>1
    <2>2. proc[p].trans[d] # t /\ gateway[proc[p].trans[d]].state = "held"
      BY <1>5, <2>1
    <2>3. camps[d].trans = proc[p].trans[d]
      BY <2>1, <2>2 DEF MoneyInv, CapturesCurrent
    <2>4. d # c
      BY <1>3, <2>1, <2>2, <2>3
    <2>5. QED
      BY <1>4, <2>1, <2>3, <2>4
  <1>13. QED
    BY <1>6, <1>7, <1>9, <1>10, <1>11, <1>12 DEF MoneyInv

LEMMA HoldMoney ==
  ASSUME PromoteTyped, MoneyInv, NEW w \in Web, AuthHold(w) \/ AuthLost(w)
  PROVE  MoneyInv'
  <1> USE RestIsPlaced
  <1> DEFINE c == proc[w].camp
  <1>1. Web \subseteq Procs /\ Nobody \notin Campaigns /\ DataTyped
    BY PromoteAssumption DEF Procs, PromoteTyped
  <1>2. PICK h \in NewHolds(c) :
          /\ c \in Campaigns /\ proc[w].at = "auth"
          /\ \A q \in Procs \ {w} : proc'[q] = proc[q]
          /\ gateway' = Held(h, c)
          /\ bids' \in {bids, [bids EXCEPT ![h] = BidOf(h)]}
          /\ \/ /\ proc'[w].at = "status" /\ proc'[w].camp = c /\ proc'[w].hold = h
                /\ proc'[w].trans = proc[w].trans
             \/ /\ proc'[w].at = "idle" /\ proc'[w].camp = Nobody
                /\ \A d \in Campaigns : proc'[w].trans[d] = NoTransaction
    <2>1. CASE AuthHold(w)
      <3>1. /\ c \in Campaigns /\ proc[w].at = "auth"
            /\ \A q \in Procs \ {w} : proc'[q] = proc[q]
            /\ proc'[w].at = "status" /\ proc'[w].camp = c /\ proc'[w].trans = proc[w].trans
            /\ proc'[w].hold \in NewHolds(c)
            /\ gateway' = Held(proc'[w].hold, c)
            /\ bids' = [bids EXCEPT ![proc'[w].hold] = BidOf(proc'[w].hold)]
        BY <2>1, HoldMoves, Zenon
      <3> HIDE DEF c
      <3>2. QED
        BY <3>1, Zenon
    <2>2. CASE AuthLost(w)
      <3>1. /\ c \in Campaigns /\ proc[w].at = "auth"
        BY <1>1, <2>2, ProcFields DEF AuthLost
      <3>2. UNCHANGED bids /\ proc' = Finish(w) /\ \E h \in NewHolds(c) : gateway' = Held(h, c)
        BY <2>2, Zenon DEF AuthLost
      <3>3. w \in Procs
        BY <1>1
      <3>4. /\ \A q \in Procs \ {w} : proc'[q] = proc[q]
            /\ proc'[w].at = "idle" /\ proc'[w].camp = Nobody
            /\ \A d \in Campaigns : proc'[w].trans[d] = NoTransaction
        BY <3>2, <3>3, FinishMoves
      <3> HIDE DEF c
      <3>5. QED
        BY <3>1, <3>2, <3>4, Zenon
    <2>3. QED
      BY <2>1, <2>2, Zenon
  <1> HIDE DEF c
  <1>3. /\ h \in Holds /\ (gateway[h] = NoHold \/ gateway[h].camp = c)
        /\ gateway'[h] = IF gateway[h] = NoHold THEN [camp |-> c, state |-> "held"] ELSE gateway[h]
        /\ \A g \in Holds \ {h} : gateway'[g] = gateway[g]
    <2>1. /\ h \in Holds /\ (gateway[h] = NoHold \/ gateway[h].camp = c)
          /\ Held(h, c)[h] = IF gateway[h] = NoHold THEN [camp |-> c, state |-> "held"]
                             ELSE gateway[h]
          /\ \A g \in Holds \ {h} : Held(h, c)[g] = gateway[g]
      BY <1>2, NewHoldIs
    <2>2. QED
      BY <1>2, <2>1, Zenon
  <1>4. \A g \in Holds \ {h} : bids'[g] = bids[g]
    BY <1>1, <1>2, <1>3 DEF DataTyped
  <1>5. UNCHANGED camps
    BY DEF AuthHold, AuthLost
  <1>6. ~Spent(h) /\ gateway'[h].state \notin {"captured", "settled"}
    <2>1. camps[c].trans = NoTransaction
      BY <1>2 DEF MoneyInv, PaysUnpaid, c
    <2>2. ~Spent(h)
      <3>1. CASE gateway[h] = NoHold
        BY <3>1 DEF Spent, NoHold
      <3>2. CASE gateway[h].camp = c
        BY <1>3, <2>1, <3>2 DEF MoneyInv, SpentIsCurrent
      <3>3. QED
        BY <1>3, <3>1, <3>2
    <2>3. QED
      BY <1>3, <2>2 DEF Spent
  <1>7. \A p \in Procs, d \in Campaigns : proc'[p].trans[d] \in {proc[p].trans[d], NoTransaction}
    BY <1>2
  <1>8. SpentIsCurrent'
    <2> SUFFICES ASSUME NEW g \in Holds, gateway'[g].state \in {"captured", "settled"}
                 PROVE  /\ gateway'[g].camp \in Campaigns
                        /\ camps'[gateway'[g].camp].trans = g /\ bids'[g] = "CHARGE"
      BY DEF SpentIsCurrent, Spent
    <2>1. g # h
      BY <1>6
    <2>2. QED
      BY <1>3, <1>4, <1>5, <2>1 DEF MoneyInv, SpentIsCurrent, Spent
  <1>9. OneRequest'
    BY <1>1, <1>2 DEF MoneyInv, OneRequest, c
  <1>10. VoidsCurrent'
    BY <1>1, <1>2, <1>5 DEF MoneyInv, VoidsCurrent
  <1>11. PaysUnpaid'
    BY <1>1, <1>2, <1>5 DEF MoneyInv, PaysUnpaid, c
  <1>12. HoldUnspent'
    <2> SUFFICES ASSUME NEW v \in Web, proc'[v].at \in {"status", "trans"}, proc'[v].hold \in Holds
                 PROVE  gateway'[proc'[v].hold].state \notin {"captured", "settled"}
      BY DEF HoldUnspent, Spent
    <2>1. CASE v = w
      <3>1. proc'[v].hold = h
        BY <1>2, <2>1
      <3>2. QED
        BY <1>6, <3>1
    <2>2. CASE v # w
      <3>1. proc'[v] = proc[v]
        BY <1>1, <1>2, <2>2
      <3>2. gateway[proc[v].hold].state \notin {"captured", "settled"}
        BY <3>1 DEF MoneyInv, HoldUnspent, Spent
      <3>3. QED
        BY <1>3, <1>6, <3>1, <3>2
    <2>3. QED
      BY <2>1, <2>2
  <1>13. CapturesCurrent'
    <2> SUFFICES ASSUME NEW p \in Procs, NEW d \in Campaigns, proc'[p].trans[d] \in Holds,
                        gateway'[proc'[p].trans[d]].state = "held"
                 PROVE  camps'[d].trans = proc'[p].trans[d]
      BY DEF CapturesCurrent
    <2>1. proc'[p].trans[d] = proc[p].trans[d] /\ Backed(proc[p].trans[d], d)
      BY <1>7 DEF PromoteTyped, CopiesBacked
    <2>2. gateway[proc[p].trans[d]].camp = d
      BY <2>1 DEF Backed
    <2>3. gateway[proc[p].trans[d]] # NoHold
      BY <1>1, <2>2 DEF NoHold
    <2>4. gateway'[proc[p].trans[d]] = gateway[proc[p].trans[d]]
      BY <1>3, <2>1, <2>3
    <2>5. QED
      BY <1>5, <2>1, <2>4 DEF MoneyInv, CapturesCurrent
  <1>14. QED
    BY <1>8, <1>9, <1>10, <1>11, <1>12, <1>13 DEF MoneyInv

LEMMA PaidMoney ==
  ASSUME PromoteTyped, MoneyInv, NEW w \in Web, PaidTrans(w)
  PROVE  MoneyInv'
  <1> USE RestIsPlaced
  <1> DEFINE c == proc[w].camp
  <1>1. Web \subseteq Procs /\ Nobody \notin Campaigns /\ DataTyped /\ w \in Procs
    BY PromoteAssumption DEF Procs, PromoteTyped
  <1>2. c \in Campaigns /\ proc[w].at = "trans" /\ camps[c].trans = NoTransaction
    BY <1>1, ProcFields DEF PaidTrans, MoneyInv, PaysUnpaid
  <1>3. /\ camps' = [camps EXCEPT ![c].trans = proc[w].hold]
        /\ UNCHANGED <<gateway, bids>> /\ proc' = Finish(w)
    BY DEF PaidTrans, moneyVars
  <1>4. \A d \in Campaigns : camps'[d].trans = IF d = c THEN proc[w].hold ELSE camps[d].trans
    BY <1>1, <1>2, <1>3 DEF DataTyped, CampRecord
  <1>5. /\ \A q \in Procs \ {w} : proc'[q] = proc[q]
        /\ proc'[w].at = "idle" /\ proc'[w].camp = Nobody
        /\ \A d \in Campaigns : proc'[w].trans[d] = NoTransaction
    BY <1>1, <1>3, FinishMoves
  <1>6. \A h \in Holds : gateway'[h] = gateway[h] /\ bids'[h] = bids[h]
    BY <1>3
  <1>7. SpentIsCurrent'
    <2> SUFFICES ASSUME NEW h \in Holds, gateway'[h].state \in {"captured", "settled"}
                 PROVE  /\ gateway'[h].camp \in Campaigns
                        /\ camps'[gateway'[h].camp].trans = h /\ bids'[h] = "CHARGE"
      BY DEF SpentIsCurrent, Spent
    <2>1. gateway[h].camp \in Campaigns /\ camps[gateway[h].camp].trans = h /\ bids[h] = "CHARGE"
      BY <1>6 DEF MoneyInv, SpentIsCurrent, Spent
    <2>2. gateway[h].camp # c
      BY <1>2, <2>1
    <2>3. QED
      BY <1>4, <1>6, <2>1, <2>2
  <1>8. OneRequest'
    BY <1>1, <1>5 DEF MoneyInv, OneRequest
  <1>9. ASSUME NEW v \in Web, v # w, proc[v].at \in {"void", "auth", "status", "trans"}
        PROVE  proc[v].camp \in Campaigns /\ proc[v].camp # c
    BY <1>1, <1>2, <1>9, ProcFields DEF MoneyInv, OneRequest
  <1>10. VoidsCurrent'
    BY <1>1, <1>4, <1>5, <1>9 DEF MoneyInv, VoidsCurrent
  <1>11. PaysUnpaid'
    BY <1>1, <1>4, <1>5, <1>9 DEF MoneyInv, PaysUnpaid
  <1>12. HoldUnspent'
    BY <1>1, <1>5, <1>6 DEF MoneyInv, HoldUnspent, Spent
  <1>13. CapturesCurrent'
    <2> SUFFICES ASSUME NEW p \in Procs, NEW d \in Campaigns, proc'[p].trans[d] \in Holds,
                        gateway'[proc'[p].trans[d]].state = "held"
                 PROVE  camps'[d].trans = proc'[p].trans[d]
      BY DEF CapturesCurrent
    <2>1. p # w /\ proc'[p] = proc[p]
      BY <1>5
    <2>2. camps[d].trans = proc[p].trans[d]
      BY <1>6, <2>1 DEF MoneyInv, CapturesCurrent
    <2>3. d # c
      BY <1>2, <2>1, <2>2
    <2>4. QED
      BY <1>4, <2>1, <2>2, <2>3
  <1>14. QED
    BY <1>7, <1>8, <1>10, <1>11, <1>12, <1>13 DEF MoneyInv

(***************************************************************************)
(* charge_campaign charges the transaction the campaign has, and forgets   *)
(* only a hold that is gone.                                               *)
(***************************************************************************)
LEMMA ChargeMoney ==
  ASSUME PromoteTyped, PromoteTyped', MoneyInv, Undisturbed', NEW p \in Procs, NEW c \in Campaigns,
         Capture(p, c) \/ HoldNotFound(p, c)
  PROVE  MoneyInv'
  <1> USE RestIsPlaced
  <1> DEFINE h == proc[p].trans[c]
  <1>1. Web \subseteq Procs /\ Nobody \notin Campaigns /\ DataTyped
    BY PromoteAssumption DEF Procs, PromoteTyped
  <1>2. /\ h \in Holds /\ proc[p].at = "next" /\ Backed(h, c)
    BY DEF Capture, HoldNotFound, MustCharge, PromoteTyped, CopiesBacked
  <1>3. PICK place \in {"next", "pending"} : proc' = Turn(p, c, place)
    BY DEF Capture, HoldNotFound
  <1>4. \A q \in Procs : Calm(q)
    BY <1>3, TurnCalm
  <1>5. ASSUME NEW v \in Web, proc'[v].at \in {"void", "auth", "status", "trans"}
        PROVE  /\ proc[v].at \in {"void", "auth", "status", "trans"}
               /\ proc[v].camp \in Campaigns /\ proc'[v].camp = proc[v].camp
    <2>1. proc[v].at \in {"void", "auth", "status", "trans"} /\ proc'[v].camp = proc[v].camp
      BY <1>1, <1>4, <1>5 DEF Calm
    <2>2. QED
      BY <1>1, <2>1, ProcFields
  <1>6. OneRequest'
    BY <1>1, <1>4 DEF MoneyInv, OneRequest, Calm
  <1>7. ASSUME NEW v \in Web, proc'[v].at \in {"status", "trans"}, proc'[v].hold \in Holds
        PROVE  /\ proc'[v].hold = proc[v].hold /\ ~Spent(proc[v].hold)
               /\ gateway[proc[v].hold].camp = proc[v].camp
               /\ camps[proc[v].camp].trans = NoTransaction
    <2>1. /\ proc[v].at \in {"status", "trans"} /\ proc'[v].hold = proc[v].hold
      BY <1>1, <1>4, <1>7 DEF Calm
    <2>2. ~Spent(proc[v].hold)
      BY <1>7, <2>1 DEF MoneyInv, HoldUnspent
    <2>3. Backed(proc[v].hold, proc[v].camp) /\ camps[proc[v].camp].trans = NoTransaction
      BY <1>1, <2>1 DEF PromoteTyped, HoldsBacked, MoneyInv, PaysUnpaid
    <2>4. QED
      BY <1>7, <2>1, <2>2, <2>3 DEF Backed
  <1>8. ASSUME NEW q \in Procs, NEW d \in Campaigns, proc'[q].trans[d] \in Holds,
               gateway[proc'[q].trans[d]].state = "held"
        PROVE  camps[d].trans = proc'[q].trans[d]
    BY <1>4, <1>8 DEF Calm, MoneyInv, CapturesCurrent
  <1>9. CASE Capture(p, c)
    <2>1. /\ camps[c].trans = h /\ gateway[h].state = "held" /\ gateway[h].camp = c
      BY <1>2, <1>9 DEF Capture, MoneyInv, CapturesCurrent, Backed
    <2>2. /\ gateway' = [gateway EXCEPT ![h].state = "captured"]
          /\ bids' = [bids EXCEPT ![h] = "CHARGE"] /\ UNCHANGED camps
      BY <1>9 DEF Capture
    <2> HIDE DEF h
    <2>3. /\ gateway'[h].state = "captured" /\ gateway'[h].camp = c /\ bids'[h] = "CHARGE"
          /\ \A g \in Holds \ {h} : gateway'[g] = gateway[g] /\ bids'[g] = bids[g]
      BY <1>1, <1>2, <2>1, <2>2 DEF DataTyped, HoldRecord
    <2>4. SpentIsCurrent'
      BY <2>1, <2>2, <2>3 DEF MoneyInv, SpentIsCurrent, Spent
    <2>5. VoidsCurrent'
      BY <1>1, <1>4, <1>5, <2>2 DEF MoneyInv, VoidsCurrent, Calm
    <2>6. PaysUnpaid'
      BY <1>1, <1>4, <1>5, <2>2 DEF MoneyInv, PaysUnpaid, Calm
    <2>7. HoldUnspent'
      <3> SUFFICES ASSUME NEW v \in Web, proc'[v].at \in {"status", "trans"},
                          proc'[v].hold \in Holds
                   PROVE  gateway'[proc'[v].hold].state \notin {"captured", "settled"}
        BY DEF HoldUnspent, Spent
      <3>1. proc[v].hold # h
        BY <1>2, <1>7, <2>1
      <3>2. QED
        BY <1>7, <2>3, <3>1 DEF Spent
    <2>8. CapturesCurrent'
      BY <1>8, <2>2, <2>3 DEF CapturesCurrent
    <2>9. QED
      BY <1>6, <2>4, <2>5, <2>6, <2>7, <2>8 DEF MoneyInv
  <1>10. CASE HoldNotFound(p, c)
    <2>1. /\ gateway[h].state = "gone" /\ camps[c].trans \in {h, NoTransaction}
      BY <1>10 DEF HoldNotFound, Undisturbed
    <2>2. /\ bids' = [bids EXCEPT ![h] = "VOID"]
          /\ camps' = [camps EXCEPT ![c].trans = NoTransaction]
          /\ UNCHANGED gateway
      BY <1>10 DEF HoldNotFound
    <2> HIDE DEF h
    <2>3. \A d \in Campaigns : camps'[d].trans = IF d = c THEN NoTransaction ELSE camps[d].trans
      BY <1>1, <2>2 DEF DataTyped, CampRecord
    <2>4. \A g \in Holds \ {h} : bids'[g] = bids[g]
      BY <1>1, <1>2, <2>2 DEF DataTyped
    <2>5. SpentIsCurrent'
      BY <2>1, <2>2, <2>3, <2>4 DEF MoneyInv, SpentIsCurrent, Spent
    <2>6. VoidsCurrent'
      BY <1>1, <1>4, <1>5, <2>3 DEF MoneyInv, VoidsCurrent, Calm
    <2>7. PaysUnpaid'
      BY <1>1, <1>4, <1>5, <2>3 DEF MoneyInv, PaysUnpaid, Calm
    <2>8. HoldUnspent'
      BY <1>7, <2>2 DEF HoldUnspent, Spent
    <2>9. CapturesCurrent'
      <3> SUFFICES ASSUME NEW q \in Procs, NEW d \in Campaigns, proc'[q].trans[d] \in Holds,
                          gateway'[proc'[q].trans[d]].state = "held"
                   PROVE  camps'[d].trans = proc'[q].trans[d]
        BY DEF CapturesCurrent
      <3>1. camps[d].trans = proc'[q].trans[d] /\ proc'[q].trans[d] # h
        BY <1>8, <2>1, <2>2
      <3>2. d # c
        BY <2>1, <3>1
      <3>3. QED
        BY <2>3, <3>1, <3>2
    <2>10. QED
      BY <1>6, <2>5, <2>6, <2>7, <2>8, <2>9 DEF MoneyInv
  <1>11. QED
    BY <1>9, <1>10

\* A campaign that exists goes on existing.
LEMMA StatesStay ==
  ASSUME PromoteTyped, [PromoteNext]_promoVars, NEW d \in Campaigns, camps[d].state # "none"
  PROVE  camps'[d].state # "none"
  <1>1. camps \in [Campaigns -> CampRecord]
    BY DEF PromoteTyped, DataTyped
  <1>2. CASE camps' = camps
    BY <1>2
  <1>3. ASSUME NEW c \in Campaigns, NewCampaign(c) \/ TerminateCampaign(c)
        PROVE  camps'[d].state # "none"
    <2>1. CASE TerminateCampaign(c)
      BY <1>1, <2>1 DEF TerminateCampaign, CampRecord
    <2>2. CASE NewCampaign(c)
      <3>1. PICK r : camps' = [camps EXCEPT ![c] = [NoCampaign EXCEPT
                                  !.state = "open", !.listed = TRUE, !.start = r[1], !.end = r[2]]]
        BY <2>2, Zenon DEF NewCampaign
      <3>2. QED
        BY <1>1, <3>1 DEF NoCampaign
    <2>3. QED
      BY <1>3, <2>1, <2>2
  <1>4. ASSUME NEW c \in Campaigns, EditDates(c)
        PROVE  camps'[d].state # "none"
    <2>1. PICK r : camps' = [camps EXCEPT ![c].start = r[1], ![c].end = r[2], ![c].listed = TRUE]
      BY <1>4, Zenon DEF EditDates
    <2>2. QED
      BY <1>1, <2>1 DEF CampRecord
  <1>5. ASSUME NEW w \in Web, NEW c \in Campaigns,
               \/ \E op \in {"pay", "freebie"} : BeginAuth(w, c, op)
               \/ BeginBudget(w, c) \/ BeginDelete(w, c)
        PROVE  camps'[d].state # "none"
    BY <1>5, BeginMoves
  <1>6. ASSUME NEW w \in Web, VoidCampaign(w) \/ VoidRefused(w)
        PROVE  camps'[d].state # "none"
    <2>1. PICK c, x, y : camps' = [camps EXCEPT ![c].trans = x, ![c].listed = y]
      <3>1. CASE VoidCampaign(w)
        BY <3>1 DEF VoidCampaign
      <3>2. CASE VoidRefused(w)
        BY <3>2 DEF VoidRefused
      <3>3. QED
        BY <1>6, <3>1, <3>2
    <2>2. QED
      BY <1>1, <2>1, SMTT(40) DEF CampRecord
  <1>7. ASSUME NEW w \in Web, DeleteCampaign(w) \/ PaidTrans(w)
        PROVE  camps'[d].state # "none"
    BY <1>1, <1>7 DEF DeleteCampaign, PaidTrans, CampRecord
  <1>8. ASSUME NEW p \in Procs, NEW c \in Campaigns, HoldNotFound(p, c)
        PROVE  camps'[d].state # "none"
    BY <1>1, <1>8 DEF HoldNotFound, CampRecord
  <1>9. ASSUME NEW w \in Web, \/ AuthFreebie(w) \/ AuthHold(w) \/ AuthLost(w) \/ AuthDeclined(w)
                              \/ VoidLost(w) \/ PaidStatus(w) \/ AcceptPromotion(w) \/ AcceptEnds(w)
        PROVE  camps' = camps
    BY <1>9 DEF AuthFreebie, AuthHold, AuthLost, AuthDeclined, VoidLost, PaidStatus,
                AcceptPromotion, AcceptEnds
  <1>10. ASSUME NEW p \in Procs, NEW c \in Campaigns,
                \/ Consider(p, c) \/ ChargeFreebie(p, c) \/ Capture(p, c) \/ CaptureLost(p, c)
                \/ CaptureRefused(p, c)
         PROVE  camps' = camps
    <2>1. CASE Consider(p, c)
      BY <2>1 DEF Consider
    <2>2. CASE ChargeFreebie(p, c)
      BY <2>2 DEF ChargeFreebie
    <2>3. CASE Capture(p, c)
      BY <2>3 DEF Capture
    <2>4. CASE CaptureLost(p, c)
      BY <2>4 DEF CaptureLost
    <2>5. CASE CaptureRefused(p, c)
      BY <2>5, SMTT(30) DEF CaptureRefused
    <2>6. QED
      BY <1>10, <2>1, <2>2, <2>3, <2>4, <2>5
  <1>11. ASSUME \/ RejectPromotion \/ EditPromotion \/ JobStart \/ NextPass \/ ExpireLinks
                \/ \E p \in Procs : SetPending(p) \/ PromoteLink(p)
                \/ SettleCharges \/ DayPasses \/ \E h \in Holds : HoldExpires(h)
                \/ UNCHANGED promoVars
         PROVE  camps' = camps
    BY <1>11 DEF RejectPromotion, EditPromotion, JobStart, NextPass, ExpireLinks, SetPending,
                 PromoteLink, SettleCharges, DayPasses, HoldExpires, promoVars
  <1>12. QED
    BY <1>2, <1>3, <1>4, <1>5, <1>6, <1>7, <1>8, <1>9, <1>10, <1>11 DEF PromoteNext

LEMMA CreatedStep ==
  ASSUME PromoteTyped, CreatedFirst, [PromoteNext]_promoVars
  PROVE  CreatedFirst'
  <1>1. \A d \in Campaigns : camps[d].state # "none" => camps'[d].state # "none"
    BY StatesStay
  <1>2. Web \subseteq Procs /\ camps \in [Campaigns -> CampRecord] /\ Nobody \notin Campaigns
    BY PromoteAssumption DEF PromoteTyped, DataTyped, Procs
  <1>3. ASSUME \A d \in Campaigns : camps'[d].trans \in {camps[d].trans, NoTransaction},
               \A p \in Procs : proc'[p].camp \in {proc[p].camp, Nobody}
        PROVE  CreatedFirst'
    BY <1>1, <1>2, <1>3 DEF CreatedFirst
  <1>4. ASSUME GatewayCalm, \A c \in Campaigns : camps'[c].trans = camps[c].trans,
               \A p \in Procs : Calm(p)
        PROVE  CreatedFirst'
    BY <1>3, <1>4 DEF Calm
  <1>5. ASSUME NEW w \in Web, NEW c \in Campaigns,
               \/ \E op \in {"pay", "freebie"} : BeginAuth(w, c, op)
               \/ BeginBudget(w, c) \/ BeginDelete(w, c)
        PROVE  CreatedFirst'
    BY <1>2, <1>5, BeginMoves DEF CreatedFirst
  <1>6. ASSUME NEW w \in Web, VoidCampaign(w) \/ VoidRefused(w)
        PROVE  CreatedFirst'
    <2>1. \A p \in Procs : proc'[p].camp \in {proc[p].camp, Nobody}
      BY <1>6, VoidMoves, SMTT(40)
    <2>2. PICK c, x, y : /\ camps' = [camps EXCEPT ![c].trans = x, ![c].listed = y]
                         /\ x \in {camps[c].trans, NoTransaction}
      <3>1. CASE VoidCampaign(w)
        BY <3>1 DEF VoidCampaign
      <3>2. CASE VoidRefused(w)
        BY <3>2 DEF VoidRefused
      <3>3. QED
        BY <1>6, <3>1, <3>2
    <2>3. \A d \in Campaigns : camps'[d].trans \in {camps[d].trans, NoTransaction}
      BY <1>2, <2>2 DEF CampRecord
    <2>4. QED
      BY <1>3, <2>1, <2>3
  <1>7. ASSUME NEW w \in Web, AuthHold(w)
        PROVE  CreatedFirst'
    <2>1. \A p \in Procs : proc'[p].camp = proc[p].camp
      BY <1>7, HoldMoves
    <2>2. QED
      BY <1>3, <1>7, <2>1 DEF AuthHold
  <1>8. ASSUME NEW w \in Web, AuthLost(w)
        PROVE  CreatedFirst'
    <2>1. \A p \in Procs : proc'[p].camp \in {proc[p].camp, Nobody}
      BY <1>2, <1>8, FinishMoves DEF AuthLost
    <2>2. QED
      BY <1>3, <1>8, <2>1 DEF AuthLost
  <1>9. ASSUME NEW w \in Web, PaidTrans(w)
        PROVE  CreatedFirst'
    <2>1. w \in Procs /\ proc[w].camp \in Campaigns
      BY <1>2, <1>9, ProcFields DEF PaidTrans
    <2>2. \A p \in Procs : proc'[p].camp \in {proc[p].camp, Nobody}
      BY <1>9, <2>1, FinishMoves DEF PaidTrans
    <2>3. camps' = [camps EXCEPT ![proc[w].camp].trans = proc[w].hold]
      BY <1>9 DEF PaidTrans
    <2>4. \A d \in Campaigns : d # proc[w].camp => camps'[d] = camps[d]
      BY <1>2, <2>3
    <2>5. camps'[proc[w].camp].state # "none"
      BY <1>1, <2>1 DEF CreatedFirst
    <2>6. QED
      BY <1>1, <1>2, <2>1, <2>2, <2>4, <2>5 DEF CreatedFirst
  <1>10. ASSUME NEW p \in Procs, NEW c \in Campaigns,
                Capture(p, c) \/ HoldNotFound(p, c) \/ CaptureLost(p, c)
         PROVE  CreatedFirst'
    <2>1. \A d \in Campaigns : camps'[d].trans \in {camps[d].trans, NoTransaction}
      BY <1>2, <1>10 DEF Capture, HoldNotFound, CaptureLost, CampRecord
    <2>2. \/ proc' = Finish(p)
          \/ \E place \in {"next", "pending", "promote"} : proc' = Turn(p, c, place)
      BY <1>10 DEF Capture, HoldNotFound, CaptureLost
    <2>3. \A q \in Procs : Calm(q)
      BY <2>2, FinishCalm, TurnCalm
    <2>4. QED
      BY <1>3, <2>1, <2>3 DEF Calm
  <1>11. QED
    BY <1>4, <1>5, <1>6, <1>7, <1>8, <1>9, <1>10, CalmActions DEF PromoteNext

LEMMA MoneyStep ==
  ASSUME PromoteTyped, PromoteTyped', CreatedFirst, MoneyInv, Undisturbed',
         [PromoteNext]_promoVars
  PROVE  MoneyInv'
  <1>1. ASSUME NEW p \in Procs, NEW c \in Campaigns, CaptureLost(p, c)
        PROVE  FALSE
    BY <1>1 DEF CaptureLost, Undisturbed
  <1>2. ASSUME NEW w \in Web, VoidRefused(w)
        PROVE  FALSE
    BY <1>2 DEF VoidRefused, Undisturbed
  <1>3. QED
    BY <1>1, <1>2, CalmActions, CalmStep, BeginMoney, VoidMoney, HoldMoney, PaidMoney, ChargeMoney
    DEF PromoteNext

-----------------------------------------------------------------------------
(* The job                                                                 *)

\* A charge that no Bid row knows of is one whose answer was lost.
ChargesRecorded == \A h \in Holds : Spent(h) => bids[h] = "CHARGE" \/ "lost" \in odd

Job == proc["job"]
Ready(date) == {c \in Campaigns : camps[c].listed /\ Payable(c, date)}
Paid(c) == Charged(camps[c].trans, c)
Served(c) == Paid(c) \/ "lost" \in odd

\* While the job is alone its copies are as good as the originals,
JobKnows == Job.op # "none" =>
    Job.link = status /\ \A c \in Job.todo : Job.trans[c] = camps[c].trans

\* and what is to be charged is charged, or comes in this pass or the next.
TodayServed ==
    IsAccepted(status) =>
        \A c \in Ready(day) : Served(c) \/ (Job.op = "charge0" /\ c \in Job.todo)
TomorrowServed ==
    IsAccepted(status) /\ Job.op # "charge0" =>
        \A c \in Ready(day + 1) : Served(c) \/ (Job.op = "charge1" /\ c \in Job.todo)

\* In the last pass the job has promoted the link as soon as it has met a
\* campaign that is charged.
PaidMet ==
    Job.op = "promote" =>
        /\ Job.todo \subseteq Ready(day)
        /\ Job.live => status = "promoted" /\ \E c \in Ready(day) : Paid(c)
        /\ Job.at = "promote" => \E c \in Ready(day) : Paid(c)
        /\ IsAccepted(status) /\ Job.at = "next" /\ (\E c \in Ready(day) \ Job.todo : Paid(c)) =>
              Job.live

StatusSettled ==
    Job.op = "none" =>
        ((status = "promoted") <=> (IsAccepted(status) /\ \E c \in Ready(day) : Paid(c)))

WebIdle == \A w \in Web : Idle(w)

JobInv == WebIdle /\ JobKnows /\ TodayServed /\ TomorrowServed /\ PaidMet /\ StatusSettled

\* Nothing is forgotten of a charge.
LEMMA ChargesRecordedStep ==
  ASSUME PromoteTyped, CreatedFirst, ChargesRecorded, [PromoteNext]_promoVars
  PROVE  ChargesRecorded'
  <1>1. /\ gateway \in [Holds -> HoldRecord] /\ bids \in [Holds -> BidStatuses]
        /\ odd \subseteq odd' /\ Web \subseteq Procs
    BY OddGrows DEF PromoteTyped, DataTyped, Procs
  <1>2. CASE GatewayCalm
    BY <1>1, <1>2 DEF GatewayCalm, ChargesRecorded, Spent
  <1>3. ASSUME NEW w \in Web, NEW c \in Campaigns,
               \/ \E op \in {"pay", "freebie"} : BeginAuth(w, c, op)
               \/ BeginBudget(w, c) \/ BeginDelete(w, c)
        PROVE  ChargesRecorded'
    BY <1>1, <1>3 DEF BeginAuth, BeginBudget, BeginDelete, moneyVars, ChargesRecorded, Spent
  <1>4. ASSUME NEW w \in Web, VoidCampaign(w) \/ VoidRefused(w)
        PROVE  ChargesRecorded'
    <2>1. \/ UNCHANGED <<gateway, bids>>
          \/ \E t \in Holds : /\ gateway' = [gateway EXCEPT ![t].state = "gone"]
                              /\ bids' = [bids EXCEPT ![t] = "VOID"]
      BY <1>4 DEF VoidCampaign, VoidRefused, moneyVars
    <2>2. QED
      BY <1>1, <2>1, SMTT(30) DEF ChargesRecorded, Spent, HoldRecord
  <1>5. ASSUME NEW w \in Web, AuthHold(w) \/ AuthLost(w)
        PROVE  ChargesRecorded'
    <2> DEFINE c == proc[w].camp
    <2>0. c \in Campaigns
      BY <1>1, <1>5, ProcFields DEF AuthHold, AuthLost
    <2>1. PICK h \in NewHolds(c) :
             gateway' = Held(h, c) /\ bids' \in {bids, [bids EXCEPT ![h] = BidOf(h)]}
      BY <1>5, Zenon DEF AuthHold, AuthLost
    <2> HIDE DEF c
    <2>2. /\ h \in Holds /\ (bids[h] # "none" => BidOf(h) = bids[h])
          /\ gateway'[h] = IF gateway[h] = NoHold THEN [camp |-> c, state |-> "held"]
                           ELSE gateway[h]
          /\ \A g \in Holds \ {h} : gateway'[g] = gateway[g]
      <3>1. /\ h \in Holds /\ (bids[h] # "none" => BidOf(h) = bids[h])
            /\ Held(h, c)[h] = IF gateway[h] = NoHold THEN [camp |-> c, state |-> "held"]
                               ELSE gateway[h]
            /\ \A g \in Holds \ {h} : Held(h, c)[g] = gateway[g]
        BY <2>0, NewHoldIs
      <3>2. QED
        BY <2>1, <3>1, Zenon
    <2>3. \A g \in Holds : bids[g] = "CHARGE" => bids'[g] = "CHARGE"
      BY <1>1, <2>1, <2>2
    <2>4. \A g \in Holds : gateway'[g].state \in {"captured", "settled"} => Spent(g)
      BY <2>2 DEF Spent
    <2>5. QED
      BY <1>1, <2>3, <2>4 DEF ChargesRecorded, Spent
  <1>6. ASSUME NEW w \in Web, PaidTrans(w)
        PROVE  ChargesRecorded'
    BY <1>1, <1>6 DEF PaidTrans, moneyVars, ChargesRecorded, Spent
  <1>7. ASSUME NEW q \in Procs, NEW c \in Campaigns, Capture(q, c)
        PROVE  ChargesRecorded'
    <2>1. PICK h \in Holds : /\ gateway' = [gateway EXCEPT ![h].state = "captured"]
                             /\ bids' = [bids EXCEPT ![h] = "CHARGE"]
      BY <1>7 DEF Capture
    <2>2. QED
      BY <1>1, <2>1 DEF ChargesRecorded, Spent
  <1>8. ASSUME NEW q \in Procs, NEW c \in Campaigns, HoldNotFound(q, c)
        PROVE  ChargesRecorded'
    <2>1. PICK h \in Holds : /\ gateway[h].state = "gone" /\ bids' = [bids EXCEPT ![h] = "VOID"]
                             /\ UNCHANGED gateway
      BY <1>8 DEF HoldNotFound
    <2>2. QED
      BY <1>1, <2>1 DEF ChargesRecorded, Spent
  <1>9. ASSUME NEW q \in Procs, NEW c \in Campaigns, CaptureLost(q, c)
        PROVE  ChargesRecorded'
    BY <1>9 DEF CaptureLost, ChargesRecorded
  <1>10. QED
    BY <1>2, <1>3, <1>4, <1>5, <1>6, <1>7, <1>8, <1>9, CalmActions DEF PromoteNext

\* What the job is after a turn, and who has not moved.
LEMMA JobTurnIs ==
  ASSUME PromoteTyped, NEW c \in Campaigns, NEW place, proc' = Turn("job", c, place)
  PROVE  /\ Job'.op = Job.op /\ Job'.link = Job.link /\ Job'.live = Job.live
         /\ Job'.at = place /\ Job'.todo = Job.todo \ {c}
         /\ \A d \in Campaigns \ {c} : Job'.trans[d] = Job.trans[d]
         /\ \A w \in Web : proc'[w] = proc[w]
  <1>1. /\ "job" \in Procs /\ "job" \notin Web /\ Web \subseteq Procs
        /\ proc \in [Procs -> ProcRecord]
    BY PromoteAssumption DEF Procs, PromoteTyped, ProcsTyped
  <1>2. proc["job"] \in ProcRecord /\ proc["job"].trans \in [Campaigns -> Transactions]
    BY <1>1, ProcFields
  <1> DEFINE r == [proc["job"] EXCEPT !.at = place, !.todo = @ \ {c}, !.trans[c] = NoTransaction]
  <1>3. proc' = [proc EXCEPT !["job"] = r]
    BY <1>1 DEF Turn
  <1>4. /\ r.op = Job.op /\ r.link = Job.link /\ r.live = Job.live /\ r.at = place
        /\ r.todo = Job.todo \ {c} /\ r.trans = [proc["job"].trans EXCEPT ![c] = NoTransaction]
    BY <1>2 DEF ProcRecord, Job
  <1> HIDE DEF r
  <1>5. Job' = r /\ \A w \in Web : proc'[w] = proc[w]
    BY <1>1, <1>3 DEF Job
  <1>6. QED
    BY <1>2, <1>4, <1>5 DEF Job

\* What the job is when it begins a pass.
LEMMA JobPassIs ==
  ASSUME PromoteTyped, NEW op \in {"charge0", "charge1", "promote"}, NEW offset \in {0, 1},
         proc' = [proc EXCEPT !["job"] = Pass(op, offset)]
  PROVE  /\ Job'.op = op /\ Job'.link = status /\ Job'.live = FALSE /\ Job'.at = "next"
         /\ Job'.todo = {c \in Ready(day + offset) : IsAccepted(status)}
         /\ \A c \in Job'.todo : Job'.trans[c] = camps[c].trans
         /\ \A w \in Web : proc'[w] = proc[w]
  <1> DEFINE r == Pass(op, offset)
  <1>1. offset \in Int
    OBVIOUS
  <1>2. /\ r.op = op /\ r.at = "next" /\ r.link = status /\ r.live = FALSE
        /\ \A c \in Campaigns : r.trans[c] = IF c \in r.todo THEN camps[c].trans ELSE NoTransaction
    BY <1>1, PassIs
  <1>3. /\ r \in ProcRecord
        /\ \A c \in Campaigns : c \in r.todo <=> /\ camps[c].listed /\ IsAccepted(status)
                                                /\ Payable(c, day + offset)
    BY <1>1, PassIs
  <1>4. proc' = [proc EXCEPT !["job"] = r]
    OBVIOUS
  <1> HIDE DEF r
  <1>5. Job' = r /\ \A w \in Web : proc'[w] = proc[w]
    BY <1>4, PromoteAssumption DEF Job, PromoteTyped, ProcsTyped, Procs
  <1>6. r.todo = {c \in Ready(day + offset) : IsAccepted(status)}
    BY <1>3 DEF Ready, ProcRecord
  <1>7. QED
    BY <1>2, <1>5, <1>6 DEF Ready

\* Where the job turns to the next campaign, with c looked after.
LEMMA JobTurns ==
  ASSUME PromoteTyped, JobInv, NEW c \in Campaigns, c \in Job.todo, Job.at = "next",
         NEW place, proc' = Turn("job", c, place),
         UNCHANGED <<day, status>>, odd \subseteq odd',
         \A d \in Campaigns \ {c} : camps'[d] = camps[d] /\ (Paid(d)' <=> Paid(d)),
         \A date : c \in Ready(date)' => c \in Ready(date),
         Job.op \in {"charge0", "charge1"} => Served(c)' \/ \A date : c \notin Ready(date)',
         Job.op = "promote" =>
            /\ UNCHANGED camps /\ (Paid(c)' <=> Paid(c))
            /\ place = IF Paid(c) THEN "promote" ELSE "next"
  PROVE  JobInv'
  <1>1. /\ Job'.op = Job.op /\ Job'.link = Job.link /\ Job'.live = Job.live
        /\ Job'.at = place /\ Job'.todo = Job.todo \ {c}
        /\ \A d \in Campaigns \ {c} : Job'.trans[d] = Job.trans[d]
        /\ \A w \in Web : proc'[w] = proc[w]
    BY JobTurnIs
  <1>2. /\ Job.todo \subseteq Campaigns
        /\ Job.op \in {"none", "charge0", "charge1", "promote"}
    BY ProcFields DEF Procs, Job, PromoteTyped, OwnWork
  <1>3. \A date : /\ \A d \in Campaigns \ {c} : d \in Ready(date)' <=> d \in Ready(date)
                  /\ Ready(date)' \subseteq Ready(date) /\ Ready(date) \subseteq Campaigns
    BY DEF Ready, Payable, Runs
  <1>4. \A d \in Campaigns \ {c} : Served(d) => Served(d)'
    BY DEF Served
  <1>5. WebIdle'
    BY <1>1 DEF JobInv, WebIdle, Idle
  <1>6. JobKnows'
    BY <1>1, <1>2 DEF JobInv, JobKnows
  <1>7. TodayServed'
    <2> SUFFICES ASSUME IsAccepted(status), NEW d \in Ready(day)'
                 PROVE  Served(d)' \/ (Job'.op = "charge0" /\ d \in Job'.todo)
      BY DEF TodayServed
    <2>1. d \in Ready(day) /\ d \in Campaigns
      BY <1>3
    <2>2. Served(d) \/ (Job.op = "charge0" /\ d \in Job.todo)
      BY <2>1 DEF JobInv, TodayServed
    <2>3. CASE d # c
      BY <1>1, <1>4, <2>1, <2>2, <2>3
    <2>4. CASE d = c /\ Job.op # "promote"
      <3>1. Job.op # "none"
        BY <1>2, ProcFields, PlacesAre DEF Job, Procs
      <3>2. QED
        BY <1>2, <2>4, <3>1
    <2>5. CASE d = c /\ Job.op = "promote"
      BY <2>2, <2>5 DEF Served
    <2>6. QED
      BY <2>3, <2>4, <2>5
  <1>8. TomorrowServed'
    <2> SUFFICES ASSUME IsAccepted(status), Job.op # "charge0", NEW d \in Ready(day + 1)'
                 PROVE  Served(d)' \/ (Job'.op = "charge1" /\ d \in Job'.todo)
      BY <1>1 DEF TomorrowServed
    <2>1. d \in Ready(day + 1) /\ d \in Campaigns
      BY <1>3
    <2>2. Served(d) \/ (Job.op = "charge1" /\ d \in Job.todo)
      BY <2>1 DEF JobInv, TomorrowServed
    <2>3. CASE d # c
      BY <1>1, <1>4, <2>1, <2>2, <2>3
    <2>4. CASE d = c /\ Job.op # "promote"
      <3>1. Job.op # "none"
        BY <1>2, ProcFields, PlacesAre DEF Job, Procs
      <3>2. QED
        BY <1>2, <2>4, <3>1
    <2>5. CASE d = c /\ Job.op = "promote"
      BY <2>2, <2>5 DEF Served
    <2>6. QED
      BY <2>3, <2>4, <2>5
  <1>9. PaidMet'
    <2> SUFFICES ASSUME Job.op = "promote"
                 PROVE  PaidMet'
      BY <1>1 DEF PaidMet
    <2>1. /\ Ready(day)' = Ready(day) /\ \A d \in Campaigns : Paid(d)' <=> Paid(d)
      BY DEF Ready, Payable, Runs
    <2>2. c \in Ready(day) /\ Job.todo \subseteq Ready(day)
      BY DEF JobInv, PaidMet
    <2>3. QED
      BY <1>1, <1>3, <2>1, <2>2 DEF JobInv, PaidMet
  <1>10. StatusSettled'
    <2>1. Job.op # "none"
      BY <1>2, ProcFields, PlacesAre DEF Job, Procs
    <2>2. QED
      BY <1>1, <2>1 DEF StatusSettled
  <1>11. QED
    BY <1>5, <1>6, <1>7, <1>8, <1>9, <1>10 DEF JobInv

\* A hold is the transaction of one campaign at most.
LEMMA HoldsApart ==
  ASSUME PromoteTyped, NEW c \in Campaigns, NEW h \in Holds, Backed(h, c)
  PROVE  /\ \A d \in Campaigns \ {c} : camps[d].trans # h
         /\ h # NoTransaction /\ h # Freebie
  BY RestIsPlaced DEF PromoteTyped, CampsBacked, Backed

LEMMA JobCharges ==
  ASSUME PromoteTyped, ChargesRecorded, JobInv, settled', NEW c \in Campaigns,
         \/ Consider("job", c) \/ ChargeFreebie("job", c) \/ Capture("job", c)
         \/ HoldNotFound("job", c) \/ CaptureRefused("job", c)
  PROVE  JobInv'
  <1> DEFINE h == proc["job"].trans[c]
  <1>1. /\ Job.at = "next" /\ c \in Job.todo /\ UNCHANGED <<day, status>>
        /\ "job" \in Procs /\ DataTyped
    BY DEF Consider, ChargeFreebie, Capture, HoldNotFound, CaptureRefused, MustCharge, Job, Procs,
           PromoteTyped
  <1>2. Job.op \in {"charge0", "charge1", "promote"}
    BY <1>1, ProcFields, PlacesAre DEF Job, PromoteTyped, OwnWork
  <1>3. /\ Charges("job") <=> Job.op \in {"charge0", "charge1"}
        /\ Promotes("job") <=> Job.op = "promote"
    BY <1>2 DEF Charges, Promotes, Job
  <1>4. h = camps[c].trans /\ Backed(h, c)
    BY <1>1, <1>2 DEF JobInv, JobKnows, Job, PromoteTyped, CopiesBacked
  <1>5. odd \subseteq odd'
    BY DEF Consider, ChargeFreebie, Capture, HoldNotFound, CaptureRefused, ghostVars
  <1>6. CASE Consider("job", c)
    <2>1. UNCHANGED <<camps, bids, freebies>> /\ (Paid(c) \/ Job.op = "promote")
      BY <1>2, <1>3, <1>4, <1>6 DEF Consider, moneyVars, Paid
    <2>2. PICK place : /\ place = IF Paid(c) /\ Promotes("job") THEN "promote" ELSE "next"
                       /\ proc' = Turn("job", c, place)
      BY <1>4, <1>6 DEF Consider, Paid
    <2>3. \A d \in Campaigns : Paid(d)' <=> Paid(d)
      BY <2>1 DEF Paid, Charged
    <2>4. \A date : c \in Ready(date)' <=> c \in Ready(date)
      BY <2>1 DEF Ready, Payable, Runs
    <2>5. QED
      BY <1>1, <1>2, <1>3, <1>5, <2>1, <2>2, <2>3, <2>4, JobTurns DEF Served
  <1>7. CASE ChargeFreebie("job", c)
    <2>1. /\ UNCHANGED <<camps, bids>> /\ freebies' = [freebies EXCEPT ![c] = "CHARGE"]
          /\ h = Freebie /\ proc' = Turn("job", c, "pending") /\ Job.op \in {"charge0", "charge1"}
      BY <1>3, <1>7 DEF ChargeFreebie, MustCharge
    <2>2. \A d \in Campaigns \ {c} : freebies'[d] = freebies[d]
      BY <1>1, <2>1 DEF DataTyped
    <2>3. \A d \in Campaigns \ {c} : Paid(d)' <=> Paid(d)
      BY <2>1, <2>2 DEF Paid, Charged
    <2>4. Paid(c)'
      BY <1>1, <1>4, <2>1, RestIsPlaced DEF Paid, Charged, DataTyped
    <2>5. \A date : c \in Ready(date)' <=> c \in Ready(date)
      BY <2>1 DEF Ready, Payable, Runs
    <2>6. QED
      BY <1>1, <1>5, <2>1, <2>3, <2>4, <2>5, JobTurns DEF Served
  <1>8. CASE Capture("job", c)
    <2>1. /\ UNCHANGED <<camps, freebies>> /\ bids' = [bids EXCEPT ![h] = "CHARGE"]
          /\ h \in Holds /\ proc' = Turn("job", c, "pending") /\ Job.op \in {"charge0", "charge1"}
      BY <1>3, <1>8 DEF Capture, MustCharge
    <2>2. /\ \A d \in Campaigns \ {c} : camps[d].trans # h
          /\ h # NoTransaction /\ h # Freebie
      BY <1>4, <2>1, HoldsApart
    <2> HIDE DEF h
    <2>3. bids'[h] = "CHARGE" /\ \A t \in Holds \ {h} : bids'[t] = bids[t]
      BY <1>1, <2>1 DEF DataTyped
    <2>4. \A d \in Campaigns : camps[d].trans \in {NoTransaction, Freebie} \cup Holds
      BY <1>1 DEF DataTyped, CampRecord, Transactions
    <2>5. \A d \in Campaigns \ {c} : Paid(d)' <=> Paid(d)
      BY <2>1, <2>2, <2>3, <2>4 DEF Paid, Charged
    <2>6. Paid(c)'
      BY <1>4, <2>1, <2>2, <2>3 DEF Paid, Charged
    <2>7. \A date : c \in Ready(date)' <=> c \in Ready(date)
      BY <2>1 DEF Ready, Payable, Runs
    <2>8. QED
      BY <1>1, <1>5, <2>1, <2>5, <2>6, <2>7, JobTurns DEF Served
  <1>9. CASE HoldNotFound("job", c)
    <2>1. /\ camps' = [camps EXCEPT ![c].trans = NoTransaction] /\ UNCHANGED freebies
          /\ bids' = [bids EXCEPT ![h] = "VOID"]
          /\ h \in Holds /\ proc' = Turn("job", c, "next") /\ Job.op \in {"charge0", "charge1"}
      BY <1>3, <1>9 DEF HoldNotFound, MustCharge
    <2>2. /\ \A d \in Campaigns \ {c} : camps[d].trans # h
          /\ h # NoTransaction /\ h # Freebie
      BY <1>4, <2>1, HoldsApart
    <2> HIDE DEF h
    <2>3. \A t \in Holds \ {h} : bids'[t] = bids[t]
      BY <1>1, <2>1 DEF DataTyped
    <2>4. /\ \A d \in Campaigns : camps[d].trans \in {NoTransaction, Freebie} \cup Holds
          /\ \A d \in Campaigns \ {c} : camps'[d] = camps[d]
          /\ camps'[c].trans = NoTransaction
      BY <1>1, <2>1 DEF DataTyped, CampRecord, Transactions
    <2>5. \A d \in Campaigns \ {c} : Paid(d)' <=> Paid(d)
      BY <2>1, <2>2, <2>3, <2>4 DEF Paid, Charged
    <2>6. \A date : c \notin Ready(date)'
      BY <2>4 DEF Ready, Payable
    <2>7. QED
      BY <1>1, <1>5, <2>1, <2>4, <2>5, <2>6, JobTurns
  <1>10. CASE CaptureRefused("job", c)
    <2>1. /\ UNCHANGED <<camps, bids, freebies, odd>> /\ h \in Holds /\ Spent(h) /\ ~Charged(h, c)
          /\ proc' = Turn("job", c, "next") /\ Job.op \in {"charge0", "charge1"}
      BY <1>3, <1>10 DEF CaptureRefused, MustCharge, moneyVars, Spent
    <2>2. h # NoTransaction /\ h # Freebie
      BY <1>4, <2>1, HoldsApart
    <2>3. "lost" \in odd'
      BY <2>1, <2>2 DEF ChargesRecorded, Charged
    <2>4. \A d \in Campaigns : Paid(d)' <=> Paid(d)
      BY <2>1 DEF Paid, Charged
    <2>5. \A date : c \in Ready(date)' <=> c \in Ready(date)
      BY <2>1 DEF Ready, Payable, Runs
    <2>6. QED
      BY <1>1, <1>5, <2>1, <2>3, <2>4, <2>5, JobTurns DEF Served
  <1>11. QED
    BY <1>6, <1>7, <1>8, <1>9, <1>10

\* Where neither the campaigns nor their Bid rows change.
LEMMA SameCampaigns ==
  ASSUME UNCHANGED <<day, camps, bids, freebies>>, odd \subseteq odd'
  PROVE  /\ Ready(day)' = Ready(day) /\ Ready(day + 1)' = Ready(day + 1)
         /\ \A c \in Campaigns : (Paid(c)' <=> Paid(c)) /\ (Served(c) => Served(c)')
         /\ Ready(day) \subseteq Campaigns /\ Ready(day + 1) \subseteq Campaigns
  <1>1. Ready(day)' = Ready(day) /\ Ready(day + 1)' = Ready(day + 1)
    BY DEF Ready, Payable, Runs
  <1>2. \A c \in Campaigns : Paid(c)' <=> Paid(c)
    BY DEF Paid, Charged
  <1>3. QED
    BY <1>1, <1>2 DEF Served, Ready

\* A run begins: nothing need be known of what was before.
LEMMA JobBegins ==
  ASSUME PromoteTyped, JobStart, settled'
  PROVE  JobInv'
  <1>1. /\ proc' = [proc EXCEPT !["job"] = Pass("charge0", 0)] /\ WebIdle
        /\ UNCHANGED <<day, status, camps, bids, freebies, odd>>
    BY DEF JobStart, moneyVars, WebIdle
  <1>2. day \in Int /\ day + 0 = day
    BY PromoteAssumption DEF PromoteTyped, DataTyped
  <1>3. /\ Job'.op = "charge0" /\ Job'.link = status
        /\ Job'.todo = {c \in Ready(day + 0) : IsAccepted(status)}
        /\ \A c \in Job'.todo : Job'.trans[c] = camps[c].trans
        /\ \A w \in Web : proc'[w] = proc[w]
    BY <1>1, JobPassIs
  <1>4. Ready(day)' = Ready(day)
    BY <1>1, SameCampaigns
  <1>5. WebIdle'
    BY <1>1, <1>3 DEF WebIdle, Idle
  <1>6. JobKnows'
    BY <1>1, <1>3 DEF JobKnows
  <1>7. TodayServed'
    BY <1>1, <1>2, <1>3, <1>4 DEF TodayServed
  <1>8. TomorrowServed' /\ PaidMet' /\ StatusSettled'
    BY <1>3 DEF TomorrowServed, PaidMet, StatusSettled
  <1>9. QED
    BY <1>5, <1>6, <1>7, <1>8 DEF JobInv

LEMMA JobPasses ==
  ASSUME PromoteTyped, JobInv, NextPass
  PROVE  JobInv'
  <1>1. /\ UNCHANGED <<day, status, camps, bids, freebies, odd>> /\ Job.todo = {}
    BY DEF NextPass, moneyVars, ghostVars, Job
  <1>2. day \in Int /\ day + 0 = day
    BY PromoteAssumption DEF PromoteTyped, DataTyped
  <1>3. /\ Ready(day)' = Ready(day) /\ Ready(day + 1)' = Ready(day + 1)
        /\ \A c \in Campaigns : (Paid(c)' <=> Paid(c)) /\ (Served(c) => Served(c)')
        /\ Ready(day) \subseteq Campaigns /\ Ready(day + 1) \subseteq Campaigns
    BY <1>1, SameCampaigns
  <1>4. ASSUME NEW op \in {"charge1", "promote"}, NEW offset \in {0, 1},
               proc' = [proc EXCEPT !["job"] = Pass(op, offset)]
        PROVE  /\ Job'.op = op /\ Job'.live = FALSE /\ Job'.at = "next"
               /\ Job'.todo = {c \in Ready(day + offset) : IsAccepted(status)}
               /\ WebIdle' /\ JobKnows' /\ StatusSettled' /\ TodayServed'
    <2>1. /\ Job'.op = op /\ Job'.live = FALSE /\ Job'.at = "next" /\ Job'.link = status
          /\ Job'.todo = {c \in Ready(day + offset) : IsAccepted(status)}
          /\ \A c \in Job'.todo : Job'.trans[c] = camps[c].trans
          /\ \A w \in Web : proc'[w] = proc[w]
      BY <1>4, JobPassIs
    <2>2. WebIdle' /\ JobKnows' /\ StatusSettled'
      BY <1>1, <2>1 DEF JobInv, WebIdle, Idle, JobKnows, StatusSettled
    <2>3. TodayServed'
      BY <1>1, <1>3, <2>1 DEF JobInv, TodayServed
    <2>4. QED
      BY <2>1, <2>2, <2>3
  <1>5. CASE Job.op = "charge0"
    <2>1. proc' = [proc EXCEPT !["job"] = Pass("charge1", 1)]
      BY <1>5 DEF NextPass, Job
    <2>2. /\ Job'.op = "charge1" /\ Job'.todo = {c \in Ready(day + 1) : IsAccepted(status)}
          /\ WebIdle' /\ JobKnows' /\ StatusSettled' /\ TodayServed'
      BY <1>4, <2>1
    <2>3. TomorrowServed'
      BY <1>1, <1>3, <2>2 DEF TomorrowServed
    <2>4. PaidMet'
      BY <2>2 DEF PaidMet
    <2>5. QED
      BY <2>2, <2>3, <2>4 DEF JobInv
  <1>6. CASE Job.op = "charge1"
    <2>1. proc' = [proc EXCEPT !["job"] = Pass("promote", 0)]
      BY <1>6 DEF NextPass, Job
    <2>2. /\ Job'.op = "promote" /\ Job'.live = FALSE /\ Job'.at = "next"
          /\ Job'.todo = {c \in Ready(day + 0) : IsAccepted(status)}
          /\ WebIdle' /\ JobKnows' /\ StatusSettled' /\ TodayServed'
      BY <1>4, <2>1
    <2>3. TomorrowServed'
      BY <1>1, <1>3, <1>6, <2>2 DEF JobInv, TomorrowServed
    <2>4. PaidMet'
      BY <1>1, <1>2, <1>3, <2>2 DEF PaidMet
    <2>5. QED
      BY <2>2, <2>3, <2>4 DEF JobInv
  <1>7. QED
    BY <1>5, <1>6 DEF NextPass, Job

LEMMA JobEnds ==
  ASSUME PromoteTyped, JobInv, ExpireLinks
  PROVE  JobInv'
  <1>1. /\ UNCHANGED <<day, camps, bids, freebies, odd>>
        /\ Job.op = "promote" /\ Job.at = "next" /\ Job.todo = {} /\ proc' = Finish("job")
        /\ status' = IF status = "promoted" /\ ~Job.live THEN "finished" ELSE status
    BY DEF ExpireLinks, Expired, moneyVars, ghostVars, Job
  <1>2. /\ Ready(day)' = Ready(day) /\ Ready(day + 1)' = Ready(day + 1)
        /\ \A c \in Campaigns : (Paid(c)' <=> Paid(c)) /\ (Served(c) => Served(c)')
        /\ Ready(day) \subseteq Campaigns /\ Ready(day + 1) \subseteq Campaigns
    BY <1>1, SameCampaigns
  <1>3. Job' = AtRest /\ \A w \in Web : proc'[w] = proc[w]
    BY <1>1, PromoteAssumption DEF Finish, Job, PromoteTyped, ProcsTyped, Procs
  <1>4. Job'.op = "none"
    BY <1>3 DEF AtRest
  <1>5. IsAccepted(status') <=> IsAccepted(status)
    BY <1>1, StatusesAre DEF PromoteTyped, DataTyped
  <1>6. WebIdle' /\ JobKnows' /\ PaidMet'
    BY <1>3, <1>4 DEF JobInv, WebIdle, Idle, JobKnows, PaidMet
  <1>7. TodayServed' /\ TomorrowServed'
    BY <1>1, <1>2, <1>4, <1>5 DEF JobInv, TodayServed, TomorrowServed
  <1>8. StatusSettled'
    <2>1. /\ Job.live => status = "promoted" /\ \E c \in Ready(day) : Paid(c)
          /\ IsAccepted(status) /\ (\E c \in Ready(day) : Paid(c)) => Job.live
      BY <1>1 DEF JobInv, PaidMet
    <2>2. IsAccepted("promoted") /\ Job.live \in BOOLEAN
      BY StatusesAre, ProcFields DEF Job, Procs
    <2>3. (status' = "promoted") <=> (IsAccepted(status) /\ \E c \in Ready(day) : Paid(c))
      BY <1>1, <2>1, <2>2
    <2>4. QED
      BY <1>2, <1>5, <2>3 DEF StatusSettled
  <1>9. QED
    BY <1>6, <1>7, <1>8 DEF JobInv

\* The job writes the status from a copy that is the status.
LEMMA JobPromotes ==
  ASSUME PromoteTyped, CopiesReviewed, JobInv, SetPending("job") \/ PromoteLink("job")
  PROVE  JobInv'
  <1>1. /\ "job" \in Procs /\ "job" \notin Web /\ Web \subseteq Procs
        /\ proc \in [Procs -> ProcRecord] /\ proc["job"] \in ProcRecord
    BY PromoteAssumption DEF Procs, PromoteTyped, ProcsTyped
  <1>2. /\ UNCHANGED <<day, camps, bids, freebies>> /\ odd \subseteq odd'
        /\ Job.at \in {"pending", "promote"}
    BY DEF SetPending, PromoteLink, SetStatus, moneyVars, Job
  <1>3. /\ Ready(day)' = Ready(day) /\ Ready(day + 1)' = Ready(day + 1)
        /\ \A c \in Campaigns : (Paid(c)' <=> Paid(c)) /\ (Served(c) => Served(c)')
        /\ Ready(day) \subseteq Campaigns /\ Ready(day + 1) \subseteq Campaigns
    BY <1>2, SameCampaigns
  <1>4. /\ Job.op \in {"charge0", "charge1", "promote"}
        /\ Job.at = "pending" => Job.op \in {"charge0", "charge1"}
        /\ Job.at = "promote" => Job.op = "promote"
    BY <1>1, <1>2, ProcFields, PlacesAre DEF Job, PromoteTyped, OwnWork
  <1>5. Job.link = status /\ status \in Reviewed
    BY <1>1, <1>2, <1>4 DEF JobInv, JobKnows, CopiesReviewed, Job
  <1>6. PICK new \in {"promoted", "pending"} :
               /\ status' = new
               /\ Job'.op = Job.op /\ Job'.link = new /\ Job'.at = "next"
               /\ Job'.todo = Job.todo /\ Job'.trans = Job.trans
               /\ \A w \in Web : proc'[w] = proc[w]
               /\ Job.at = "promote" => new = "promoted"
    <2>1. CASE SetPending("job")
      <3> DEFINE new == IF proc["job"].link = "promoted" THEN "promoted" ELSE "pending"
                 r == [proc["job"] EXCEPT !.link = new, !.at = "next"]
      <3>1. Job.at = "pending" /\ ~Promotes("job")
        BY <1>4, <2>1 DEF SetPending, Promotes, Job
      <3>2. proc' = [proc EXCEPT !["job"] = r] /\ SetStatus("job", new)
        BY <1>1, <2>1, <3>1 DEF SetPending
      <3>3. new \in {"promoted", "pending"} /\ status' = new
        BY <1>5, <3>2 DEF SetStatus, Job
      <3> HIDE DEF new
      <3>4. /\ r.op = Job.op /\ r.link = new /\ r.at = "next"
            /\ r.todo = Job.todo /\ r.trans = Job.trans
        BY <1>1 DEF ProcRecord, Job
      <3> HIDE DEF r
      <3>5. Job' = r /\ \A w \in Web : proc'[w] = proc[w]
        BY <1>1, <3>2 DEF Job
      <3>6. QED
        BY <3>1, <3>3, <3>4, <3>5
    <2>2. CASE PromoteLink("job")
      <3> DEFINE l == proc["job"].live \/ proc["job"].op = "promote"
                 r == [proc["job"] EXCEPT !.link = "promoted", !.at = "next", !.live = l]
      <3>1. proc' = [proc EXCEPT !["job"] = r] /\ SetStatus("job", "promoted")
        BY <1>1, <2>2 DEF PromoteLink
      <3>2. status' = "promoted"
        BY <1>5, <3>1 DEF SetStatus, Job
      <3>3. /\ r.op = Job.op /\ r.link = "promoted" /\ r.at = "next"
            /\ r.todo = Job.todo /\ r.trans = Job.trans
        BY <1>1 DEF ProcRecord, Job
      <3> HIDE DEF r
      <3>4. Job' = r /\ \A w \in Web : proc'[w] = proc[w]
        BY <1>1, <3>1 DEF Job
      <3>5. QED
        BY <3>2, <3>3, <3>4
    <2>3. QED
      BY <2>1, <2>2
  <1>7. /\ IsAccepted(status) /\ IsAccepted(status')
    BY <1>5, <1>6, StatusesAre DEF Reviewed
  <1>8. WebIdle' /\ JobKnows' /\ StatusSettled'
    BY <1>2, <1>4, <1>6 DEF JobInv, WebIdle, Idle, JobKnows, StatusSettled
  <1>9. TodayServed' /\ TomorrowServed'
    BY <1>2, <1>3, <1>6, <1>7 DEF JobInv, TodayServed, TomorrowServed
  <1>10. PaidMet'
    <2> SUFFICES ASSUME Job.op = "promote"
                 PROVE  PaidMet'
      BY <1>6 DEF PaidMet
    <2>1. PromoteLink("job") /\ Job.at = "promote"
      BY <1>2, <1>4 DEF SetPending, Job
    <2>2. Job'.live = TRUE
      BY <1>1, <2>1 DEF PromoteLink, Job, ProcRecord
    <2>3. Job.todo \subseteq Ready(day) /\ \E c \in Ready(day) : Paid(c)
      BY <2>1 DEF JobInv, PaidMet
    <2>4. status' = "promoted" /\ \E c \in Ready(day)' : Paid(c)'
      BY <1>3, <1>6, <2>1, <2>3
    <2>5. QED
      BY <1>3, <1>6, <2>2, <2>3, <2>4 DEF PaidMet
  <1>11. QED
    BY <1>8, <1>9, <1>10 DEF JobInv

(***************************************************************************)
(* Whatever disturbs the job says so by settled, and a request cannot be   *)
(* under way: the other steps are the job's own.                           *)
(***************************************************************************)
LEMMA JobStep ==
  ASSUME PromoteTyped, CopiesReviewed, ChargesRecorded, settled => JobInv,
         [PromoteNext]_promoVars, settled'
  PROVE  JobInv'
  <1>1. CASE JobStart
    BY <1>1, JobBegins
  <1>2. ASSUME NEW w \in Web, settled
        PROVE  Idle(w) /\ proc[w].at = "idle"
    BY <1>2 DEF JobInv, WebIdle, Idle
  <1>3. CASE \/ \E c \in Campaigns : NewCampaign(c) \/ EditDates(c) \/ TerminateCampaign(c)
             \/ RejectPromotion \/ (EditPromotion /\ Request)
             \/ \E w \in Web, c \in Campaigns :
                   \/ \E op \in {"pay", "freebie"} : BeginAuth(w, c, op)
                   \/ BeginBudget(w, c) \/ BeginDelete(w, c)
             \/ \E w \in Web : AcceptPromotion(w)
             \/ \E q \in Procs, c \in Campaigns : CaptureLost(q, c)
             \/ DayPasses \/ \E h \in Holds : HoldExpires(h)
    BY <1>3, Zenon
    DEF NewCampaign, EditDates, TerminateCampaign, RejectPromotion, BeginAuth, BeginBudget,
        BeginDelete, AcceptPromotion, CaptureLost, DayPasses, HoldExpires, Request
  <1>4. CASE \E w \in Web : \/ VoidCampaign(w) \/ VoidRefused(w) \/ VoidLost(w)
                            \/ DeleteCampaign(w)
                            \/ AuthFreebie(w) \/ AuthHold(w) \/ AuthLost(w) \/ AuthDeclined(w)
                            \/ PaidStatus(w) \/ PaidTrans(w) \/ AcceptEnds(w)
                            \/ SetPending(w) \/ PromoteLink(w)
    <2>1. PICK w \in Web : \/ VoidCampaign(w) \/ VoidRefused(w) \/ VoidLost(w)
                           \/ DeleteCampaign(w)
                           \/ AuthFreebie(w) \/ AuthHold(w) \/ AuthLost(w) \/ AuthDeclined(w)
                           \/ PaidStatus(w) \/ PaidTrans(w) \/ AcceptEnds(w)
                           \/ SetPending(w) \/ PromoteLink(w)
      BY <1>4
    <2>2. CASE VoidCampaign(w)
      BY <1>2, <2>2 DEF VoidCampaign, ghostVars
    <2>3. CASE DeleteCampaign(w)
      BY <1>2, <2>3 DEF DeleteCampaign, ghostVars
    <2>4. CASE AuthFreebie(w)
      BY <1>2, <2>4 DEF AuthFreebie, ghostVars
    <2>5. CASE AuthHold(w)
      BY <1>2, <2>5 DEF AuthHold, ghostVars
    <2>6. CASE AuthLost(w)
      BY <1>2, <2>6 DEF AuthLost, ghostVars
    <2>7. CASE AuthDeclined(w)
      BY <1>2, <2>7 DEF AuthDeclined, ghostVars
    <2>8. CASE PaidStatus(w)
      BY <1>2, <2>8 DEF PaidStatus, ghostVars
    <2>9. CASE PaidTrans(w)
      BY <1>2, <2>9 DEF PaidTrans, ghostVars
    <2>10. CASE AcceptEnds(w)
      BY <1>2, <2>10 DEF AcceptEnds, ghostVars
    <2>11. CASE SetPending(w)
      BY <1>2, <2>11 DEF SetPending, ghostVars
    <2>12. CASE PromoteLink(w)
      BY <1>2, <2>12 DEF PromoteLink, ghostVars
    <2>13. CASE VoidRefused(w)
      BY <1>2, <2>13 DEF VoidRefused, ghostVars
    <2>14. CASE VoidLost(w)
      BY <1>2, <2>14 DEF VoidLost, ghostVars
    <2>15. QED
      BY <2>1, <2>2, <2>3, <2>4, <2>5, <2>6, <2>7, <2>8,
         <2>9, <2>10, <2>11, <2>12, <2>13, <2>14
  <1>5. CASE \E w \in Web, c \in Campaigns :
                \/ Consider(w, c) \/ ChargeFreebie(w, c) \/ Capture(w, c)
                \/ HoldNotFound(w, c) \/ CaptureRefused(w, c)
    <2>1. PICK w \in Web, c \in Campaigns :
             \/ Consider(w, c) \/ ChargeFreebie(w, c) \/ Capture(w, c)
             \/ HoldNotFound(w, c) \/ CaptureRefused(w, c)
      BY <1>5
    <2>2. settled
      <3>1. CASE Consider(w, c)
        BY <3>1 DEF Consider, ghostVars
      <3>2. CASE ChargeFreebie(w, c)
        BY <3>2 DEF ChargeFreebie, ghostVars
      <3>3. CASE Capture(w, c)
        BY <3>3 DEF Capture, ghostVars
      <3>4. CASE HoldNotFound(w, c)
        BY <3>4 DEF HoldNotFound, ghostVars
      <3>5. CASE CaptureRefused(w, c)
        BY <3>5 DEF CaptureRefused, ghostVars
      <3>6. QED
        BY <2>1, <3>1, <3>2, <3>3, <3>4, <3>5
    <2>3. proc[w].at = "next"
      <3>1. CASE Consider(w, c)
        BY <3>1 DEF Consider
      <3>2. CASE ChargeFreebie(w, c)
        BY <3>2 DEF ChargeFreebie, MustCharge
      <3>3. CASE Capture(w, c)
        BY <3>3 DEF Capture, MustCharge
      <3>4. CASE HoldNotFound(w, c)
        BY <3>4 DEF HoldNotFound, MustCharge
      <3>5. CASE CaptureRefused(w, c)
        BY <3>5 DEF CaptureRefused, MustCharge
      <3>6. QED
        BY <2>1, <3>1, <3>2, <3>3, <3>4, <3>5
    <2>4. QED
      BY <1>2, <2>2, <2>3
  <1>6. CASE \/ SettleCharges \/ UNCHANGED promoVars
             \/ EditPromotion /\ UNCHANGED <<status, settled>>
    <2>1. UNCHANGED <<day, status, camps, bids, freebies, proc, settled, odd>>
      BY <1>6 DEF SettleCharges, EditPromotion, promoVars, moneyVars, ghostVars
    <2>2. /\ Ready(day)' = Ready(day) /\ Ready(day + 1)' = Ready(day + 1)
          /\ \A c \in Campaigns : (Paid(c)' <=> Paid(c)) /\ (Served(c) => Served(c)')
          /\ Ready(day) \subseteq Campaigns /\ Ready(day + 1) \subseteq Campaigns
      BY <2>1, SameCampaigns
    <2>3. JobInv
      BY <2>1
    <2>4. Job' = Job
      BY <2>1 DEF Job
    <2>5. WebIdle' /\ JobKnows' /\ TodayServed' /\ TomorrowServed'
      BY <2>1, <2>2, <2>3, <2>4
      DEF JobInv, WebIdle, Idle, JobKnows, TodayServed, TomorrowServed
    <2>6. PaidMet' /\ StatusSettled'
      BY <2>1, <2>2, <2>3, <2>4 DEF JobInv, PaidMet, StatusSettled
    <2>7. QED
      BY <2>5, <2>6 DEF JobInv
  <1>7. CASE \/ NextPass \/ ExpireLinks \/ SetPending("job") \/ PromoteLink("job")
             \/ \E c \in Campaigns : \/ Consider("job", c) \/ ChargeFreebie("job", c)
                                     \/ Capture("job", c) \/ HoldNotFound("job", c)
                                     \/ CaptureRefused("job", c)
    <2>1. settled
      <3>1. CASE NextPass
        BY <3>1 DEF NextPass, ghostVars
      <3>2. CASE ExpireLinks
        BY <3>2 DEF ExpireLinks, ghostVars
      <3>3. CASE SetPending("job")
        BY <3>3 DEF SetPending, ghostVars
      <3>4. CASE PromoteLink("job")
        BY <3>4 DEF PromoteLink, ghostVars
      <3>5. ASSUME NEW c \in Campaigns, Consider("job", c)
             PROVE  settled
        BY <3>5 DEF Consider, ghostVars
      <3>6. ASSUME NEW c \in Campaigns, ChargeFreebie("job", c)
             PROVE  settled
        BY <3>6 DEF ChargeFreebie, ghostVars
      <3>7. ASSUME NEW c \in Campaigns, Capture("job", c)
             PROVE  settled
        BY <3>7 DEF Capture, ghostVars
      <3>8. ASSUME NEW c \in Campaigns, HoldNotFound("job", c)
             PROVE  settled
        BY <3>8 DEF HoldNotFound, ghostVars
      <3>9. ASSUME NEW c \in Campaigns, CaptureRefused("job", c)
             PROVE  settled
        BY <3>9 DEF CaptureRefused, ghostVars
      <3>10. QED
        BY <1>7, <3>1, <3>2, <3>3, <3>4, <3>5, <3>6, <3>7, <3>8, <3>9
    <2>2. QED
      BY <1>7, <2>1, JobPasses, JobEnds, JobPromotes, JobCharges
  <1>8. EditPromotion => Request \/ UNCHANGED <<status, settled>>
    BY DEF EditPromotion
  <1>9. QED
    BY <1>1, <1>3, <1>4, <1>5, <1>6, <1>7, <1>8 DEF PromoteNext, Procs

-----------------------------------------------------------------------------
(* The theorems                                                            *)

PromoteInv ==
    /\ PromoteTyped /\ CopiesReviewed /\ LiveIsApproved /\ CreatedFirst /\ ChargesRecorded
    /\ Undisturbed => MoneyInv
    /\ settled => JobInv

LEMMA PromoteInvariant == PromoteSpec => []PromoteInv
  <1>1. PromoteInit => PromoteInv
    <2> SUFFICES ASSUME PromoteInit PROVE PromoteInv
      OBVIOUS
    <2>1. PromoteTyped
      BY PromoteStarts
    <2>2. /\ \A p \in Procs : /\ proc[p] = AtRest /\ proc[p].at = "idle" /\ proc[p].todo = {}
                              /\ proc[p].camp = Nobody
                              /\ \A c \in Campaigns : proc[p].trans[c] = NoTransaction
          /\ Web \subseteq Procs /\ Nobody \notin Campaigns
      BY RestIsPlaced, PromoteAssumption DEF PromoteInit, AtRest, Procs
    <2>3. /\ \A c \in Campaigns : camps[c].trans = NoTransaction
          /\ \A h \in Holds : gateway[h].state = "none"
          /\ status = "unpaid" /\ settled = FALSE
      BY DEF PromoteInit, NoCampaign, NoHold
    <2>4. CopiesReviewed /\ LiveIsApproved /\ CreatedFirst /\ ChargesRecorded
      BY <2>2, <2>3 DEF CopiesReviewed, LiveIsApproved, CreatedFirst, ChargesRecorded, Spent
    <2>5. MoneyInv
      BY <2>2, <2>3, RestIsPlaced DEF MoneyInv, SpentIsCurrent, OneRequest, VoidsCurrent,
         PaysUnpaid, HoldUnspent, CapturesCurrent, Spent
    <2>6. QED
      BY <2>1, <2>3, <2>4, <2>5 DEF PromoteInv
  <1>2. PromoteInv /\ [PromoteNext]_promoVars => PromoteInv'
    <2> SUFFICES ASSUME PromoteInv, [PromoteNext]_promoVars PROVE PromoteInv'
      OBVIOUS
    <2>1. PromoteTyped'
      BY PromoteTypedStep DEF PromoteInv
    <2>2. CopiesReviewed' /\ LiveIsApproved' /\ CreatedFirst' /\ ChargesRecorded'
      BY CopiesReviewedStep, ApprovalStep, CreatedStep, ChargesRecordedStep DEF PromoteInv
    <2>3. Undisturbed' => MoneyInv'
      <3>1. Undisturbed' => Undisturbed
        BY OddGrows DEF Undisturbed
      <3>2. QED
        BY <2>1, <3>1, MoneyStep DEF PromoteInv
    <2>4. settled' => JobInv'
      BY JobStep DEF PromoteInv
    <2>5. QED
      BY <2>1, <2>2, <2>3, <2>4 DEF PromoteInv
  <1>3. QED
    BY <1>1, <1>2, PTL DEF PromoteSpec

\* Types, and what charge_transaction takes for granted: a transaction that a
\* campaign names has its Bid row and is a hold of that campaign, whichever
\* answers of the gateway were lost.
THEOREM PromoteTypeCorrect == PromoteSpec => []PromoteTypeOK
  <1>1. PromoteInv => PromoteTypeOK
    BY TypedIsTypeOK DEF PromoteInv
  <1>2. QED
    BY <1>1, PromoteInvariant, PTL

\* What is live, waiting to go live, accepted or finished is what an admin has
\* accepted, or was changed since in a way that no code looks at; an admin's
\* rejection and an edit that made the link edited_live stand until the next
\* acceptance, whatever order payments, campaigns, other edits and runs of the job
\* come in.  Not after a process has written the status from a copy older than
\* somebody else's decision.
THEOREM ReviewStands == PromoteSpec => []LiveIsApproved
  <1>1. PromoteInv => LiveIsApproved
    BY DEF PromoteInv
  <1>2. QED
    BY <1>1, PromoteInvariant, PTL

\* Every charge on the advertiser's card is the current transaction of its
\* campaign, and recorded as charged, as long as no answer of a capture was
\* lost, no two requests for one campaign overlapped and the gateway has not
\* refused a void.
THEOREM ChargesAreCurrent == PromoteSpec => []ChargedIsCurrent
  <1>1. PromoteInv => ChargedIsCurrent
    BY DEF PromoteInv, Undisturbed, MoneyInv, SpentIsCurrent, Spent, ChargedIsCurrent
  <1>2. QED
    BY <1>1, PromoteInvariant, PTL

\* After a run of make_daily_promotions that nothing has disturbed, and in which
\* the gateway has refused to capture no hold, the link is promoted exactly while a
\* campaign of it runs and is charged, and whatever runs today or tomorrow has been
\* charged.
THEOREM JobLeavesNothing == PromoteSpec => []JobSettles
  <1>1. PromoteInv => JobSettles
    <2> SUFFICES ASSUME PromoteInv, settled, Idle("job")
                 PROVE  JobSettles
      BY DEF JobSettles
    <2>1. JobInv /\ Job.op = "none"
      <3>1. PromoteTyped /\ JobInv /\ "job" \in Procs
        BY DEF PromoteInv, Procs
      <3>2. WellPlaced(proc["job"]) /\ proc["job"].at = "idle"
        BY <3>1, ProcFields DEF Idle
      <3>3. QED
        BY <3>1, <3>2 DEF WellPlaced, AtRest, Job
    <2>2. (status = "promoted") <=> (IsAccepted(status) /\ \E c \in Ready(day) : Paid(c))
      BY <2>1 DEF JobInv, StatusSettled
    <2>3. IsAccepted(status) => \A c \in Ready(day) \cup Ready(day + 1) : Served(c)
      BY <2>1 DEF JobInv, TodayServed, TomorrowServed
    <2>4. (status = "promoted") = (/\ IsAccepted(status)
                                   /\ \E c \in Campaigns : /\ camps[c].listed
                                                           /\ Payable(c, day)
                                                           /\ Charged(camps[c].trans, c))
      BY <2>2 DEF Ready, Paid
    <2>5. IsAccepted(status) =>
              \A c \in Campaigns :
                 camps[c].listed /\ (Payable(c, day) \/ Payable(c, day + 1)) =>
                    Charged(camps[c].trans, c) \/ "lost" \in odd
      BY <2>3 DEF Ready, Served, Paid
    <2>6. QED
      BY <2>4, <2>5 DEF JobSettles
  <1>2. QED
    BY <1>1, PromoteInvariant, PTL
=============================================================================
