--------------------------------- MODULE Gold ---------------------------------
(***************************************************************************)
(* r2/controllers/ipn.py and r2/models/gold.py: payments that are turned   *)
(* into gold, creddits and gift codes, creddits that are spent, codes that *)
(* are claimed.  Payment processors send a notification again until it is  *)
(* answered, and may send it more often; requests run concurrently and may *)
(* die at any point.                                                       *)
(*                                                                         *)
(* All purchases are of one month and concern one account; a purchase is   *)
(* identified with its trans_id and with its payment blob.                 *)
(***************************************************************************)
EXTENDS Integers

CONSTANTS
    Purchases,
    Offers,        \* what may be bought: see offer
    GoldRequests,  \* requests in progress at one time
    Nobody,
    MaxExtra,      \* bound: notifications beyond the needed ones, other requests
    MaxGoldFaults  \* bound: requests that die, payment blobs that are lost

Providers == {"paypal", "stripe", "coinbase", "creddits", "gild"}
GoldTypes == {"onetime", "gift", "creddits", "code", "autorenew"}

ASSUME GoldAssumption ==
    /\ Offers \subseteq [Purchases -> [provider : Providers, goldtype : GoldTypes]]
    /\ \A o \in Offers, t \in Purchases :
         /\ o[t].provider = "creddits" => o[t].goldtype \in {"onetime", "gift", "code"}
         /\ o[t].provider = "gild" => o[t].goldtype \in {"onetime", "gift"}
    /\ Nobody \notin GoldRequests \cup Purchases
    /\ MaxExtra \in Nat /\ MaxGoldFaults \in Nat

VARIABLES
    offer,       \* offer[t]: who is paid for t, and the goldtype of t
    goldRow,     \* goldRow[t]: status in reddit_gold, or "none"
    blob,        \* blob[t]: status of the payment blob in the hard cache, "gone"
                 \*          when it is not there or does not pass validate_blob
    sent,        \* codes that were messaged to the buyer
    delivered,   \* delivered[t]: months given for t
    takenBack,   \* takenBack[t]: months taken back for t
    creddits,    \* account.gold_creddits
    granted,     \* creddits bought or given, less those taken back
    spent,       \* creddits that months were given for
    req,         \* req[h]: where request h is, the purchase it is about, and
                 \*         gold_creddits or the blob's status as it has read them
    commitLock,  \* holder of the account's read-modify-write lock
    credditsLock,  \* holder of creddits_lock(account)
    paid,        \* purchases the processor has sent a notification of
    answered,    \* purchases whose processor has its answer
    disturbed,   \* purchases touched by one of the known races (see GoldOnce)
    stale,       \* a request has acted on a gold_creddits that was out of date
    extra, goldFaults  \* against the bounds

goods == <<sent, delivered, takenBack>>
wallet == <<creddits, granted, spent, stale>>
goldLocks == <<commitLock, credditsLock>>
goldVars == <<offer, goldRow, blob, goods, wallet, req, goldLocks, paid, answered,
              disturbed, extra, goldFaults>>

Provider(t) == offer[t].provider
GoldType(t) == offer[t].goldtype

Statuses == {"none", "processed", "instagift", "claimed", "unclaimed", "reversed"}
BlobStatuses == {"initialized", "locked", "processed", "gone"}
GoldPlaces == {"idle", "code", "send", "lock", "record", "reverse", "mark", "finish",
               "row", "renew", "blob", "spend", "pay", "give", "claimed", "modify"}

Idle == [at |-> "idle", deal |-> Nobody, creddits |-> 0, status |-> "initialized"]

GoldTypeOK ==
    /\ offer \in Offers
    /\ goldRow \in [Purchases -> Statuses]
    /\ blob \in [Purchases -> BlobStatuses]
    /\ sent \subseteq Purchases /\ answered \subseteq Purchases
    /\ paid \subseteq Purchases /\ disturbed \subseteq Purchases
    /\ delivered \in [Purchases -> Nat] /\ takenBack \in [Purchases -> Nat]
    /\ creddits \in Int /\ granted \in Int /\ spent \in Nat
    /\ req \in [GoldRequests -> [at : GoldPlaces, deal : Purchases \cup {Nobody},
                                creddits : Int, status : BlobStatuses]]
    /\ commitLock \in GoldRequests \cup {Nobody}
    /\ credditsLock \in GoldRequests \cup {Nobody}
    /\ stale \in BOOLEAN
    /\ extra \in 0..MaxExtra /\ goldFaults \in 0..MaxGoldFaults

GoldInit ==
    /\ offer \in Offers
    /\ goldRow = [t \in Purchases |-> "none"]
    /\ blob = [t \in Purchases |-> "initialized"]
    /\ sent = {}
    /\ delivered = [t \in Purchases |-> 0]
    /\ takenBack = [t \in Purchases |-> 0]
    /\ creddits = 1 /\ granted = 1 /\ spent = 0 /\ stale = FALSE
    /\ req = [h \in GoldRequests |-> Idle]
    /\ commitLock = Nobody /\ credditsLock = Nobody
    /\ paid = {} /\ answered = {} /\ disturbed = {}
    /\ extra = 0 /\ goldFaults = 0

At(h) == req[h].at
Deal(h) == req[h].deal
Copy(h) == req[h].creddits

GoldGoto(h, place) == req' = [req EXCEPT ![h].at = place]
Return(h) == req' = [req EXCEPT ![h] = Idle]

Extra == extra < MaxExtra /\ extra' = extra + 1

\* A request arrives; c.user and the blob are as it finds them.
Take(h, t, place) ==
    /\ At(h) = "idle"
    /\ req' = IF place = "idle" THEN req
              ELSE [req EXCEPT ![h] = [at |-> place, deal |-> t, creddits |-> creddits,
                                       status |-> IF t = Nobody THEN "initialized"
                                                  ELSE blob[t]]]

\* Another request is at one of these places with the same purchase.
Racing(t, places) == \E h \in GoldRequests : Deal(h) = t /\ At(h) \in places

\* adjust_gold_expiration or send_gift; creddits are added by _incr, which
\* reads the current number under the account's lock.
GiveGoods(t) ==
    /\ delivered' = [delivered EXCEPT ![t] = @ + 1]
    /\ IF GoldType(t) = "creddits"
       THEN creddits' = creddits + 1 /\ granted' = granted + 1
       ELSE UNCHANGED <<creddits, granted>>
    /\ UNCHANGED <<sent, takenBack, spent, stale>>

-----------------------------------------------------------------------------
(* process_webhook: Stripe and Coinbase                                    *)

\* load_blob raises a GoldException.  The blob is only looked up when there is
\* no row; a subscription's webhook has no passthrough.
NoBlob(t) == goldRow[t] = "none" /\ GoldType(t) # "autorenew" /\ blob[t] = "gone"

\* Nothing is done, and the processor is told so: the payment is recorded, or
\* its blob is gone and errors do not abort (Coinbase).
Skipped(t) ==
    \/ goldRow[t] \in {"processed", "unclaimed", "claimed"}
    \/ NoBlob(t) /\ Provider(t) = "coinbase"

\* What is done with a payment, from the row that process_webhook has read.
\* A subscription's webhook brings its goldtype and buyer along; without them a
\* reversed purchase ends in an AttributeError.
NextOfSuccess(t) ==
    IF Skipped(t) \/ NoBlob(t) THEN "idle"
    ELSE IF goldRow[t] = "none" /\ GoldType(t) = "code" THEN "code"
    ELSE IF goldRow[t] = "none" \/ GoldType(t) = "autorenew" THEN "lock"
    ELSE "idle"


Succeeded(h, t) ==
    /\ Provider(t) \in {"stripe", "coinbase"}
    /\ paid' = paid \cup {t}
    /\ IF t \in answered THEN Extra ELSE UNCHANGED extra
    /\ Take(h, t, NextOfSuccess(t))
    /\ answered' = IF Skipped(t) THEN answered \cup {t} ELSE answered
    /\ disturbed' = IF Racing(t, {"lock", "record"}) \/ goldRow[t] = "reversed"
                    THEN disturbed \cup {t} ELSE disturbed
    /\ UNCHANGED <<goldRow, blob, goods, wallet, goldLocks, goldFaults>>

\* send_gold_code: create_gold_code inserts the row, or fails if there is one.
MakeCode(h) ==
    /\ At(h) = "code"
    /\ \/ /\ goldRow[Deal(h)] = "none"
          /\ goldRow' = [goldRow EXCEPT ![Deal(h)] = "unclaimed"]
          /\ GoldGoto(h, "send")
       \/ /\ goldRow[Deal(h)] # "none"
          /\ Return(h)
          /\ UNCHANGED goldRow
    /\ UNCHANGED <<blob, goods, wallet, goldLocks, answered, disturbed, extra, goldFaults, paid>>

SendCode(h) ==
    /\ At(h) = "send"
    /\ sent' = sent \cup {Deal(h)}
    /\ answered' = answered \cup {Deal(h)}
    /\ IF Provider(Deal(h)) = "paypal" THEN GoldGoto(h, "blob") ELSE Return(h)
    /\ UNCHANGED <<goldRow, blob, delivered, takenBack, wallet, goldLocks,
                   disturbed, extra, goldFaults, paid>>

\* complete_gold_purchase, under the recipient's lock: first the goods ...
CompleteGive(h) ==
    /\ At(h) = "lock"
    /\ commitLock = Nobody
    /\ commitLock' = h
    /\ GiveGoods(Deal(h))
    /\ GoldGoto(h, "record")
    /\ UNCHANGED <<goldRow, blob, credditsLock, answered, disturbed, extra, goldFaults, paid>>

\* ... then the row; "got duplicate gold transaction" is logged.
CompleteRecord(h) ==
    /\ At(h) = "record"
    /\ goldRow' = [goldRow EXCEPT ![Deal(h)] = IF @ = "none" THEN "processed" ELSE @]
    /\ commitLock' = Nobody
    /\ answered' = answered \cup {Deal(h)}
    /\ Return(h)
    /\ UNCHANGED <<blob, goods, wallet, credditsLock, disturbed, extra, goldFaults, paid>>

\* Only "refunded" looks at the status; an unclaimed code has no account_id.
Refunded(h, t) ==
    /\ Provider(t) = "stripe"
    /\ goldRow[t] = "processed"
    /\ Extra
    /\ Take(h, t, "reverse")
    /\ disturbed' = IF Racing(t, {"reverse", "mark"}) THEN disturbed \cup {t} ELSE disturbed
    /\ UNCHANGED <<goldRow, blob, goods, wallet, goldLocks, answered, goldFaults, paid>>

Cancelled(h, t) ==
    /\ Provider(t) = "coinbase"
    /\ goldRow[t] \notin {"none", "unclaimed"}
    /\ Extra
    /\ Take(h, t, "reverse")
    /\ disturbed' = IF Racing(t, {"reverse", "mark"}) \/ goldRow[t] = "reversed"
                    THEN disturbed \cup {t} ELSE disturbed
    /\ UNCHANGED <<goldRow, blob, goods, wallet, goldLocks, answered, goldFaults, paid>>

\* Mutant of ReversePurchase: creddits stay.
ReversePurchaseNoCreddits(h) ==
    /\ At(h) = "reverse"
    /\ commitLock = Nobody
    /\ takenBack' = [takenBack EXCEPT ![Deal(h)] = @ + 1]
    /\ granted' = IF GoldType(Deal(h)) = "creddits" THEN granted - 1 ELSE granted
    /\ GoldGoto(h, "mark")
    /\ UNCHANGED <<goldRow, blob, sent, delivered, creddits, spent, stale, goldLocks, answered,
                   disturbed, extra, goldFaults, paid>>

\* reverse_gold_purchase: what a code has given is not taken back.
ReversePurchase(h) ==
    /\ At(h) = "reverse"
    /\ commitLock = Nobody
    /\ IF GoldType(Deal(h)) = "code" THEN UNCHANGED takenBack
       ELSE takenBack' = [takenBack EXCEPT ![Deal(h)] = @ + 1]
    /\ IF GoldType(Deal(h)) = "creddits"
       THEN creddits' = creddits - 1 /\ granted' = granted - 1
       ELSE UNCHANGED <<creddits, granted>>
    /\ GoldGoto(h, "mark")
    /\ UNCHANGED <<goldRow, blob, sent, delivered, spent, stale, goldLocks, answered,
                   disturbed, extra, goldFaults, paid>>

MarkReversed(h) ==
    /\ At(h) = "mark"
    /\ goldRow' = [goldRow EXCEPT ![Deal(h)] = "reversed"]
    /\ Return(h)
    /\ UNCHANGED <<blob, goods, wallet, goldLocks, answered, disturbed, extra, goldFaults, paid>>

-----------------------------------------------------------------------------
(* IpnController: PayPal                                                   *)

\* Mutant of GetBlob: the blob is not marked.
GetBlobUnmarked(t) ==
    /\ blob[t] = "initialized"
    /\ UNCHANGED blob

\* get_blob: only who finds the blob "initialized" goes on.
GetBlob(t) ==
    /\ blob[t] = "initialized"
    /\ blob' = [blob EXCEPT ![t] = "locked"]

\* A renewal is recorded first and given afterwards; anything else is finished
\* by whoever gets the blob, and refunds are not acted upon.
Ipn(h, t) ==
    /\ Provider(t) = "paypal"
    /\ paid' = paid \cup {t}
    /\ IF t \in answered THEN Extra ELSE UNCHANGED extra
    /\ \/ /\ GoldType(t) = "autorenew"
          /\ IF goldRow[t] = "none"
             THEN /\ goldRow' = [goldRow EXCEPT ![t] = "claimed"]
                  /\ Take(h, t, "renew")
                  /\ UNCHANGED answered
             ELSE Take(h, t, "idle") /\ answered' = answered \cup {t} /\ UNCHANGED goldRow
          /\ UNCHANGED blob
       \/ /\ GoldType(t) # "autorenew"
          /\ GetBlob(t)
          /\ Take(h, t, IF GoldType(t) = "code" THEN "code" ELSE "finish")
          /\ UNCHANGED <<goldRow, answered>>
       \/ /\ GoldType(t) # "autorenew"
          /\ blob[t] # "initialized"  \* "whoops, %s was locked", or NotFound is raised
          /\ Take(h, t, "idle")
          /\ answered' = IF blob[t] = "gone" THEN answered ELSE answered \cup {t}
          /\ UNCHANGED <<goldRow, blob>>
    /\ UNCHANGED <<goods, wallet, goldLocks, disturbed, goldFaults>>

Renew(h) ==
    /\ At(h) = "renew"
    /\ GiveGoods(Deal(h))
    /\ answered' = answered \cup {Deal(h)}
    /\ Return(h)
    /\ UNCHANGED <<goldRow, blob, goldLocks, disturbed, extra, goldFaults, paid>>

FinishGive(h) ==
    /\ At(h) = "finish"
    /\ GiveGoods(Deal(h))
    /\ GoldGoto(h, "row")
    /\ UNCHANGED <<goldRow, blob, goldLocks, answered, disturbed, extra, goldFaults, paid>>

\* create_claimed_gold: an IntegrityError is not handled here.
FinishRow(h) ==
    /\ At(h) = "row"
    /\ \/ /\ goldRow[Deal(h)] = "none"
          /\ goldRow' = [goldRow EXCEPT ![Deal(h)] =
                           IF GoldType(Deal(h)) = "gift" THEN "instagift" ELSE "processed"]
          /\ GoldGoto(h, "blob")
       \/ /\ goldRow[Deal(h)] # "none"
          /\ Return(h)
          /\ UNCHANGED goldRow
    /\ UNCHANGED <<blob, goods, wallet, goldLocks, answered, disturbed, extra, goldFaults, paid>>

SetBlobProcessed(h) ==
    /\ At(h) = "blob"
    /\ blob' = [blob EXCEPT ![Deal(h)] = "processed"]
    /\ answered' = answered \cup {Deal(h)}
    /\ Return(h)
    /\ UNCHANGED <<goldRow, goods, wallet, goldLocks, disturbed, extra, goldFaults, paid>>

\* update_blob: a read and a write without get_blob's lock.
ModifyBlob(h, t) ==
    /\ Provider(t) \in {"paypal", "creddits"} /\ blob[t] # "gone"
    /\ Extra
    /\ Take(h, t, "modify")
    /\ UNCHANGED <<goldRow, blob, goods, wallet, goldLocks, answered, disturbed, goldFaults, paid>>

WriteBlob(h) ==
    /\ At(h) = "modify"
    /\ blob' = [blob EXCEPT ![Deal(h)] = req[h].status]
    /\ disturbed' = IF blob[Deal(h)] # req[h].status THEN disturbed \cup {Deal(h)} ELSE disturbed
    /\ Return(h)
    /\ UNCHANGED <<goldRow, goods, wallet, goldLocks, answered, extra, goldFaults, paid>>

-----------------------------------------------------------------------------
(* Creddits                                                                *)

\* POST_spendcreddits needs the blob; gilding through the API and the renewal
\* in update_gold_users do not.  All use an account read before the lock.
Spend(h, t) ==
    /\ Provider(t) \in {"creddits", "gild"}
    /\ Extra
    /\ IF Provider(t) = "creddits" THEN GetBlob(t) ELSE UNCHANGED blob
    /\ Take(h, t, "spend")
    /\ UNCHANGED <<goldRow, goods, wallet, goldLocks, answered, disturbed, goldFaults, paid>>

\* The check, and the gift, which brings c.user up to date: a month is committed
\* to it, or its num_gildings incremented.  A code is only made.
SpendGive(h) ==
    /\ At(h) = "spend"
    /\ credditsLock = Nobody
    /\ \/ /\ Copy(h) < 1
          /\ Return(h)
          /\ UNCHANGED <<goldRow, sent, delivered, spent, stale, credditsLock>>
       \/ /\ Copy(h) >= 1
          /\ credditsLock' = h
          /\ spent' = spent + 1
          /\ stale' = (stale \/ Copy(h) # creddits)
          /\ \/ /\ GoldType(Deal(h)) = "code"
                /\ goldRow' = [goldRow EXCEPT ![Deal(h)] = "unclaimed"]
                /\ sent' = sent \cup {Deal(h)}
                /\ GoldGoto(h, "pay")
                /\ UNCHANGED delivered
             \/ /\ GoldType(Deal(h)) # "code"
                /\ delivered' = [delivered EXCEPT ![Deal(h)] = @ + 1]
                /\ req' = [req EXCEPT ![h].at = "pay", ![h].creddits = creddits]
                /\ UNCHANGED <<goldRow, sent>>
    /\ UNCHANGED <<blob, takenBack, creddits, granted, commitLock,
                   answered, disturbed, extra, goldFaults, paid>>

\* gold_creddits -= months; the commit writes this value whatever is stored.
WriteCreddits(h, n) ==
    /\ creddits' = n
    /\ stale' = (stale \/ Copy(h) # creddits)

Pay(h) ==
    /\ At(h) = "pay"
    /\ WriteCreddits(h, Copy(h) - 1)
    /\ credditsLock' = Nobody
    /\ IF Provider(Deal(h)) = "creddits" THEN GoldGoto(h, "blob") ELSE Return(h)
    /\ UNCHANGED <<goldRow, blob, goods, granted, spent, commitLock, answered,
                   disturbed, extra, goldFaults, paid>>

\* POST_givecreddits
GiveCreddits(h) ==
    /\ Extra
    /\ Take(h, Nobody, "give")
    /\ UNCHANGED <<goldRow, blob, goods, wallet, goldLocks, answered, disturbed, goldFaults, paid>>

SaveCreddits(h) ==
    /\ At(h) = "give"
    /\ credditsLock = Nobody
    /\ WriteCreddits(h, IF Copy(h) + 1 > 0 THEN Copy(h) + 1 ELSE 0)
    /\ granted' = granted + creddits' - Copy(h)
    /\ Return(h)
    /\ UNCHANGED <<goldRow, blob, goods, spent, goldLocks, answered, disturbed,
                   extra, goldFaults, paid>>

-----------------------------------------------------------------------------
(* Codes                                                                   *)

\* claim_gold: one UPDATE ... WHERE status = 'unclaimed'.
ClaimGold(h, t) ==
    /\ t \in sent
    /\ Extra
    /\ \/ /\ goldRow[t] = "unclaimed"
          /\ goldRow' = [goldRow EXCEPT ![t] = "claimed"]
          /\ Take(h, t, "claimed")
       \/ /\ goldRow[t] # "unclaimed"
          /\ Take(h, t, "idle")
          /\ UNCHANGED goldRow
    /\ UNCHANGED <<blob, goods, wallet, goldLocks, answered, disturbed, goldFaults, paid>>

ClaimGive(h) ==
    /\ At(h) = "claimed"
    /\ GiveGoods(Deal(h))
    /\ Return(h)
    /\ UNCHANGED <<goldRow, blob, goldLocks, answered, disturbed, extra, goldFaults, paid>>

-----------------------------------------------------------------------------
(* A request dies; its locks expire.                                       *)
GoldCrash(h) ==
    /\ At(h) # "idle"
    /\ goldFaults < MaxGoldFaults
    /\ goldFaults' = goldFaults + 1
    /\ commitLock' = IF commitLock = h THEN Nobody ELSE commitLock
    /\ credditsLock' = IF credditsLock = h THEN Nobody ELSE credditsLock
    /\ disturbed' = IF At(h) \in {"record", "mark"} THEN disturbed \cup {Deal(h)}
                    ELSE disturbed
    /\ stale' = (stale \/ At(h) = "pay")
    /\ Return(h)
    /\ UNCHANGED <<goldRow, blob, goods, creddits, granted, spent, answered, extra, paid>>

\* The blob reaches its TTL in the hard cache, or what it names is deleted.
LoseBlob(t) ==
    /\ blob[t] # "gone"
    /\ goldFaults < MaxGoldFaults
    /\ goldFaults' = goldFaults + 1
    /\ blob' = [blob EXCEPT ![t] = "gone"]
    /\ UNCHANGED <<goldRow, goods, wallet, req, goldLocks, answered, disturbed, extra, paid>>

RequestStep(h) ==
    \/ MakeCode(h) \/ SendCode(h) \/ CompleteGive(h) \/ CompleteRecord(h)
    \/ ReversePurchase(h) \/ MarkReversed(h)
    \/ Renew(h) \/ FinishGive(h) \/ FinishRow(h) \/ SetBlobProcessed(h) \/ WriteBlob(h)
    \/ SpendGive(h) \/ Pay(h) \/ SaveCreddits(h) \/ ClaimGive(h)

GoldNext ==
    /\ \/ \E h \in GoldRequests :
            \/ \E t \in Purchases :
                 \/ Succeeded(h, t) \/ Refunded(h, t) \/ Cancelled(h, t)
                 \/ Ipn(h, t) \/ ModifyBlob(h, t)
                 \/ Spend(h, t) \/ ClaimGold(h, t)
            \/ GiveCreddits(h)
            \/ RequestStep(h)
            \/ GoldCrash(h)
       \/ \E t \in Purchases : LoseBlob(t)
    /\ UNCHANGED offer

\* The server works on its requests; a processor repeats what is unanswered.
GoldFairness ==
    /\ \A h \in GoldRequests : WF_goldVars(RequestStep(h) /\ UNCHANGED offer)
    /\ \A t \in Purchases :
         WF_goldVars(/\ t \in paid \ answered
                     /\ \E h \in GoldRequests : Succeeded(h, t) \/ Ipn(h, t)
                     /\ UNCHANGED offer)

GoldSpec == GoldInit /\ [][GoldNext]_goldVars

-----------------------------------------------------------------------------
(* Properties                                                              *)

(***************************************************************************)
(* A paid month is delivered at most once, and taken back at most once,    *)
(* however often notifications of it are repeated, reordered or run beside *)
(* each other, and wherever a request dies.  The code keeps this only for  *)
(* purchases that no known race has touched: webhooks that read the table  *)
(* before another one's row is there (ipn.py:722), a request that dies     *)
(* between goods and row (ipn.py:862), a payment or cancellation repeated  *)
(* after the reversal (ipn.py:745), update_blob writing back a status that *)
(* get_blob has changed meanwhile (ipn.py:121).  Purchases that go through *)
(* get_blob and claim_gold are not touched by the first three.             *)
(***************************************************************************)
GoldOnce ==
    \A t \in Purchases :
        (t \notin disturbed /\ Provider(t) # "gild") =>
            delivered[t] - takenBack[t] \in {0, 1}

(***************************************************************************)
(* gold_creddits is what was bought and given less what months were given  *)
(* for, when no one is between a gift and its payment; unless a request    *)
(* has acted on an account read before it had the lock.                    *)
(***************************************************************************)
CredditsExact ==
    (~stale /\ \A h \in GoldRequests : At(h) # "pay") => creddits = granted - spent

(***************************************************************************)
(* The books of IPN and gilding balance: goods against payments, creddits  *)
(* against what they were bought and spent for.                            *)
(***************************************************************************)
BooksBalance == GoldOnce /\ CredditsExact


=============================================================================
