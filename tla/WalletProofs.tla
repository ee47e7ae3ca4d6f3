----------------------------- MODULE WalletProofs -----------------------------
(***************************************************************************)
(* Proofs about Wallet, for any users, devices, orders and amounts.        *)
(***************************************************************************)
EXTENDS Wallet, TLAPS

-----------------------------------------------------------------------------
(* The inductive invariant.                                                *)

\* A client that waits knows for what; the intents are of different numbers,
\* whose outcome is open.
IntentsOpen ==
  /\ \A c \in Client : trying[c] # 0 => intent[c] # None
  /\ \A c \in Client : intent[c] # None =>
       intent[c].client = c /\ told[intent[c].number] = "unknown"

OneIntentPerNumber ==
  \A c, d \in Client :
    intent[c] # None /\ intent[d] # None /\ intent[c].number = intent[d].number => c = d

\* A number whose outcome is open is in the settings of a client.
OpenRemembered ==
  \A n \in Number : told[n] = "unknown" =>
    \E c \in Client : intent[c] # None /\ intent[c].number = n

\* A request a client waits for asks for what it has in its settings.
RequestsFit ==
  /\ \A c \in Client : trying[c] <= tries[c]
  /\ \A m \in requests :
       /\ m.try <= tries[m.intent.client]
       /\ told[m.intent.number] # "unused"
       /\ trying[m.intent.client] = m.try => m.intent = intent[m.intent.client]

\* Only numbers that were asked for are on record, and whoever is told, or
\* is about to be, that they are is told so rightly.
RecordsTrue ==
  /\ \A r \in recharges : told[r.number] # "unused"
  /\ \A c \in Client : answer[c] = "credited" => trying[c] # 0 /\ Recorded(intent[c].number) # {}
  /\ \A n \in Number : told[n] = "credited" => Recorded(n) # {}

\* An order that has stopped has its amount.
OrdersPriced == \A o \in Order : order[o].status # "CHARGING" => order[o].amount \in OrderCents

IInv ==
  TypeOK /\ IntentsOpen /\ OneIntentPerNumber /\ OpenRemembered /\ RequestsFit /\ RecordsTrue /\ OrdersPriced

\* A client whose intent is none knows nothing of any number.
LEMMA NoneIsNoIntent == None \notin Intent
  BY WalletAssumption DEF Intent

\* The bounds are numbers.
LEMMA ConstantTypes == MaxBalance \in Nat /\ MaxDay \in Nat /\ MaxTry \in Nat
  BY WalletAssumption

\* What a request is made of.
LEMMA RequestTypes ==
  ASSUME TypeOK, NEW m \in requests
  PROVE  /\ m.intent \in Intent /\ m.intent.client \in Client /\ m.intent.number \in Number
         /\ m.intent.amount \in RechargeCents
         /\ m.try \in Nat /\ m.try # 0
<1>1. m \in [intent : Intent, try : 1..MaxTry]
  BY DEF TypeOK, Request
<1>2. m.intent \in Intent /\ m.try \in 1..MaxTry
  BY <1>1
<1> QED
  BY <1>2, ConstantTypes DEF Intent

\* What a client knows.
LEMMA ClientTypes ==
  ASSUME TypeOK, NEW c \in Client
  PROVE  /\ trying[c] \in 0..MaxTry /\ tries[c] \in 0..MaxTry
         /\ trying[c] \in Nat /\ tries[c] \in Nat
         /\ intent[c] # None =>
              intent[c] \in Intent /\ intent[c].number \in Number /\ intent[c].amount \in RechargeCents
<1>1. trying[c] \in 0..MaxTry /\ tries[c] \in 0..MaxTry
  BY DEF TypeOK
<1>2. intent[c] \in Intent \cup {None}
  BY DEF TypeOK
<1> QED
  BY <1>1, <1>2, ConstantTypes DEF Intent

LEMMA InitInv == Init => IInv
<1> SUFFICES ASSUME Init PROVE IInv
  OBVIOUS
<1>1. TypeOK
  <2>1. /\ 0 \in 0..MaxBalance /\ 0 \in 0..MaxDay /\ 0 \in 0..MaxTry
        /\ [status |-> "CHARGING", amount |-> 0] \in Bill
    BY ConstantTypes DEF Bill
  <2>2. /\ balance \in [User -> 0..MaxBalance]
        /\ ledger \in [User -> Nat] /\ vouchers \in [User -> Nat]
        /\ order \in [Order -> Bill]
    BY <2>1 DEF Init
  <2>3. /\ intent \in [Client -> Intent \cup {None}]
        /\ trying \in [Client -> 0..MaxTry] /\ tries \in [Client -> 0..MaxTry]
        /\ answer \in [Client -> {"", "credited", "refused", "unknown"}]
        /\ told \in [Number -> {"unused", "unknown", "credited", "refused"}]
    BY <2>1 DEF Init
  <2> QED
    BY <2>1, <2>2, <2>3 DEF Init, TypeOK
<1>2. IntentsOpen /\ OneIntentPerNumber /\ OpenRemembered
  BY DEF Init, IntentsOpen, OneIntentPerNumber, OpenRemembered
<1>4. RequestsFit
  <2>1. \A c \in Client : trying[c] = 0 /\ tries[c] = 0
    BY DEF Init
  <2>2. requests = {}
    BY DEF Init
  <2> QED
    BY <2>1, <2>2 DEF RequestsFit
<1>3. RecordsTrue /\ OrdersPriced
  BY DEF Init, RecordsTrue, OrdersPriced, Recorded
<1> QED
  BY <1>1, <1>2, <1>3, <1>4 DEF IInv

\* Sending a request under an intent that is new or the client's own.
LEMMA SendInv ==
  ASSUME IInv, NEW c \in Client, NEW n \in Number, NEW a \in RechargeCents,
         NEW i, i = [number |-> n, client |-> c, amount |-> a],
         Send(c, i),
         \/ intent[c] = None /\ told[n] = "unused" /\ told' = [told EXCEPT ![n] = "unknown"]
         \/ intent[c] = i /\ told' = told
  PROVE  IInv'
<1>0. i \in Intent /\ i # None /\ i.number = n /\ i.client = c
  BY NoneIsNoIntent DEF Intent
<1>t. tries[c] + 1 \in 1..MaxTry /\ tries[c] \in 0..MaxTry
  <2>1. tries \in [Client -> 0..MaxTry] /\ tries[c] < MaxTry
    BY DEF Send, IInv, TypeOK
  <2>2. tries[c] \in 0..MaxTry
    BY <2>1
  <2> QED
    BY <2>1, <2>2, ConstantTypes
<1>1. TypeOK'
  <2>1. [intent |-> i, try |-> tries[c] + 1] \in Request
    BY <1>0, <1>t DEF Request
  <2>2. requests' \subseteq Request
    BY <2>1 DEF Send, IInv, TypeOK
  <2>3. tries' \in [Client -> 0..MaxTry] /\ trying' \in [Client -> 0..MaxTry]
    <3>1. tries[c] + 1 \in 0..MaxTry
      BY <1>t, ConstantTypes
    <3> QED
      BY <3>1 DEF Send, IInv, TypeOK
  <2>4. intent' \in [Client -> Intent \cup {None}]
    BY <1>0 DEF Send, IInv, TypeOK
  <2>5. told' \in [Number -> {"unused", "unknown", "credited", "refused"}]
    BY DEF IInv, TypeOK
  <2> QED
    BY <2>2, <2>3, <2>4, <2>5 DEF Send, IInv, TypeOK, serverVars
<1>n. told'[n] = "unknown" /\ \A x \in Number \ {n} : told'[x] = told[x]
  BY <1>0 DEF IInv, TypeOK, IntentsOpen
<1>i. intent'[c] = i /\ \A d \in Client \ {c} : intent'[d] = intent[d]
  BY DEF Send, IInv, TypeOK
<1>2. IntentsOpen'
  <2>1. ASSUME NEW d \in Client, trying'[d] # 0 PROVE intent'[d] # None
    BY <2>1, <1>0, <1>i DEF Send, IInv, TypeOK, IntentsOpen
  <2>2. ASSUME NEW d \in Client, intent'[d] # None
        PROVE  intent'[d].client = d /\ told'[intent'[d].number] = "unknown"
    <3>1. CASE d = c
      BY <3>1, <1>0, <1>i, <1>n
    <3>2. CASE d # c
      <4>1. intent[d] \in Intent /\ intent'[d] = intent[d]
        BY <2>2, <3>2, <1>i DEF IInv, TypeOK
      <4>2. intent[d].number \in Number
        BY <4>1 DEF Intent
      <4> QED
        BY <2>2, <3>2, <4>1, <4>2, <1>n DEF IInv, IntentsOpen
    <3> QED
      BY <3>1, <3>2
  <2> QED
    BY <2>1, <2>2 DEF IntentsOpen
<1>3. OpenRemembered'
  <2> SUFFICES ASSUME NEW x \in Number, told'[x] = "unknown"
               PROVE  \E d \in Client : intent'[d] # None /\ intent'[d].number = x
    BY DEF OpenRemembered
  <2>1. CASE x = n
    BY <2>1, <1>0, <1>i
  <2>2. CASE x # n
    <3>1. PICK d \in Client : intent[d] # None /\ intent[d].number = x
      BY <2>2, <1>n DEF IInv, OpenRemembered
    <3>2. d # c
      BY <3>1, <2>2, <1>0
    <3> QED
      BY <3>1, <3>2, <1>i
  <2> QED
    BY <2>1, <2>2
<1>4. RequestsFit'
  <2>1. \A d \in Client : trying'[d] <= tries'[d]
    <3>1. trying'[c] = tries[c] + 1 /\ tries'[c] = tries[c] + 1
      BY DEF Send, IInv, TypeOK
    <3>2. \A d \in Client \ {c} : trying'[d] = trying[d] /\ tries'[d] = tries[d]
      BY DEF Send, IInv, TypeOK
    <3> QED
      BY <3>1, <3>2, <1>t DEF IInv, RequestsFit
  <2>2. ASSUME NEW m \in requests'
        PROVE  /\ m.try <= tries'[m.intent.client]
               /\ told'[m.intent.number] # "unused"
               /\ trying'[m.intent.client] = m.try => m.intent = intent'[m.intent.client]
    <3>1. CASE m = [intent |-> i, try |-> tries[c] + 1]
      <4>1. m.try = tries[c] + 1 /\ m.intent = i
        BY <3>1
      <4>2. tries'[c] = tries[c] + 1
        BY DEF Send, IInv, TypeOK
      <4> QED
        BY <4>1, <4>2, <1>0, <1>i, <1>n, <1>t
    <3>2. CASE m \in requests
      <4>1. /\ m.intent.client \in Client /\ m.intent.number \in Number
            /\ m.try \in 1..MaxTry /\ tries[m.intent.client] \in 0..MaxTry
        BY <3>2 DEF IInv, TypeOK, Request, Intent
      <4>2. CASE m.intent.client = c
        <5>1. m.try <= tries[c] /\ tries'[c] = tries[c] + 1 /\ trying'[c] = tries[c] + 1
          BY <3>2, <4>2 DEF Send, IInv, TypeOK, RequestsFit
        <5>2. told'[m.intent.number] # "unused"
          BY <3>2, <4>1, <1>n DEF IInv, RequestsFit
        <5> QED
          BY <4>1, <4>2, <5>1, <5>2, <1>t
      <4>3. CASE m.intent.client # c
        <5>1. /\ tries'[m.intent.client] = tries[m.intent.client]
              /\ trying'[m.intent.client] = trying[m.intent.client]
          BY <4>1, <4>3 DEF Send, IInv, TypeOK
        <5> QED
          BY <3>2, <4>1, <4>3, <5>1, <1>i, <1>n DEF IInv, RequestsFit
      <4> QED
        BY <4>2, <4>3
    <3> QED
      BY <3>1, <3>2 DEF Send
  <2> QED
    BY <2>1, <2>2 DEF RequestsFit
<1>5. RecordsTrue'
  <2>1. recharges' = recharges /\ answer' = answer
    BY DEF Send, serverVars
  <2>2. \A x : Recorded(x)' = Recorded(x)
    BY <2>1 DEF Recorded
  <2>3. ASSUME NEW r \in recharges' PROVE told'[r.number] # "unused"
    BY <2>1, <2>3, <1>n DEF IInv, TypeOK, Record, RecordsTrue
  <2>4. ASSUME NEW d \in Client, answer'[d] = "credited"
        PROVE  trying'[d] # 0 /\ (Recorded(intent[d].number)')  # {}
    <3>1. trying[d] # 0
      BY <2>1, <2>4 DEF IInv, RecordsTrue
    <3>2. d # c
      BY <3>1 DEF Send
    <3> QED
      BY <3>1, <3>2, <2>1, <2>2, <2>4, <1>i DEF Send, IInv, TypeOK, RecordsTrue
  <2>5. ASSUME NEW x \in Number, told'[x] = "credited" PROVE Recorded(x)' # {}
    BY <2>5, <2>2, <1>n DEF IInv, RecordsTrue
  <2> QED
    BY <2>3, <2>4, <2>5 DEF RecordsTrue
<1>6. OrdersPriced'
  BY DEF Send, serverVars, IInv, OrdersPriced
<1>7. OneIntentPerNumber'
  <2>1. \A d \in Client \ {c} : intent[d] # None =>
          intent[d].number # n /\ (intent[c] = i => intent[d].number # n)
    BY <1>0 DEF IInv, IntentsOpen, OneIntentPerNumber
  <2> QED
    BY <2>1, <1>0, <1>i DEF IInv, OneIntentPerNumber
<1> QED
  BY <1>1, <1>2, <1>3, <1>4, <1>5, <1>6, <1>7 DEF IInv
\* Being told of a recharge, or that nothing is known of it.
LEMMA ToldInv ==
  ASSUME IInv, NEW c \in Client, trying[c] # 0,
         NEW outcome \in {"credited", "refused", "unknown"},
         outcome = "credited" => answer[c] = "credited",
         Told(c, outcome)
  PROVE  IInv'
<1> DEFINE n == intent[c].number
<1>0. intent[c] \in Intent /\ n \in Number /\ intent[c].client = c /\ told[n] = "unknown"
  BY ClientTypes DEF IInv, IntentsOpen
<1>n. told'[n] = outcome /\ \A x \in Number \ {n} : told'[x] = told[x]
  BY <1>0 DEF Told
<1>i. /\ intent'[c] = IF outcome = "unknown" THEN intent[c] ELSE None
      /\ \A d \in Client \ {c} : intent'[d] = intent[d]
  BY DEF Told, Remembered, IInv, TypeOK
<1>t. /\ trying'[c] = 0 /\ answer'[c] = ""
      /\ \A d \in Client \ {c} : trying'[d] = trying[d] /\ answer'[d] = answer[d]
  BY DEF Told, IInv, TypeOK
<1>o. \A d \in Client \ {c} : intent[d] # None => intent[d] \in Intent /\ intent[d].client = d
  BY ClientTypes DEF IInv, IntentsOpen
<1>s. /\ recharges' = recharges /\ requests' = requests /\ tries' = tries
      /\ \A x : Recorded(x)' = Recorded(x)
  BY DEF Told, serverVars, Recorded
\* Nobody else has the number in the settings.
<1>u. \A d \in Client \ {c} : intent[d] # None => intent[d].number # n
  BY DEF IInv, IntentsOpen, OneIntentPerNumber
<1>1. TypeOK'
  <2>1. told' \in [Number -> {"unused", "unknown", "credited", "refused"}]
    BY DEF Told, IInv, TypeOK
  <2>2. intent' \in [Client -> Intent \cup {None}]
    BY <1>0 DEF Told, Remembered, IInv, TypeOK
  <2>3. trying' \in [Client -> 0..MaxTry]
    <3>1. 0 \in 0..MaxTry
      BY ConstantTypes
    <3> QED
      BY <3>1 DEF Told, IInv, TypeOK
  <2>4. answer' \in [Client -> {"", "credited", "refused", "unknown"}]
    BY DEF Told, IInv, TypeOK
  <2> QED
    BY <2>1, <2>2, <2>3, <2>4 DEF Told, IInv, TypeOK, serverVars
<1>2. IntentsOpen'
  <2> SUFFICES ASSUME NEW d \in Client
               PROVE  /\ trying'[d] # 0 => intent'[d] # None
                      /\ intent'[d] # None =>
                           intent'[d].client = d /\ told'[intent'[d].number] = "unknown"
    BY DEF IntentsOpen
  <2>1. CASE d = c
    BY <2>1, <1>0, <1>i, <1>n, <1>t
  <2>2. CASE d # c
    <3>1. intent'[d] = intent[d] /\ trying'[d] = trying[d]
      BY <2>2, <1>i, <1>t
    <3>2. ASSUME intent[d] # None
          PROVE  intent[d].client = d /\ told'[intent[d].number] = "unknown"
      <4>1. intent[d].number \in Number /\ intent[d].number # n
        BY <3>2, <2>2, <1>o, <1>u DEF Intent
      <4>2. told'[intent[d].number] = told[intent[d].number]
        BY <4>1, <1>n
      <4> QED
        BY <3>2, <4>2 DEF IInv, IntentsOpen
    <3>3. trying[d] # 0 => intent[d] # None
      BY DEF IInv, IntentsOpen
    <3> QED
      BY <3>1, <3>2, <3>3
  <2> QED
    BY <2>1, <2>2
<1>3. OneIntentPerNumber'
  BY <1>i DEF IInv, OneIntentPerNumber
<1>4. OpenRemembered'
  <2> SUFFICES ASSUME NEW x \in Number, told'[x] = "unknown"
               PROVE  \E d \in Client : intent'[d] # None /\ intent'[d].number = x
    BY DEF OpenRemembered
  <2>1. PICK d \in Client : intent[d] # None /\ intent[d].number = x
    BY <1>0, <1>n DEF IInv, OpenRemembered
  <2>2. d = c => outcome = "unknown"
    BY <2>1, <1>n
  <2> QED
    BY <2>1, <2>2, <1>i
<1>5. RequestsFit'
  <2>1. \A d \in Client : trying'[d] <= tries'[d]
    <3>1. tries[c] \in Nat
      BY ClientTypes DEF IInv
    <3>2. \A d \in Client \ {c} : trying'[d] <= tries'[d]
      BY <1>t, <1>s DEF IInv, RequestsFit
    <3>3. tries'[c] = tries[c] /\ trying'[c] = 0
      BY <1>t, <1>s
    <3>4. trying'[c] <= tries'[c]
      BY <3>1, <3>3
    <3> QED
      BY <3>2, <3>4
  <2>2. ASSUME NEW m \in requests'
        PROVE  /\ m.try <= tries'[m.intent.client]
               /\ told'[m.intent.number] # "unused"
               /\ trying'[m.intent.client] = m.try => m.intent = intent'[m.intent.client]
    <3>1. m \in requests /\ m.intent.client \in Client /\ m.intent.number \in Number /\ m.try # 0
      BY <2>2, <1>s, RequestTypes DEF IInv
    <3> QED
      BY <3>1, <1>n, <1>i, <1>t, <1>s DEF IInv, RequestsFit
  <2> QED
    BY <2>1, <2>2 DEF RequestsFit
<1>6. RecordsTrue'
  <2>1. ASSUME NEW r \in recharges' PROVE told'[r.number] # "unused"
    BY <2>1, <1>n, <1>s DEF IInv, TypeOK, Record, RecordsTrue
  <2>2. ASSUME NEW d \in Client, answer'[d] = "credited"
        PROVE  trying'[d] # 0 /\ Recorded(intent[d].number)' # {}
    <3>1. d # c
      BY <2>2, <1>t
    <3> QED
      BY <3>1, <2>2, <1>t, <1>i, <1>s DEF IInv, RecordsTrue
  <2>3. ASSUME NEW x \in Number, told'[x] = "credited" PROVE Recorded(x)' # {}
    BY <2>3, <1>n, <1>s DEF IInv, RecordsTrue
  <2> QED
    BY <2>1, <2>2, <2>3 DEF RecordsTrue
<1>7. OrdersPriced'
  BY DEF Told, serverVars, IInv, OrdersPriced
<1> QED
  BY <1>1, <1>2, <1>3, <1>4, <1>5, <1>6, <1>7 DEF IInv
\* Giving up without being told: only the request is forgotten.
LEMMA AbandonInv ==
  ASSUME IInv, NEW c \in Client, Abandon(c)
  PROVE  IInv'
<1>1. /\ trying'[c] = 0 /\ answer'[c] = ""
      /\ \A d \in Client \ {c} : trying'[d] = trying[d] /\ answer'[d] = answer[d]
  BY DEF Abandon, IInv, TypeOK
<1>2. /\ recharges' = recharges /\ requests' = requests /\ tries' = tries /\ intent' = intent
      /\ told' = told /\ order' = order
      /\ \A x : Recorded(x)' = Recorded(x)
  BY DEF Abandon, serverVars, Recorded
<1>3. TypeOK'
  <2>1. trying' \in [Client -> 0..MaxTry]
    <3>1. 0 \in 0..MaxTry
      BY ConstantTypes
    <3> QED
      BY <3>1 DEF Abandon, IInv, TypeOK
  <2>2. answer' \in [Client -> {"", "credited", "refused", "unknown"}]
    BY DEF Abandon, IInv, TypeOK
  <2> QED
    BY <2>1, <2>2 DEF Abandon, IInv, TypeOK, serverVars
<1>4. IntentsOpen' /\ OneIntentPerNumber' /\ OpenRemembered' /\ OrdersPriced'
  BY <1>1, <1>2 DEF IInv, IntentsOpen, OneIntentPerNumber, OpenRemembered, OrdersPriced
<1>5. RequestsFit'
  <2>1. \A d \in Client : trying'[d] <= tries'[d]
    <3>1. tries[c] \in Nat
      BY ClientTypes DEF IInv
    <3>2. trying'[c] <= tries'[c]
      <4>1. trying'[c] = 0 /\ tries'[c] = tries[c]
        BY <1>1, <1>2
      <4> QED
        BY <3>1, <4>1
    <3>3. \A d \in Client \ {c} : trying'[d] <= tries'[d]
      BY <1>1, <1>2 DEF IInv, RequestsFit
    <3> QED
      BY <3>2, <3>3
  <2>2. ASSUME NEW m \in requests, trying'[m.intent.client] = m.try
        PROVE  m.intent = intent[m.intent.client]
    BY <2>2, <1>1, RequestTypes DEF IInv, RequestsFit
  <2> QED
    BY <2>1, <2>2, <1>2 DEF IInv, RequestsFit
<1>6. RecordsTrue'
  BY <1>1, <1>2 DEF IInv, RecordsTrue
<1> QED
  BY <1>3, <1>4, <1>5, <1>6 DEF IInv

\* An answer to a request, given truly, whatever is put on record.
LEMMA AnsweredInv ==
  ASSUME IInv, NEW m \in requests, NEW outcome \in {"credited", "refused", "unknown"},
         Answered(m, outcome),
         recharges \subseteq recharges',
         \A r \in recharges' : r \in recharges \/ r.number = m.intent.number,
         outcome = "credited" => Recorded(m.intent.number)' # {},
         balance' \in [User -> 0..MaxBalance], vouchers' \in [User -> Nat],
         recharges' \subseteq Record
  PROVE  IInv'
<1> DEFINE c == m.intent.client
<1>0. c \in Client /\ m.try # 0 /\ m.intent.number \in Number
  BY RequestTypes DEF IInv
<1>1. /\ intent' = intent /\ trying' = trying /\ tries' = tries /\ told' = told /\ order' = order
      /\ requests' \subseteq requests
  BY DEF Answered
<1>2. /\ \A d \in Client \ {c} : answer'[d] = answer[d]
      /\ answer'[c] = answer[c] \/ (answer'[c] = outcome /\ trying[c] = m.try)
  BY <1>0 DEF Answered, IInv, TypeOK
<1>3. \A x \in Number : Recorded(x) # {} => Recorded(x)' # {}
  BY DEF Recorded
<1>4. TypeOK'
  <2>1. answer' \in [Client -> {"", "credited", "refused", "unknown"}]
    BY DEF Answered, IInv, TypeOK
  <2> QED
    BY <2>1 DEF Answered, IInv, TypeOK
<1>5. /\ IntentsOpen' /\ OneIntentPerNumber' /\ OpenRemembered' /\ RequestsFit' /\ OrdersPriced'
  BY <1>1 DEF IInv, IntentsOpen, OneIntentPerNumber, OpenRemembered, RequestsFit, OrdersPriced
<1>6. RecordsTrue'
  <2>1. ASSUME NEW r \in recharges' PROVE told'[r.number] # "unused"
    BY <2>1, <1>1 DEF IInv, RequestsFit, RecordsTrue
  <2>2. ASSUME NEW d \in Client, answer'[d] = "credited"
        PROVE  trying'[d] # 0 /\ Recorded(intent[d].number)' # {}
    <3>1. CASE answer[d] = "credited"
      <4>1. trying[d] # 0 /\ Recorded(intent[d].number) # {}
        BY <3>1 DEF IInv, RecordsTrue
      <4>2. intent[d].number \in Number
        BY <4>1, ClientTypes DEF IInv, IntentsOpen
      <4> QED
        BY <4>1, <4>2, <1>1, <1>3
    <3>2. CASE answer[d] # "credited"
      <4>1. d = c /\ outcome = "credited" /\ trying[c] = m.try
        BY <3>2, <2>2, <1>2
      <4>2. m.intent = intent[c]
        BY <4>1 DEF IInv, RequestsFit
      <4> QED
        BY <4>1, <4>2, <1>0, <1>1
    <3> QED
      BY <3>1, <3>2
  <2>3. \A x \in Number : told'[x] = "credited" => Recorded(x)' # {}
    BY <1>1, <1>3 DEF IInv, RecordsTrue
  <2> QED
    BY <2>1, <2>2, <2>3 DEF RecordsTrue
<1> QED
  BY <1>4, <1>5, <1>6 DEF IInv

\* The user and the entry of a request.
LEMMA EntryTypes ==
  ASSUME TypeOK, NEW m \in requests
  PROVE  /\ Account[m.intent.client] \in User
         /\ Entry(m.intent) \in Record
         /\ m.intent.amount \in Nat
BY RequestTypes, WalletAssumption DEF Entry, Record

LEMMA ServeInv ==
  ASSUME IInv, NEW m \in requests, Serve(m)
  PROVE  IInv'
<1> DEFINE u == Account[m.intent.client]
           a == m.intent.amount
<1>0. u \in User /\ Entry(m.intent) \in Record /\ a \in Nat
  BY EntryTypes DEF IInv
<1>1. CASE Credit(m)
  <2>1. balance[u] \in 0..MaxBalance /\ balance[u] <= MaxBalance - a
    BY <1>1, <1>0 DEF Credit, IInv, TypeOK
  <2>2. balance[u] + a \in 0..MaxBalance
    BY <2>1, <1>0, ConstantTypes
  <2>3. balance' \in [User -> 0..MaxBalance]
    BY <1>1, <2>2 DEF Credit, IInv, TypeOK
  <2>4. vouchers[u] + Reward(a) \in Nat
    <3>1. vouchers[u] \in Nat
      BY <1>0 DEF IInv, TypeOK
    <3>2. Reward(a) \in Nat
      BY DEF Reward
    <3> QED
      BY <3>1, <3>2
  <2>5. vouchers' \in [User -> Nat]
    BY <1>1, <2>4 DEF Credit, IInv, TypeOK
  <2>6. Entry(m.intent) \in recharges' /\ Entry(m.intent).number = m.intent.number
    BY <1>1 DEF Credit, Entry
  <2>7. Recorded(m.intent.number)' # {}
    BY <2>6 DEF Recorded
  <2>8. recharges' = recharges \cup {Entry(m.intent)} /\ Answered(m, "credited")
    BY <1>1 DEF Credit
  <2>9. recharges' \subseteq Record
    BY <2>8, <1>0 DEF IInv, TypeOK
  <2> QED
    BY <2>3, <2>5, <2>6, <2>7, <2>8, <2>9, AnsweredInv
<1>2. CASE Replay(m) \/ Overflow(m) \/ Rejected(m)
  <2>1. /\ balance' = balance /\ vouchers' = vouchers /\ recharges' = recharges
        /\ balance' \in [User -> 0..MaxBalance] /\ vouchers' \in [User -> Nat]
        /\ recharges' \subseteq Record
    BY <1>2 DEF Replay, Overflow, Rejected, IInv, TypeOK
  <2>2. \E outcome \in {"credited", "refused", "unknown"} :
          Answered(m, outcome) /\ (outcome = "credited" => Recorded(m.intent.number) # {})
    BY <1>2 DEF Replay, Overflow, Rejected
  <2>3. Recorded(m.intent.number)' = Recorded(m.intent.number)
    BY <2>1 DEF Recorded
  <2> QED
    BY <2>1, <2>2, <2>3, AnsweredInv
<1> QED
  BY <1>1, <1>2 DEF Serve
\* What does not concern recharges.
LEMMA ElsewhereInv ==
  ASSUME IInv, UNCHANGED <<clientVars, recharges>>, TypeOK', OrdersPriced'
  PROVE  IInv'
<1>1. /\ intent' = intent /\ trying' = trying /\ tries' = tries /\ requests' = requests
      /\ answer' = answer /\ told' = told /\ recharges' = recharges
      /\ \A x : Recorded(x)' = Recorded(x)
  BY DEF clientVars, Recorded
<1>2. IntentsOpen' /\ OneIntentPerNumber' /\ OpenRemembered' /\ RequestsFit' /\ RecordsTrue'
  BY <1>1 DEF IInv, IntentsOpen, OneIntentPerNumber, OpenRemembered, RequestsFit, RecordsTrue
<1> QED
  BY <1>2 DEF IInv

\* An order's amount and what it leaves of the balance.
LEMMA PayTypes ==
  ASSUME IInv, NEW o \in Order, Pay(o)
  PROVE  /\ order[o].amount \in OrderCents
         /\ order' = [order EXCEPT ![o] = [status |-> "COMPLETED", amount |-> order[o].amount]]
         /\ balance[Debtor[o]] - order[o].amount \in 0..MaxBalance
         /\ ledger[Debtor[o]] + settlementRewardPoints(order[o].amount) \in Nat
<1>1. order[o] \in Bill /\ order[o].amount \in OrderCents /\ Debtor[o] \in User
  BY WalletAssumption DEF Pay, IInv, TypeOK, OrdersPriced
<1>2. order[o].amount \in Nat
  BY <1>1, WalletAssumption
<1>3. balance[Debtor[o]] \in 0..MaxBalance /\ ledger[Debtor[o]] \in Nat
  BY <1>1 DEF IInv, TypeOK
<1>4. balance[Debtor[o]] - order[o].amount \in 0..MaxBalance
  BY <1>2, <1>3, ConstantTypes DEF Pay
<1>5. settlementRewardPoints(order[o].amount) \in Nat
  BY <1>2 DEF settlementRewardPoints
<1>6. [order[o] EXCEPT !.status = "COMPLETED"] = [status |-> "COMPLETED", amount |-> order[o].amount]
  BY <1>1 DEF Bill
<1>7. order' = [order EXCEPT ![o] = [order[o] EXCEPT !.status = "COMPLETED"]]
  BY DEF Pay
<1>8. ledger[Debtor[o]] + settlementRewardPoints(order[o].amount) \in Nat
  BY <1>3, <1>5
<1> QED
  BY <1>1, <1>4, <1>6, <1>7, <1>8

LEMMA OrderInv ==
  ASSUME IInv, NEW o \in Order,
         Pay(o) \/ \E a \in OrderCents : BillOrder(o, a)
  PROVE  IInv'
<1>1. CASE Pay(o)
  <2>1. order' \in [Order -> Bill] /\ OrdersPriced'
    <3>1. [status |-> "COMPLETED", amount |-> order[o].amount] \in Bill
      BY <1>1, PayTypes DEF Bill
    <3>2. order' = [order EXCEPT ![o] = [status |-> "COMPLETED", amount |-> order[o].amount]]
      BY <1>1, PayTypes
    <3>3. order \in [Order -> Bill] /\ order[o].amount \in OrderCents
      BY <1>1, PayTypes DEF IInv, TypeOK
    <3>4. order' \in [Order -> Bill]
      BY <3>1, <3>2, <3>3
    <3>5. \A p \in Order : order'[p] = order[p] \/ order'[p].amount = order[o].amount
      BY <3>2, <3>3
    <3> QED
      BY <3>3, <3>4, <3>5 DEF IInv, OrdersPriced
  <2>2. balance' \in [User -> 0..MaxBalance] /\ ledger' \in [User -> Nat]
    BY <1>1, PayTypes DEF Pay, IInv, TypeOK
  <2>3. TypeOK'
    BY <1>1, <2>1, <2>2 DEF Pay, IInv, TypeOK, clientVars
  <2> QED
    BY <1>1, <2>1, <2>3, ElsewhereInv DEF Pay
<1>2. ASSUME NEW a \in OrderCents, BillOrder(o, a) PROVE IInv'
  <2>1. order' \in [Order -> Bill] /\ OrdersPriced'
    BY <1>2 DEF BillOrder, IInv, TypeOK, Bill, OrdersPriced
  <2>2. TypeOK'
    BY <1>2, <2>1 DEF BillOrder, IInv, TypeOK, clientVars
  <2> QED
    BY <1>2, <2>1, <2>2, ElsewhereInv DEF BillOrder
<1> QED
  BY <1>1, <1>2

\* What rows and gifts earn.
LEMMA EarnedTypes ==
  /\ \A row, rows : Earned(row, rows, kCheckInRewardPoints) \in Nat
  /\ \A row, rows, l : Earned(row, rows, levelRewardPoints(l)) \in Nat
BY DEF Earned, kCheckInRewardPoints, levelRewardPoints

LEMMA UserInv ==
  ASSUME IInv, NEW u \in User,
         CheckIn(u) \/ SetUser(u) \/ \E l \in Level : CreditLevelReward(u, l)
  PROVE  IInv'
<1>0. ledger[u] \in Nat /\ today \in 0..MaxDay
  BY DEF IInv, TypeOK
<1>1. CASE CheckIn(u)
  <2>1. ledger[u] + Earned(<<u, today>>, checkins, kCheckInRewardPoints) \in Nat
    BY <1>0, EarnedTypes
  <2>2. /\ ledger' \in [User -> Nat]
        /\ checkins' \subseteq User \X (0..MaxDay)
    <3>1. /\ ledger' = [ledger EXCEPT ![u] = ledger[u] + Earned(<<u, today>>, checkins, kCheckInRewardPoints)]
          /\ checkins' = checkins \cup {<<u, today>>}
      BY <1>1 DEF CheckIn
    <3>2. ledger \in [User -> Nat] /\ checkins \subseteq User \X (0..MaxDay)
      BY DEF IInv, TypeOK
    <3>3. <<u, today>> \in User \X (0..MaxDay)
      BY <1>0
    <3>4. ledger' \in [User -> Nat]
      BY <2>1, <3>1, <3>2
    <3> QED
      BY <3>1, <3>2, <3>3, <3>4
  <2>3. TypeOK'
    BY <1>1, <2>2 DEF CheckIn, IInv, TypeOK, clientVars
  <2> QED
    BY <1>1, <2>3, ElsewhereInv DEF CheckIn, IInv, OrdersPriced
<1>2. CASE SetUser(u)
  <2>1. TypeOK'
    BY <1>2 DEF SetUser, IInv, TypeOK, clientVars
  <2> QED
    BY <1>2, <2>1, ElsewhereInv DEF SetUser, IInv, OrdersPriced
<1>3. ASSUME NEW l \in Level, CreditLevelReward(u, l) PROVE IInv'
  <2>1. ledger[u] + Earned(<<u, l>>, gifts, levelRewardPoints(l)) \in Nat
    BY <1>0, EarnedTypes
  <2>2. /\ ledger' \in [User -> Nat]
        /\ gifts' \subseteq User \X Level
    <3>1. /\ ledger' = [ledger EXCEPT ![u] = ledger[u] + Earned(<<u, l>>, gifts, levelRewardPoints(l))]
          /\ gifts' = gifts \cup {<<u, l>>}
      BY <1>3 DEF CreditLevelReward
    <3>2. ledger \in [User -> Nat] /\ gifts \subseteq User \X Level
      BY DEF IInv, TypeOK
    <3>3. ledger' \in [User -> Nat]
      BY <2>1, <3>1, <3>2
    <3> QED
      BY <3>1, <3>2, <3>3
  <2>3. TypeOK'
    BY <1>3, <2>2 DEF CreditLevelReward, IInv, TypeOK, clientVars
  <2> QED
    BY <1>3, <2>3, ElsewhereInv DEF CreditLevelReward, IInv, OrdersPriced
<1> QED
  BY <1>1, <1>2, <1>3

LEMMA StepInv == IInv /\ [Next]_vars => IInv'
<1> SUFFICES ASSUME IInv, [Next]_vars PROVE IInv'
  OBVIOUS
<1>1. ASSUME NEW c \in Client, NEW n \in Number, NEW a \in RechargeCents, Recharge(c, n, a)
      PROVE  IInv'
  BY <1>1, SendInv DEF Recharge
<1>2. ASSUME NEW c \in Client, Retry(c) PROVE IInv'
  <2>1. intent[c] # None /\ Send(c, intent[c]) /\ told' = told
    BY <1>2 DEF Retry
  <2>2. /\ intent[c] \in Intent /\ intent[c].number \in Number /\ intent[c].amount \in RechargeCents
        /\ intent[c].client = c
    BY <2>1, ClientTypes DEF IInv, IntentsOpen
  <2>3. intent[c] = [number |-> intent[c].number, client |-> c, amount |-> intent[c].amount]
    BY <2>2 DEF Intent
  <2> QED
    BY <2>1, <2>2, <2>3, SendInv
<1>3. ASSUME NEW c \in Client, Receive(c) PROVE IInv'
  <2>1. answer[c] \in {"credited", "refused", "unknown"}
    BY <1>3 DEF Receive, IInv, TypeOK
  <2> QED
    BY <1>3, <2>1, ToldInv DEF Receive
<1>4. ASSUME NEW c \in Client, Fail(c) PROVE IInv'
  BY <1>4, ToldInv DEF Fail
<1>5. ASSUME NEW c \in Client, Abandon(c) PROVE IInv'
  BY <1>5, AbandonInv
<1>6. ASSUME NEW m \in requests, Serve(m) PROVE IInv'
  BY <1>6, ServeInv
<1>7. CASE SetClock
  <2>1. TypeOK'
    BY <1>7 DEF SetClock, IInv, TypeOK, clientVars
  <2> QED
    BY <1>7, <2>1, ElsewhereInv DEF SetClock, IInv, OrdersPriced
<1>8. CASE UNCHANGED vars
  <2>1. TypeOK'
    BY <1>8 DEF vars, serverVars, clientVars, IInv, TypeOK
  <2> QED
    BY <1>8, <2>1, ElsewhereInv DEF vars, serverVars, IInv, OrdersPriced
<1> QED
  BY <1>1, <1>2, <1>3, <1>4, <1>5, <1>6, <1>7, <1>8, OrderInv, UserInv DEF Next

\* What the client has in its settings, what is under way, what the server
\* has on record and what the user was told always agree.
THEOREM WalletInvariant == Spec => []IInv
  BY InitInv, StepInv, PTL DEF Spec

\* A recharge that was credited is never out of sight of the client that
\* asked for it, and nobody is told of a credit that was not given.
THEOREM CreditNeverForgotten == Spec => []NoForgottenCredit
<1>1. IInv => NoForgottenCredit
  <2> SUFFICES ASSUME IInv PROVE NoForgottenCredit
    OBVIOUS
  <2>1. \A r \in recharges : r.number \in Number
    BY DEF IInv, TypeOK, Record
  <2> QED
    BY <2>1 DEF IInv, OpenRemembered, RecordsTrue, NoForgottenCredit
<1> QED
  BY <1>1, WalletInvariant, PTL
-----------------------------------------------------------------------------
(* The ledger.                                                             *)

\* What is in Effects.
LEMMA EffectKinds ==
  \A d : d \in Effects <=>
    \/ \E r \in recharges : d = OfRecharge(r)
    \/ \E o \in Order : order[o].status = "COMPLETED" /\ d = OfOrder(o, order[o].amount)
    \/ \E x \in checkins : d = OfCheckIn(x)
    \/ \E x \in gifts : d = OfGift(x)
  BY DEF Effects

\* The fields of causes.
LEMMA CauseFields ==
  /\ \A r : /\ OfRecharge(r).kind = "RECHARGE" /\ OfRecharge(r).user = r.user
            /\ OfRecharge(r).key = r.number /\ OfRecharge(r).money = r.amount
            /\ OfRecharge(r).points = 0 /\ OfRecharge(r).coupons = Reward(r.amount)
  /\ \A o, a : /\ OfOrder(o, a).kind = "ORDER" /\ OfOrder(o, a).user = Debtor[o]
               /\ OfOrder(o, a).key = o /\ OfOrder(o, a).money = -a
               /\ OfOrder(o, a).points = settlementRewardPoints(a) /\ OfOrder(o, a).coupons = 0
  /\ \A x : /\ OfCheckIn(x).kind = "CHECK_IN" /\ OfCheckIn(x).user = x[1]
            /\ OfCheckIn(x).key = x[2] /\ OfCheckIn(x).money = 0
            /\ OfCheckIn(x).points = kCheckInRewardPoints /\ OfCheckIn(x).coupons = 0
  /\ \A x : /\ OfGift(x).kind = "LEVEL_GIFT" /\ OfGift(x).user = x[1]
            /\ OfGift(x).key = x[2] /\ OfGift(x).money = 0
            /\ OfGift(x).points = levelRewardPoints(x[2]) /\ OfGift(x).coupons = 0
  BY DEF OfRecharge, OfOrder, OfCheckIn, OfGift

\* How the effects are told apart.
LEMMA EffectIds ==
  ASSUME NEW d \in Effects
  PROVE  \/ d.kind = "RECHARGE" /\ \E r \in recharges : d.user = r.user /\ d.key = r.number
         \/ d.kind = "ORDER" /\ \E o \in Order : order[o].status = "COMPLETED" /\ d.key = o
         \/ d.kind = "CHECK_IN" /\ \E x \in checkins : d.user = x[1] /\ d.key = x[2]
         \/ d.kind = "LEVEL_GIFT" /\ \E x \in gifts : d.user = x[1] /\ d.key = x[2]
<1>1. ASSUME NEW r \in recharges, d = OfRecharge(r)
      PROVE  d.kind = "RECHARGE" /\ d.user = r.user /\ d.key = r.number
  BY <1>1 DEF OfRecharge
<1>2. ASSUME NEW o \in Order, d = OfOrder(o, order[o].amount)
      PROVE  d.kind = "ORDER" /\ d.key = o
  BY <1>2 DEF OfOrder
<1>3. ASSUME NEW x \in checkins, d = OfCheckIn(x)
      PROVE  d.kind = "CHECK_IN" /\ d.user = x[1] /\ d.key = x[2]
  BY <1>3 DEF OfCheckIn
<1>4. ASSUME NEW x \in gifts, d = OfGift(x)
      PROVE  d.kind = "LEVEL_GIFT" /\ d.user = x[1] /\ d.key = x[2]
  BY <1>4 DEF OfGift
<1> QED
  BY <1>1, <1>2, <1>3, <1>4, EffectKinds

\* The columns of a user's account.
LEMMA AccountTypes ==
  ASSUME IInv, NEW u \in User
  PROVE  /\ balance \in [User -> 0..MaxBalance] /\ balance[u] \in Int /\ balance[u] >= 0
         /\ ledger \in [User -> Nat] /\ ledger[u] \in Int
         /\ vouchers \in [User -> Nat] /\ vouchers[u] \in Int
<1>1. balance \in [User -> 0..MaxBalance] /\ ledger \in [User -> Nat] /\ vouchers \in [User -> Nat]
  BY DEF IInv, TypeOK
<1>2. balance[u] \in 0..MaxBalance /\ ledger[u] \in Nat /\ vouchers[u] \in Nat
  BY <1>1
<1> QED
  BY <1>1, <1>2, ConstantTypes

\* A column of the accounts that a cause adds nothing to.
LEMMA AddNothing ==
  ASSUME NEW f, NEW u \in User, NEW S, f \in [User -> S], f[u] \in Int
  PROVE  [f EXCEPT ![u] = @ + 0] = f
<1>1. f[u] + 0 = f[u]
  OBVIOUS
<1> QED
  BY <1>1

\* A step that takes one new cause and adds what it is worth.
LEMMA OneCause ==
  ASSUME NEW c \in Causes,
         \A d \in Effects : ~(d.kind = c.kind /\ d.user = c.user /\ d.key = c.key),
         balance[c.user] + c.money >= 0,
         Effects' = Effects \cup {c},
         balance' = [balance EXCEPT ![c.user] = @ + c.money],
         ledger' = [ledger EXCEPT ![c.user] = @ + c.points],
         vouchers' = [vouchers EXCEPT ![c.user] = @ + c.coupons]
  PROVE  Accounts!Next
  BY DEF Accounts!Next, Accounts!Apply

LEMMA InitLedger == Init => Accounts!Init
<1> SUFFICES ASSUME Init PROVE Accounts!Init
  OBVIOUS
<1>1. \A d : d \notin Effects
  BY EffectKinds DEF Init
<1>2. Effects = {}
  BY <1>1
<1> QED
  BY <1>2 DEF Init, Accounts!Init, Accounts!Nothing

\* A recharge.
LEMMA CreditLedger ==
  ASSUME IInv, NEW m \in requests, Credit(m)
  PROVE  Accounts!Next
<1> DEFINE e == Entry(m.intent)
           c == OfRecharge(e)
<1>0. /\ e \in Record /\ e.user \in User /\ e.number = m.intent.number /\ e.amount = m.intent.amount
      /\ e.user = Account[m.intent.client] /\ e.amount \in Nat
  BY EntryTypes DEF IInv, Entry
<1>1. c \in Causes
  BY <1>0 DEF Causes
<1>2. UNCHANGED <<order, checkins, gifts, ledger>> /\ recharges' = recharges \cup {e}
  BY DEF Credit, Answered
<1>3. Effects' = Effects \cup {c}
  <2>1. {OfRecharge(r) : r \in recharges'} = {OfRecharge(r) : r \in recharges} \cup {c}
    BY <1>2
  <2> QED
    BY <1>2, <2>1 DEF Effects
<1>4. /\ c.kind = "RECHARGE" /\ c.user = e.user /\ c.key = e.number
      /\ c.money = e.amount /\ c.points = 0 /\ c.coupons = Reward(e.amount)
  BY CauseFields
<1> HIDE DEF c
<1>5. ASSUME NEW d \in Effects PROVE ~(d.kind = c.kind /\ d.user = c.user /\ d.key = c.key)
  <2>1. \A r \in recharges : r.number # e.number
    BY <1>0 DEF Credit, Recorded
  <2>2. d.kind = "RECHARGE" => \E r \in recharges : d.key = r.number
    BY EffectIds
  <2> QED
    BY <1>4, <2>1, <2>2
<1> HIDE DEF e
<1>6. balance[c.user] + c.money >= 0
  <2>1. balance \in [User -> 0..MaxBalance]
    BY DEF IInv, TypeOK
  <2>2. balance[e.user] \in 0..MaxBalance
    BY <2>1, <1>0
  <2> QED
    BY <2>2, <1>0, <1>4, ConstantTypes
<1>7. ledger' = [ledger EXCEPT ![c.user] = @ + c.points]
  <2>1. ledger \in [User -> Nat] /\ ledger[e.user] \in Int
    BY <1>0, AccountTypes
  <2>2. [ledger EXCEPT ![e.user] = @ + 0] = ledger
    BY <1>0, <2>1, AddNothing
  <2> QED
    BY <1>2, <1>4, <2>2
<1>8. /\ balance' = [balance EXCEPT ![e.user] = @ + e.amount]
      /\ vouchers' = [vouchers EXCEPT ![e.user] = @ + Reward(e.amount)]
  BY <1>0 DEF Credit
<1>9. /\ balance' = [balance EXCEPT ![c.user] = @ + c.money]
      /\ vouchers' = [vouchers EXCEPT ![c.user] = @ + c.coupons]
  BY <1>4, <1>8
<1> QED
  BY <1>1, <1>3, <1>5, <1>6, <1>7, <1>9, OneCause
\* A payment.
LEMMA PayLedger ==
  ASSUME IInv, NEW o \in Order, Pay(o)
  PROVE  Accounts!Next
<1> DEFINE u == Debtor[o]
           a == order[o].amount
           c == OfOrder(o, a)
<1>0. u \in User /\ a \in OrderCents /\ order[o].status = "WAITING_PAYMENT"
  BY PayTypes, WalletAssumption DEF Pay
<1>1. c \in Causes
  BY <1>0 DEF Causes
<1>2. /\ UNCHANGED <<recharges, checkins, gifts, vouchers>>
      /\ order' = [order EXCEPT ![o] = [status |-> "COMPLETED", amount |-> a]]
  BY PayTypes DEF Pay
<1>3. Effects' = Effects \cup {c}
  <2>1. /\ order'[o].status = "COMPLETED" /\ order'[o].amount = a
        /\ \A p \in Order \ {o} : order'[p] = order[p]
    BY <1>2 DEF IInv, TypeOK
  <2>2. {OfOrder(p, order'[p].amount) : p \in {q \in Order : order'[q].status = "COMPLETED"}}
          = {OfOrder(p, order[p].amount) : p \in {q \in Order : order[q].status = "COMPLETED"}} \cup {c}
    BY <2>1, <1>0
  <2> QED
    BY <1>2, <2>2 DEF Effects
<1>4. /\ c.kind = "ORDER" /\ c.user = u /\ c.key = o
      /\ c.money = -a /\ c.points = settlementRewardPoints(a) /\ c.coupons = 0
  BY DEF OfOrder
<1> HIDE DEF c
<1>5. ASSUME NEW d \in Effects PROVE ~(d.kind = c.kind /\ d.user = c.user /\ d.key = c.key)
  BY <1>0, <1>4, EffectIds
<1>6. balance[u] \in Int /\ a \in Nat /\ balance[u] >= a
  BY <1>0, WalletAssumption, AccountTypes DEF Pay
<1>7. balance[u] + (-a) = balance[u] - a /\ balance[u] + (-a) >= 0
  BY <1>6
<1>8. vouchers' = [vouchers EXCEPT ![c.user] = @ + c.coupons]
  <2>1. vouchers \in [User -> Nat] /\ vouchers[u] \in Int
    BY <1>0, AccountTypes
  <2>2. [vouchers EXCEPT ![u] = @ + 0] = vouchers
    BY <1>0, <2>1, AddNothing
  <2> QED
    BY <1>2, <1>4, <2>2
<1>9. /\ balance' = [balance EXCEPT ![u] = @ - a]
      /\ ledger' = [ledger EXCEPT ![u] = @ + settlementRewardPoints(a)]
  BY DEF Pay
<1>10. /\ balance' = [balance EXCEPT ![c.user] = @ + c.money]
       /\ ledger' = [ledger EXCEPT ![c.user] = @ + c.points]
  BY <1>4, <1>7, <1>9
<1>11. balance[c.user] + c.money >= 0
  BY <1>4, <1>7
<1> QED
  BY <1>1, <1>3, <1>5, <1>8, <1>10, <1>11, OneCause

\* A row that is worth points and nothing else.
LEMMA PointsLedger ==
  ASSUME IInv, NEW c \in Causes, c.user \in User, c.money = 0, c.coupons = 0,
         \A d \in Effects : ~(d.kind = c.kind /\ d.user = c.user /\ d.key = c.key),
         Effects' = Effects \cup {c},
         UNCHANGED <<balance, vouchers>>,
         ledger' = [ledger EXCEPT ![c.user] = @ + c.points]
  PROVE  Accounts!Next
<1>1. /\ balance \in [User -> 0..MaxBalance] /\ balance[c.user] \in Int /\ balance[c.user] >= 0
      /\ vouchers \in [User -> Nat] /\ vouchers[c.user] \in Int
  BY AccountTypes
<1>2. [balance EXCEPT ![c.user] = @ + 0] = balance /\ [vouchers EXCEPT ![c.user] = @ + 0] = vouchers
  BY <1>1, AddNothing
<1>3. balance[c.user] + c.money >= 0
  BY <1>1
<1> QED
  BY <1>2, <1>3, OneCause

\* What changes nothing the ledger sees.
LEMMA NothingLedger ==
  ASSUME UNCHANGED <<balance, ledger, vouchers, recharges, checkins, gifts>>,
         {OfOrder(o, order[o].amount) : o \in {p \in Order : order[p].status = "COMPLETED"}}
           = {OfOrder(o, order'[o].amount) : o \in {p \in Order : order'[p].status = "COMPLETED"}}
  PROVE  UNCHANGED Accounts!vars
  BY DEF Accounts!vars, Effects

\* A check-in: once a day, and nothing after.
LEMMA CheckInLedger ==
  ASSUME IInv, NEW u \in User, CheckIn(u)
  PROVE  [Accounts!Next]_(Accounts!vars)
<1> DEFINE x == <<u, today>>
           c == OfCheckIn(x)
<1>0. x \in User \X (0..MaxDay) /\ x[1] = u /\ x[2] = today
  BY DEF IInv, TypeOK
<1>1. /\ UNCHANGED <<balance, vouchers, recharges, gifts, order>> /\ checkins' = checkins \cup {x}
      /\ ledger' = [ledger EXCEPT ![u] = @ + Earned(x, checkins, kCheckInRewardPoints)]
  BY DEF CheckIn
<1>2. CASE x \in checkins
  <2>1. ledger \in [User -> Nat] /\ ledger[u] \in Int
    BY AccountTypes
  <2>2. [ledger EXCEPT ![u] = @ + 0] = ledger
    BY <2>1, AddNothing
  <2>3. ledger' = ledger /\ checkins' = checkins
    BY <1>1, <1>2, <2>2 DEF Earned
  <2> QED
    BY <1>1, <2>3, NothingLedger
<1>3. CASE x \notin checkins
  <2>1. c \in Causes
    BY <1>0 DEF Causes
  <2>2. Effects' = Effects \cup {c}
    <3>1. {OfCheckIn(y) : y \in checkins'} = {OfCheckIn(y) : y \in checkins} \cup {c}
      BY <1>1
    <3> QED
      BY <1>1, <3>1 DEF Effects
  <2>3. /\ c.kind = "CHECK_IN" /\ c.user = u /\ c.key = today
        /\ c.money = 0 /\ c.points = kCheckInRewardPoints /\ c.coupons = 0
    BY <1>0, CauseFields
  <2>4. ASSUME NEW d \in Effects, d.kind = c.kind, d.user = c.user, d.key = c.key PROVE FALSE
    <3>1. PICK y \in checkins : d.user = y[1] /\ d.key = y[2]
      BY <2>3, <2>4, EffectIds
    <3>2. y \in User \X (0..MaxDay)
      BY DEF IInv, TypeOK
    <3>3. y = <<y[1], y[2]>>
      BY <3>2
    <3> QED
      BY <1>3, <2>3, <2>4, <3>1, <3>3
  <2>5. ledger' = [ledger EXCEPT ![c.user] = @ + c.points]
    BY <1>1, <1>3, <2>3 DEF Earned
  <2> HIDE DEF c
  <2> QED
    BY <1>1, <2>1, <2>2, <2>3, <2>4, <2>5, PointsLedger
<1> QED
  BY <1>2, <1>3

\* A gift: once a level, and nothing after.
LEMMA GiftLedger ==
  ASSUME IInv, NEW u \in User, NEW l \in Level, CreditLevelReward(u, l)
  PROVE  [Accounts!Next]_(Accounts!vars)
<1> DEFINE x == <<u, l>>
           c == OfGift(x)
<1>0. x \in User \X Level /\ x[1] = u /\ x[2] = l
  OBVIOUS
<1>1. /\ UNCHANGED <<balance, vouchers, recharges, checkins, order>> /\ gifts' = gifts \cup {x}
      /\ ledger' = [ledger EXCEPT ![u] = @ + Earned(x, gifts, levelRewardPoints(l))]
  BY DEF CreditLevelReward
<1>2. CASE x \in gifts
  <2>1. ledger \in [User -> Nat] /\ ledger[u] \in Int
    BY AccountTypes
  <2>2. [ledger EXCEPT ![u] = @ + 0] = ledger
    BY <2>1, AddNothing
  <2>3. ledger' = ledger /\ gifts' = gifts
    BY <1>1, <1>2, <2>2 DEF Earned
  <2> QED
    BY <1>1, <2>3, NothingLedger
<1>3. CASE x \notin gifts
  <2>1. c \in Causes
    BY <1>0 DEF Causes
  <2>2. Effects' = Effects \cup {c}
    <3>1. {OfGift(y) : y \in gifts'} = {OfGift(y) : y \in gifts} \cup {c}
      BY <1>1
    <3> QED
      BY <1>1, <3>1 DEF Effects
  <2>3. /\ c.kind = "LEVEL_GIFT" /\ c.user = u /\ c.key = l
        /\ c.money = 0 /\ c.points = levelRewardPoints(l) /\ c.coupons = 0
    BY <1>0, CauseFields
  <2>4. ASSUME NEW d \in Effects, d.kind = c.kind, d.user = c.user, d.key = c.key PROVE FALSE
    <3>1. PICK y \in gifts : d.user = y[1] /\ d.key = y[2]
      BY <2>3, <2>4, EffectIds
    <3>2. y \in User \X Level
      BY DEF IInv, TypeOK
    <3>3. y = <<y[1], y[2]>>
      BY <3>2
    <3> QED
      BY <1>3, <2>3, <2>4, <3>1, <3>3
  <2>5. ledger' = [ledger EXCEPT ![c.user] = @ + c.points]
    BY <1>1, <1>3, <2>3 DEF Earned
  <2> HIDE DEF c
  <2> QED
    BY <1>1, <2>1, <2>2, <2>3, <2>4, <2>5, PointsLedger
<1> QED
  BY <1>2, <1>3

LEMMA StepLedger == IInv /\ [Next]_vars => [Accounts!Next]_(Accounts!vars)
<1> SUFFICES ASSUME IInv, [Next]_vars PROVE [Accounts!Next]_(Accounts!vars)
  OBVIOUS
<1>1. ASSUME NEW m \in requests, Serve(m) PROVE [Accounts!Next]_(Accounts!vars)
  <2>1. CASE Credit(m)
    BY <2>1, CreditLedger
  <2>2. CASE Replay(m) \/ Overflow(m) \/ Rejected(m)
    BY <2>2, NothingLedger DEF Replay, Overflow, Rejected, Answered
  <2> QED
    BY <1>1, <2>1, <2>2 DEF Serve
<1>2. ASSUME NEW c \in Client,
             \/ \E n \in Number, a \in RechargeCents : Recharge(c, n, a)
             \/ Retry(c) \/ Receive(c) \/ Fail(c) \/ Abandon(c)
      PROVE  [Accounts!Next]_(Accounts!vars)
  <2>1. UNCHANGED serverVars
    BY <1>2 DEF Recharge, Retry, Send, Receive, Fail, Told, Abandon
  <2> QED
    BY <2>1, NothingLedger DEF serverVars
<1>3. ASSUME NEW o \in Order, NEW a \in OrderCents, BillOrder(o, a)
      PROVE  [Accounts!Next]_(Accounts!vars)
  <2>1. /\ order[o].status # "COMPLETED" /\ order'[o].status # "COMPLETED"
        /\ \A p \in Order \ {o} : order'[p] = order[p]
    BY <1>3 DEF BillOrder, IInv, TypeOK
  <2>2. {OfOrder(p, order[p].amount) : p \in {q \in Order : order[q].status = "COMPLETED"}}
          = {OfOrder(p, order'[p].amount) : p \in {q \in Order : order'[q].status = "COMPLETED"}}
    BY <2>1
  <2> QED
    BY <1>3, <2>2, NothingLedger DEF BillOrder
<1>4. ASSUME NEW u \in User, SetUser(u) PROVE [Accounts!Next]_(Accounts!vars)
  BY <1>4, NothingLedger DEF SetUser
<1>5. CASE SetClock
  BY <1>5, NothingLedger DEF SetClock
<1>6. CASE UNCHANGED vars
  BY <1>6, NothingLedger DEF vars, serverVars
<1> QED
  BY <1>1, <1>2, <1>3, <1>4, <1>5, <1>6, PayLedger, CheckInLedger, GiftLedger DEF Next

\* Whatever the network does, every recharge, payment, check-in and gift
\* moves the account once, whole, and never below zero.
THEOREM LedgerImplemented == Spec => ImplementsLedger
  BY InitLedger, StepLedger, WalletInvariant, PTL DEF Spec, ImplementsLedger, Accounts!Spec
=============================================================================
