---------------------------- MODULE WalletProofs ----------------------------
(***************************************************************************)
(* Proofs about WalletFile, for any number of goroutines, nodes and        *)
(* accounts.                                                               *)
(***************************************************************************)
EXTENDS WalletFile, TLAPS

LEMMA TypeInit == Init => TypeOK
BY WalletAssumption DEF Init, TypeOK, Goroutines

LEMMA ContentIsMade == TypeOK => Content \in SUBSET made
BY DEF TypeOK, Content

LEMMA AbandonType ==
  ASSUME TypeOK, NEW own \in SUBSET Goroutines, Abandon(own)
  PROVE  TypeOK'
<1>1. file' \in {Missing, Torn} \cup SUBSET made /\ made' = made
  BY DEF TypeOK, Abandon
<1>2. pc' \in [Goroutines -> {"idle", "loaded", "saving"}]
  BY DEF TypeOK, Abandon
<1>3. wallet' \in [Goroutines -> SUBSET made]
  BY DEF TypeOK, Abandon
<1>4. \A r \in Readers : pc'[r] = "idle"
  BY DEF TypeOK, Abandon, Goroutines
<1>5. lost' \in BOOLEAN /\ UNCHANGED <<saved, aborted, overlapped>>
  BY DEF TypeOK, Abandon
<1> QED
  BY <1>1, <1>2, <1>3, <1>4, <1>5 DEF TypeOK

LEMMA TypeStep == TypeOK /\ [Next]_vars => TypeOK'
<1> SUFFICES ASSUME TypeOK, [Next]_vars
             PROVE  TypeOK'
  OBVIOUS
<1>1. ASSUME NEW r \in Requests, CreateWallets(r)
      PROVE  TypeOK'
  <2>1. Content \in SUBSET made
    BY ContentIsMade
  <2> QED
    BY <1>1, <2>1, WalletAssumption DEF TypeOK, CreateWallets, Goroutines
<1>2. ASSUME NEW r \in Requests, NEW account \in Accounts, Truncate(r, account)
      PROVE  TypeOK'
  <2>1. wallet' \in [Goroutines -> SUBSET made']
    BY <1>2 DEF TypeOK, Truncate, AddAccount, Goroutines
  <2>2. made' \subseteq Accounts /\ saved' \subseteq made'
    BY <1>2 DEF TypeOK, Truncate
  <2> QED
    BY <1>2, <2>1, <2>2, WalletAssumption DEF TypeOK, Truncate, Goroutines
<1>3. ASSUME NEW r \in Requests, Write(r)
      PROVE  TypeOK'
  BY <1>3, WalletAssumption DEF TypeOK, Write, Goroutines
<1>4. ASSUME NEW r \in Readers, LoadWallet(r)
      PROVE  TypeOK'
  BY <1>4 DEF TypeOK, LoadWallet
<1>5. ASSUME NEW r \in Goroutines, LoadFilePanics(r)
      PROVE  TypeOK'
  BY <1>5 DEF TypeOK, LoadFilePanics
<1>6. ASSUME NEW r \in Requests, SaveFilePanics(r)
      PROVE  TypeOK'
  BY <1>6, AbandonType DEF SaveFilePanics, Goroutines
<1>7. ASSUME NEW p \in Processes, Crash(p)
      PROVE  TypeOK'
  BY <1>7, AbandonType DEF Crash
<1>8. CASE UNCHANGED vars
  BY <1>8 DEF TypeOK, vars
<1> QED
  BY <1>1, <1>2, <1>3, <1>4, <1>5, <1>6, <1>7, <1>8 DEF Next

\* Nothing but generated keys is ever in the file or in a wallet, and what was
\* answered was generated.
THEOREM WalletTypeCorrect == Spec => []TypeOK
<1>1. Init => TypeOK
  BY TypeInit
<1>2. TypeOK /\ [Next]_vars => TypeOK'
  BY TypeStep
<1> QED
  BY <1>1, <1>2, PTL DEF Spec
-----------------------------------------------------------------------------
\* Only a writer that fails or dies leaves the file torn behind it, however
\* many write at once.
THEOREM TornFilesHaveWriters == Spec => []TornHasAWriter
<1>1. Init => TornHasAWriter
  BY WalletAssumption DEF Init, TornHasAWriter
<1>2. TypeOK /\ TornHasAWriter /\ [Next]_vars => TornHasAWriter'
  <2> SUFFICES ASSUME TypeOK, TornHasAWriter, [Next]_vars, file' = Torn, ~lost'
               PROVE  \E w \in Requests : pc'[w] = "saving"
    BY DEF TornHasAWriter, Saving
  <2>1. ASSUME NEW r \in Requests, CreateWallets(r)
        PROVE  \E w \in Requests : pc'[w] = "saving"
    BY <2>1 DEF CreateWallets, Decodes
  <2>2. ASSUME NEW r \in Requests, NEW account \in Accounts, Truncate(r, account)
        PROVE  \E w \in Requests : pc'[w] = "saving"
    <3>1. pc'[r] = "saving"
      BY <2>2 DEF TypeOK, Truncate, Goroutines
    <3> QED
      BY <3>1
  <2>3. ASSUME NEW r \in Requests, Write(r)
        PROVE  FALSE
    <3>1. wallet[r] \in SUBSET Accounts
      BY DEF TypeOK, Goroutines
    <3> QED
      BY <2>3, <3>1, WalletAssumption DEF Write
  <2>4. ASSUME NEW r \in Readers, LoadWallet(r)
        PROVE  FALSE
    BY <2>4 DEF LoadWallet, Decodes
  <2>5. ASSUME NEW r \in Goroutines, LoadFilePanics(r)
        PROVE  \E w \in Requests : pc'[w] = "saving"
    BY <2>5 DEF LoadFilePanics, TornHasAWriter, Saving
  <2>6. ASSUME NEW own \in SUBSET Goroutines, Abandon(own)
        PROVE  \E w \in Requests : pc'[w] = "saving"
    <3>1. ~lost /\ \A r \in own : pc[r] # "saving"
      BY <2>6 DEF Abandon
    <3>2. file' = file
      BY <2>6, <3>1 DEF Abandon
    <3>3. PICK w \in Requests : pc[w] = "saving"
      BY <3>1, <3>2 DEF TornHasAWriter, Saving
    <3>4. pc'[w] = "saving"
      BY <2>6, <3>1, <3>3 DEF Abandon, Goroutines
    <3> QED
      BY <3>4
  <2>7. ASSUME NEW r \in Requests, SaveFilePanics(r)
        PROVE  \E w \in Requests : pc'[w] = "saving"
    BY <2>6, <2>7 DEF SaveFilePanics, Goroutines
  <2>8. ASSUME NEW p \in Processes, Crash(p)
        PROVE  \E w \in Requests : pc'[w] = "saving"
    BY <2>6, <2>8 DEF Crash
  <2>9. CASE UNCHANGED vars
    BY <2>9 DEF vars, TornHasAWriter, Saving
  <2> QED
    BY <2>1, <2>2, <2>3, <2>4, <2>5, <2>7, <2>8, <2>9 DEF Next
<1> QED
  BY <1>1, <1>2, WalletTypeCorrect, PTL DEF Spec
-----------------------------------------------------------------------------
\* An abandoned torn file is never replaced by a request of any node.
THEOREM AbandonedFilesStay == Spec => TornForGood
<1>1. TypeOK /\ [Next]_vars => [Abandoned => Abandoned']_vars
  <2> SUFFICES ASSUME TypeOK, Next, Abandoned
               PROVE  Abandoned'
    OBVIOUS
  <2>1. \A r \in Goroutines : pc[r] = "idle"
    BY DEF Abandoned, TypeOK, Goroutines
  <2>2. ASSUME NEW r \in Requests
        PROVE  ~ CreateWallets(r) /\ ~ Write(r)
    BY DEF CreateWallets, Write, Decodes, Abandoned
  <2>3. ASSUME NEW r \in Requests, NEW account \in Accounts
        PROVE  ~ Truncate(r, account)
    BY DEF Truncate, Abandoned
  <2>4. ASSUME NEW r \in Readers
        PROVE  ~ LoadWallet(r)
    BY DEF LoadWallet, Decodes, Abandoned
  <2>5. ASSUME NEW own \in SUBSET Goroutines
        PROVE  ~ Abandon(own)
    BY <2>1 DEF Abandon
  <2>6. \A r \in Requests : ~ SaveFilePanics(r)
    BY <2>5 DEF SaveFilePanics, Goroutines
  <2>7. \A p \in Processes : ~ Crash(p)
    BY <2>5 DEF Crash
  <2>8. PICK r \in Goroutines : LoadFilePanics(r)
    BY <2>2, <2>3, <2>4, <2>6, <2>7 DEF Next
  <2> QED
    BY <2>8 DEF LoadFilePanics, Abandoned
<1> QED
  BY <1>1, WalletTypeCorrect, PTL DEF Spec, TornForGood
-----------------------------------------------------------------------------
\* A request that only reads is aborted while a writer is at work or after one
\* failed or died, and at no other time.
THEOREM AbortsHaveWriters == Spec => LoadWalletAnswers
<1>1. TypeOK /\ TornHasAWriter /\ [Next]_vars =>
        [\A r \in aborted' \ aborted : lost \/ Saving # {}]_vars
  <2> SUFFICES ASSUME TornHasAWriter, Next, NEW r \in aborted' \ aborted
               PROVE  lost \/ Saving # {}
    OBVIOUS
  <2>1. \E q \in Goroutines : LoadFilePanics(q)
    BY DEF Next, CreateWallets, Truncate, Write, SaveFilePanics, LoadWallet,
           Crash, Abandon
  <2> QED
    BY <2>1 DEF LoadFilePanics, Decodes, TornHasAWriter
<1> QED
  BY <1>1, WalletTypeCorrect, TornFilesHaveWriters, PTL DEF Spec, LoadWalletAnswers
-----------------------------------------------------------------------------
\* While none have overlapped one request at most is at work, the wallet it read
\* holds all that was answered, and so does the file unless it is torn.
OneAtATime ==
  ~overlapped =>
    /\ file # Torn => saved \subseteq Content
    /\ \A r \in Requests : pc[r] # "idle" => saved \subseteq wallet[r]
    /\ \A q, r \in Requests : pc[q] # "idle" /\ pc[r] # "idle" => q = r

\* Requests for new accounts that come one at a time, whatever is read, fails or
\* dies meanwhile, never lose an account that was answered.
THEOREM OneWriterLosesNothing == Spec => []OneAtATimeLosesNothing
<1>1. Init => OneAtATime
  BY DEF Init, OneAtATime, Goroutines
<1>2. TypeOK /\ OneAtATime /\ [Next]_vars => OneAtATime'
  <2> SUFFICES ASSUME TypeOK, OneAtATime, [Next]_vars, ~overlapped'
               PROVE  OneAtATime'
    BY DEF OneAtATime
  <2>0. \A r \in Requests : r \in Goroutines
    BY DEF Goroutines
  <2>1. ASSUME NEW r \in Requests, CreateWallets(r)
        PROVE  OneAtATime'
    <3>1. /\ wallet'[r] = Content /\ saved' = saved /\ file' = file /\ file # Torn
          /\ ~overlapped /\ \A q \in Requests \ {r} : pc'[q] = "idle"
      BY <2>0, <2>1 DEF TypeOK, CreateWallets, Decodes
    <3>2. saved \subseteq Content
      BY <3>1 DEF OneAtATime
    <3> QED
      BY <3>1, <3>2 DEF OneAtATime, Content
  <2>2. ASSUME NEW r \in Requests, NEW account \in Accounts, Truncate(r, account)
        PROVE  OneAtATime'
    <3>1. /\ wallet' = [wallet EXCEPT ![r] = wallet[r] \cup {account}]
          /\ pc' = [pc EXCEPT ![r] = "saving"] /\ pc[r] # "idle"
          /\ saved' = saved /\ file' = Torn /\ overlapped' = overlapped
      BY <2>2 DEF Truncate, AddAccount
    <3>2. \A q \in Requests : pc'[q] # "idle" =>
            pc[q] # "idle" /\ wallet[q] \subseteq wallet'[q]
      BY <2>0, <3>1 DEF TypeOK
    <3> QED
      BY <3>1, <3>2 DEF OneAtATime
  <2>3. ASSUME NEW r \in Requests, Write(r)
        PROVE  OneAtATime'
    <3>1. overlapped' = overlapped /\ pc[r] # "idle"
      BY <2>3 DEF Write
    <3>2. saved \subseteq wallet[r] /\ \A q \in Requests : pc[q] # "idle" => q = r
      BY <3>1 DEF OneAtATime
    <3>3. file' = wallet[r] /\ saved' = wallet[r]
      BY <2>3, <3>2 DEF Write
    <3>4. Content' = wallet[r]
      <4>1. wallet[r] \in SUBSET Accounts
        BY <2>0 DEF TypeOK
      <4> QED BY <3>3, <4>1, WalletAssumption DEF Content
    <3>5. \A q \in Requests : pc'[q] = "idle"
      BY <2>0, <2>3, <3>2 DEF TypeOK, Write
    <3> QED
      BY <3>3, <3>4, <3>5 DEF OneAtATime
  <2>4. ASSUME NEW r \in Readers, LoadWallet(r)
        PROVE  OneAtATime'
    BY <2>4 DEF LoadWallet, OneAtATime, Content
  <2>5. ASSUME NEW r \in Goroutines, LoadFilePanics(r)
        PROVE  OneAtATime'
    BY <2>5 DEF LoadFilePanics, OneAtATime, Content
  <2>6. ASSUME NEW own \in SUBSET Goroutines, Abandon(own)
        PROVE  OneAtATime'
    <3>1. saved' = saved /\ overlapped' = overlapped /\ (file' = file \/ file' = Torn)
      BY <2>6 DEF Abandon
    <3>2. \A q \in Requests : pc'[q] # "idle" => pc[q] # "idle" /\ wallet'[q] = wallet[q]
      BY <2>0, <2>6 DEF Abandon
    <3> QED
      BY <3>1, <3>2 DEF OneAtATime, Content
  <2>7. ASSUME NEW r \in Requests, SaveFilePanics(r)
        PROVE  OneAtATime'
    BY <2>0, <2>6, <2>7 DEF SaveFilePanics
  <2>8. ASSUME NEW p \in Processes, Crash(p)
        PROVE  OneAtATime'
    BY <2>6, <2>8 DEF Crash
  <2>9. CASE UNCHANGED vars
    BY <2>9 DEF vars, OneAtATime, Content
  <2> QED
    BY <2>1, <2>2, <2>3, <2>4, <2>5, <2>7, <2>8, <2>9 DEF Next
<1>3. OneAtATime => OneAtATimeLosesNothing
  BY DEF OneAtATime, OneAtATimeLosesNothing
<1> QED
  BY <1>1, <1>2, <1>3, WalletTypeCorrect, PTL DEF Spec
=============================================================================
