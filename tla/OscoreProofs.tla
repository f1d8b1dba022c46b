----------------------------- MODULE OscoreProofs -----------------------------
(***************************************************************************)
(* Proofs about OscoreExchange: its invariants, that without duplication   *)
(* no nonce is used for two plaintexts, and that it implements the channel *)
(* of RequestResponse.                                                     *)
(***************************************************************************)
EXTENDS OscoreExchange, FiniteSetTheorems, TLAPS

-----------------------------------------------------------------------------
(* The PIV. *)

\* The padded PIV has MAX_PIV_LEN bytes (create_nonce, nonce.c).
LEMMA PaddedPivType ==
    ASSUME NEW piv \in PIV
    PROVE  PaddedPiv(piv) \in [1..MAX_PIV_LEN -> Byte]
<1>1. Len(piv) \in Nat /\ MAX_PIV_LEN \in Nat /\ Radix >= 2 /\ Radix \in Nat
  BY PivAssumption DEF PIV
<1>2. ASSUME NEW i \in 1..MAX_PIV_LEN
      PROVE  (IF i <= MAX_PIV_LEN - Len(piv) THEN 0
              ELSE piv[i - (MAX_PIV_LEN - Len(piv))]) \in Byte
  <2>1. CASE i <= MAX_PIV_LEN - Len(piv)
    BY <1>1, <2>1 DEF Byte
  <2>2. CASE ~(i <= MAX_PIV_LEN - Len(piv))
    <3>1. i - (MAX_PIV_LEN - Len(piv)) \in 1..Len(piv)
      BY <1>1, <2>2
    <3>2. piv[i - (MAX_PIV_LEN - Len(piv))] \in Byte
      BY <3>1 DEF PIV
    <3> QED  BY <3>2, <2>2
  <2> QED  BY <2>1, <2>2
<1> QED  BY <1>2 DEF PaddedPiv

\* A sequence number whose PIV fits yields one (sender_seq_num2piv).
LEMMA PivType ==
    ASSUME NEW ssn \in Nat, FitsPiv(ssn)
    PROVE  sender_seq_num2piv(ssn) \in PIV
<1>1. \E w \in 1..SSN_LEN : Occupies(ssn, w)
  BY PivAssumption DEF FitsPiv
<1>2. SignificantBytes(ssn) \in 1..SSN_LEN
  BY <1>1 DEF SignificantBytes
<1>3. ASSUME NEW i \in 1..SignificantBytes(ssn)
      PROVE  ByteOf(ssn, i - 1) \in Byte
  <2>1. i - 1 \in 0..SSN_LEN /\ Weight[i - 1] \in Nat \ {0}
    BY <1>2, PivAssumption
  <2>2. ssn \div Weight[i - 1] \in Int
    BY <2>1
  <2>3. ByteOf(ssn, i - 1) \in 0..Radix - 1
    BY <2>2, PivAssumption DEF ByteOf
  <2> QED  BY <2>3 DEF Byte
<1>4. SignificantBytes(ssn) \in Nat
  BY <1>2, PivAssumption
<1> QED  BY <1>3, <1>4 DEF sender_seq_num2piv, PIV

\* Below Radix the PIV is the one byte of the sequence number.
LEMMA ShortPiv ==
    ASSUME NEW ssn \in Nat, ssn < Radix
    PROVE  /\ FitsPiv(ssn)
           /\ sender_seq_num2piv(ssn) = <<ssn>>
<1>1. Weight[1] = Radix /\ Weight[0] = 1 /\ 1 \in 1..SSN_LEN /\ 1 \in 1..MAX_PIV_LEN
  <2>1. 0 \in 0..SSN_LEN - 1 /\ 1 \in 1..SSN_LEN /\ 1 \in 1..MAX_PIV_LEN
    BY PivAssumption
  <2>2. Weight[0 + 1] = Radix * Weight[0] /\ Weight[0] = 1
    BY <2>1, PivAssumption
  <2> QED  BY <2>1, <2>2, PivAssumption
<1>2. Occupies(ssn, 1)
  BY <1>1 DEF Occupies
<1>3. ASSUME NEW w \in 1..SSN_LEN, Occupies(ssn, w)
      PROVE  w = 1
  <2>1. SUFFICES ASSUME w > 1 PROVE FALSE
    BY PivAssumption
  <2>2. 1 \in 1..w - 1
    BY <2>1, PivAssumption
  <2>3. ssn >= Radix
    BY <1>1, <1>3, <2>2 DEF Occupies
  <2> QED  BY <2>3, PivAssumption
<1>4. SignificantBytes(ssn) = 1
  BY <1>1, <1>2, <1>3 DEF SignificantBytes
<1>5. ByteOf(ssn, 0) = ssn
  <2>1. ByteOf(ssn, 0) = (ssn \div 1) % Radix
    BY <1>1 DEF ByteOf
  <2>2. ssn \div 1 = ssn
    OBVIOUS
  <2>3. ssn % Radix = ssn
    <3>1. Radix \in Nat \ {0}
      BY PivAssumption
    <3> QED  BY <3>1
  <2> QED  BY <2>1, <2>2, <2>3
<1>6. sender_seq_num2piv(ssn) = [i \in 1..1 |-> ssn]
  BY <1>4, <1>5 DEF sender_seq_num2piv
<1> QED  BY <1>1, <1>2, <1>6 DEF FitsPiv

-----------------------------------------------------------------------------
(* Different sequence numbers have different PIVs.                         *)

\* The interval below the least member of T is least among such intervals.
LEMMA LeastNumber ==
    ASSUME NEW T \in SUBSET Nat, T # {}
    PROVE  \E n \in T : \A m \in T : n <= m
<1> DEFINE I == { 0..n : n \in T }
<1>1. I \subseteq FiniteSubsetsOf(Nat) /\ I # {}
  <2>1. \A n \in T : 0..n \in SUBSET Nat /\ IsFiniteSet(0..n)
    BY FS_Interval
  <2> QED  BY <2>1 DEF FiniteSubsetsOf
<1>2. PICK x \in I : \A y \in I : <<y, x>> \notin StrictSubsetOrdering(Nat)
  <2> HIDE DEF I
  <2> QED  BY <1>1, WFMin, FS_StrictSubsetOrderingWellFounded
<1>3. PICK n \in T : x = 0..n
  OBVIOUS
<1>4. ASSUME NEW m \in T, m < n
      PROVE  FALSE
  <2>1. 0..m \subseteq 0..n /\ n \in 0..n /\ n \notin 0..m
    BY <1>4
  <2>2. <<0..m, 0..n>> \in (SUBSET Nat) \X (SUBSET Nat)
    OBVIOUS
  <2>3. <<0..m, 0..n>> \in StrictSubsetOrdering(Nat)
    BY <2>1, <2>2 DEF StrictSubsetOrdering
  <2> QED  BY <1>2, <1>3, <2>3
<1> QED  BY <1>4

\* What the higher bytes make, and one byte more.
LEMMA DivideTwice ==
    ASSUME NEW a \in Nat, NEW w \in Nat \ {0}, NEW R \in Nat \ {0}
    PROVE  (a \div w) \div R = a \div (R * w)
<1> DEFINE q == a \div w
           r == a % w
           t == q \div R
           u == q % R
<1>1. q \in Nat /\ r \in 0..w - 1 /\ a = w * q + r
  OBVIOUS
<1>2. t \in Nat /\ u \in 0..R - 1 /\ q = R * t + u
  <2> HIDE DEF q
  <2> QED  BY <1>1
<1> HIDE DEF q, r, t, u
<1>3. R * w \in Nat \ {0} /\ w * u \in Nat /\ w * t \in Nat
  BY ONLY <1>1, <1>2, w \in Nat \ {0}, R \in Nat \ {0}
<1>4. a = (R * w) * t + (w * u + r)
  BY ONLY <1>1, <1>2, w \in Nat \ {0}, R \in Nat \ {0}
<1>5. w * u + r < R * w
  <2>1. w * u <= w * (R - 1)
    BY ONLY <1>2, w \in Nat \ {0}, R \in Nat \ {0}
  <2>2. w * (R - 1) = R * w - w
    BY ONLY w \in Nat \ {0}, R \in Nat \ {0}
  <2> QED  BY ONLY <1>1, <1>3, <2>1, <2>2, w \in Nat \ {0}
<1>6. a \div (R * w) = t
  <2> DEFINE d == R * w
             e == w * u + r
  <2>1. d \in Nat \ {0} /\ e \in 0..d - 1 /\ a = d * t + e
    BY <1>1, <1>3, <1>4, <1>5
  <2> HIDE DEF d, e
  <2>2. a \div d = t
    BY ONLY <2>1, <1>2
  <2> QED  BY <2>2 DEF d
<1> QED  BY <1>6 DEF q, t

\* A number of at most w bytes is what its w bytes make: two with the same
\* bytes are one.
LEMMA SameBytes ==
    ASSUME NEW j \in Nat, NEW k \in Nat, NEW w \in 0..SSN_LEN,
           j < Weight[w], k < Weight[w],
           \A i \in 0..w - 1 : ByteOf(j, i) = ByteOf(k, i)
    PROVE  j = k
<1> DEFINE Same(i) == j \div Weight[i] = k \div Weight[i]
           Low == {i \in 0..w : Same(i)}
<1>0. w \in Nat /\ SSN_LEN \in Nat /\ Radix \in Nat \ {0}
      /\ \A i \in 0..SSN_LEN : Weight[i] \in Nat \ {0}
  BY PivAssumption
<1>1. w \in Low
  <2>1. Weight[w] \in Nat \ {0}
    BY <1>0
  <2>2. j \div Weight[w] = 0 /\ k \div Weight[w] = 0
    BY <2>1
  <2> QED  BY <1>0, <2>2
<1>2. PICK n \in Low : \A m \in Low : n <= m
  <2>1. Low \in SUBSET Nat /\ Low # {}
    BY <1>1
  <2> HIDE DEF Low
  <2> QED  BY <2>1, LeastNumber
<1>3. n = 0
  <2> SUFFICES ASSUME n # 0 PROVE FALSE
    OBVIOUS
  <2>1. n \in 1..w /\ n - 1 \in 0..w - 1 /\ n - 1 \in 0..SSN_LEN /\ n - 1 \in 0..SSN_LEN - 1
    BY <1>0, <1>2
  <2>2. Weight[n] = Radix * Weight[n - 1] /\ Weight[n - 1] \in Nat \ {0}
    <3>1. Weight[(n - 1) + 1] = Radix * Weight[n - 1]
      BY <2>1, PivAssumption
    <3> QED  BY <1>0, <2>1, <3>1
  <2> DEFINE p == j \div Weight[n - 1]
             q == k \div Weight[n - 1]
  <2>3. p \in Nat /\ q \in Nat
    BY <2>2
  <2>4. p \div Radix = q \div Radix
    <3>1. p \div Radix = j \div Weight[n] /\ q \div Radix = k \div Weight[n]
      BY <1>0, <2>2, DivideTwice
    <3>2. Same(n)
      BY <1>2
    <3> QED  BY <3>1, <3>2
  <2>5. p % Radix = q % Radix
    BY <2>1 DEF ByteOf
  <2> HIDE DEF p, q
  <2>6. p = Radix * (p \div Radix) + (p % Radix) /\ q = Radix * (q \div Radix) + (q % Radix)
    BY ONLY <1>0, <2>3
  <2>7. p = q
    BY <2>4, <2>5, <2>6
  <2>8. n - 1 \in Low
    BY <2>1, <2>7, <1>0 DEF p, q
  <2>9. n <= n - 1
    BY <1>2, <2>8
  <2> QED  BY <1>0, <2>1, <2>9
<1> QED
  <2>1. j \div 1 = k \div 1
    BY <1>2, <1>3, PivAssumption
  <2> QED  BY <2>1

\* The PIV of a sequence number that fits has 1 to MAX_PIV_LEN bytes, all that
\* the number occupies.
LEMMA PivLength ==
    ASSUME NEW ssn \in Nat, FitsPiv(ssn)
    PROVE  /\ SignificantBytes(ssn) \in 1..MAX_PIV_LEN
           /\ ssn < Weight[SignificantBytes(ssn)]
           /\ Len(sender_seq_num2piv(ssn)) = SignificantBytes(ssn)
           /\ DOMAIN sender_seq_num2piv(ssn) = 1..SignificantBytes(ssn)
<1> DEFINE w == SignificantBytes(ssn)
<1>0. MAX_PIV_LEN \in Nat /\ SSN_LEN \in Nat /\ MAX_PIV_LEN <= SSN_LEN
      /\ \A i \in 0..SSN_LEN : Weight[i] \in Nat
  BY PivAssumption
<1>1. PICK v \in 1..MAX_PIV_LEN : Occupies(ssn, v)
  BY DEF FitsPiv
<1>2. v \in 1..SSN_LEN
  BY <1>0
<1>3. w \in 1..SSN_LEN /\ Occupies(ssn, w)
  BY <1>1, <1>2 DEF SignificantBytes
<1>4. w <= v
  <2> SUFFICES ASSUME v < w PROVE FALSE
    BY <1>0, <1>3
  <2>1. v \in 1..w - 1
    BY <1>0, <1>3
  <2>2. ssn >= Weight[v] /\ ssn < Weight[v] /\ Weight[v] \in Nat
    BY <1>0, <1>1, <1>2, <1>3, <2>1 DEF Occupies
  <2> QED  BY <2>2
<1>5. w \in 1..MAX_PIV_LEN /\ ssn < Weight[w] /\ w \in Nat
  BY <1>0, <1>3, <1>4 DEF Occupies
<1> HIDE DEF w
<1>6. sender_seq_num2piv(ssn) = [i \in 1..w |-> ByteOf(ssn, i - 1)]
  BY DEF sender_seq_num2piv, w
<1> QED  BY <1>5, <1>6 DEF w

\* sender_seq_num2piv tells the sequence numbers that fit apart.
LEMMA PivInjective ==
    ASSUME NEW j \in Nat, NEW k \in Nat, FitsPiv(j), FitsPiv(k),
           sender_seq_num2piv(j) = sender_seq_num2piv(k)
    PROVE  j = k
<1> DEFINE w == SignificantBytes(j)
<1>1. /\ w \in 1..MAX_PIV_LEN /\ w = SignificantBytes(k)
      /\ j < Weight[w] /\ k < Weight[w]
  <2>1. /\ w \in 1..MAX_PIV_LEN /\ j < Weight[w]
        /\ Len(sender_seq_num2piv(j)) = w
    BY PivLength
  <2>2. /\ k < Weight[SignificantBytes(k)]
        /\ Len(sender_seq_num2piv(k)) = SignificantBytes(k)
    BY PivLength
  <2> QED  BY <2>1, <2>2
<1>2. ASSUME NEW i \in 0..w - 1
      PROVE  ByteOf(j, i) = ByteOf(k, i)
  <2>1. i + 1 \in 1..w /\ (i + 1) - 1 = i
    BY <1>1, PivAssumption
  <2>2. sender_seq_num2piv(j)[i + 1] = ByteOf(j, i)
    BY <2>1 DEF sender_seq_num2piv
  <2>3. sender_seq_num2piv(k)[i + 1] = ByteOf(k, i)
    BY <1>1, <2>1 DEF sender_seq_num2piv
  <2> QED  BY <2>2, <2>3
<1>3. w \in 0..SSN_LEN
  BY <1>1, PivAssumption
<1> HIDE DEF w
<1> QED  BY <1>1, <1>2, <1>3, SameBytes

\* create_nonce pads PIVs of one length to different bytes.
LEMMA PaddedPivInjective ==
    ASSUME NEW p \in PIV, NEW q \in PIV, Len(p) = Len(q), Len(p) <= MAX_PIV_LEN,
           PaddedPiv(p) = PaddedPiv(q)
    PROVE  p = q
<1> DEFINE z == MAX_PIV_LEN - Len(p)
           padded(x) == [i \in 1..MAX_PIV_LEN |-> IF i <= z THEN 0 ELSE x[i - z]]
<1>1. Len(p) \in Nat /\ z \in Nat /\ MAX_PIV_LEN = z + Len(p)
  BY PivAssumption DEF PIV
<1>2. padded(p) = padded(q)
  BY DEF PaddedPiv
<1>3. ASSUME NEW i \in 1..Len(p)
      PROVE  p[i] = q[i]
  <2> HIDE DEF z
  <2>1. z + i \in 1..MAX_PIV_LEN /\ ~(z + i <= z) /\ (z + i) - z = i
    BY <1>1
  <2>2. padded(p)[z + i] = p[i] /\ padded(q)[z + i] = q[i]
    BY <2>1
  <2> HIDE DEF padded
  <2> QED  BY <1>2, <2>2
<1> QED  BY <1>3 DEF PIV

-----------------------------------------------------------------------------
(* The types. *)

\* oscore_context_init yields a context.
LEMMA ContextInitType ==
    ASSUME NEW id \in Ids, NEW ms \in Secrets, NEW idc \in IdContexts
    PROVE  ContextInit(id, ms, idc) \in Contexts
BY DEF ContextInit, Contexts, CommonIV, Key, IVs, Keys, Peer, Ids

\* Computing nonce and AAD from a PIV and a common IV stays in the types.
LEMMA NonceAndAadType ==
    ASSUME NEW piv \in PIV, NEW iv \in IVs
    PROVE  create_nonce(piv, iv) \in Nonces /\ create_aad(piv) \in AADs
BY PaddedPivType DEF create_nonce, create_aad, Nonces, AADs

\* So does the last part of context_update.
LEMMA UpdateNonceAndAadType ==
    ASSUME NEW c \in Contexts, c.piv \in PIV
    PROVE  UpdateNonceAndAad(c) \in Contexts
<1>1. c.common_iv \in IVs
  BY DEF Contexts
<1> QED  BY <1>1, NonceAndAadType DEF UpdateNonceAndAad, Contexts

\* And so does deriving the keys and the common IV anew.
LEMMA RederiveType ==
    ASSUME NEW c \in Contexts, NEW idc \in IdContexts
    PROVE  /\ Rederive(c, ServerId, idc) \in Contexts
           /\ Rederive(c, ServerId, idc).piv = c.piv
<1>1. CommonIV(c.master_secret, idc) \in IVs
  BY DEF Contexts, CommonIV, IVs
<1>2. /\ Key(c.master_secret, idc, ServerId) \in Keys
      /\ Key(c.master_secret, idc, Peer(ServerId)) \in Keys
  BY DEF Contexts, Key, Keys, Peer, Ids
<1> QED  BY <1>1, <1>2 DEF Rederive, Contexts

\* context_update of the server yields a context, refused or not.
LEMMA ServerContextUpdateType ==
    ASSUME NEW c \in Contexts, NEW piv \in PIV, NEW idc \in IdContexts
    PROVE  ServerContextUpdate(c, piv, idc) \in Contexts
<1> DEFINE c1 == [c EXCEPT !.piv = piv]
           c2 == [c1 EXCEPT !.kid_context = IF FitsKidContext(idc) THEN idc ELSE @]
           c3 == Rederive(c2, ServerId, idc)
<1>1. c1 \in Contexts /\ c1.piv = piv
  BY DEF Contexts
<1>2. c2 \in Contexts /\ c2.piv = piv
  BY <1>1 DEF Contexts
<1>3. c3 \in Contexts /\ c3.piv = piv
  <2> HIDE DEF c2
  <2> QED  BY <1>2, RederiveType
<1>4. UpdateNonceAndAad(c1) \in Contexts /\ UpdateNonceAndAad(c3) \in Contexts
  BY <1>1, <1>3, UpdateNonceAndAadType
<1> QED  BY <1>2, <1>4 DEF ServerContextUpdate

\* The context of the client once coap2oscore has prepared a request.
PreparedClient ==
    UpdateNonceAndAad([cli EXCEPT !.sender_seq_num = @ + 1,
                                  !.piv = sender_seq_num2piv(cli.sender_seq_num)])

\* What a request leaves in the client's context.
LEMMA PreparedClientFields ==
    ASSUME cli \in Contexts, FitsPiv(cli.sender_seq_num)
    PROVE  /\ PreparedClient \in Contexts
           /\ PreparedClient = [cli EXCEPT
                !.sender_seq_num = cli.sender_seq_num + 1,
                !.piv   = sender_seq_num2piv(cli.sender_seq_num),
                !.nonce = create_nonce(sender_seq_num2piv(cli.sender_seq_num), cli.common_iv),
                !.aad   = create_aad(sender_seq_num2piv(cli.sender_seq_num))]
           /\ sender_seq_num2piv(cli.sender_seq_num) \in PIV
<1> DEFINE c == [cli EXCEPT !.sender_seq_num = @ + 1,
                            !.piv = sender_seq_num2piv(cli.sender_seq_num)]
<1>1. sender_seq_num2piv(cli.sender_seq_num) \in PIV
  BY PivType DEF Contexts
<1>2. c \in Contexts /\ c.piv \in PIV
  <2>1. cli.sender_seq_num + 1 \in Nat
    BY DEF Contexts
  <2> QED  BY <1>1, <2>1 DEF Contexts
<1>3. UpdateNonceAndAad(c) \in Contexts
  BY <1>2, UpdateNonceAndAadType
<1> QED  BY <1>1, <1>3 DEF PreparedClient, UpdateNonceAndAad, Contexts

\* The other client's packets are packets.
LEMMA StrayRequestType == StrayRequests \subseteq RequestPackets
<1>1. 0 < Radix /\ 0 \in Nat
  BY PivAssumption
<1>2. sender_seq_num2piv(0) \in PIV
  BY <1>1, ShortPiv, PivType
<1>3. RequestText(0) \in Plaintexts
  BY DEF RequestText, Plaintexts
<1> QED
  BY <1>2, <1>3 DEF StrayRequests, StrayRequest, RequestPackets, Ciphertexts, Seal

\* Delivering a packet adds none to those in flight.
LEMMA DeliverSubset ==
    ASSUME NEW S, NEW x
    PROVE  Deliver(S, x) \subseteq S
BY DEF Deliver

\* What a step of the server that receives a packet may change, whatever
\* oscore2coap returns.
LEMMA ReceiveChanges ==
    ASSUME TypeOK, NEW p \in toServer, Receive(p)
    PROVE  /\ srv' \in Contexts
           /\ toServer' \subseteq toServer
           /\ owed' \subseteq owed \cup {p.ct}
           /\ UNCHANGED <<toClient, sealed, restarts, client>>
<1>1. srv \in Contexts /\ p.piv \in PIV /\ p.kid_context \in IdContexts
  BY DEF TypeOK, RequestPackets
<1>2. ServerContextUpdate(srv, p.piv, p.kid_context) \in Contexts
  BY <1>1, ServerContextUpdateType
<1>3. Deliver(toServer, p) \subseteq toServer
  BY DeliverSubset
<1> QED
  BY <1>1, <1>2, <1>3
  DEF Receive, RefuseKid, RefuseIdContext, RefusePayload, AcceptRequest

\* Every step keeps the types.
LEMMA TypeStep == TypeOK /\ [Next]_vars => TypeOK'
<1> SUFFICES ASSUME TypeOK, [Next]_vars PROVE TypeOK'
  OBVIOUS
<1> USE DEF TypeOK
<1>1. CASE Request
  <2>1. cli \in Contexts /\ FitsPiv(cli.sender_seq_num) /\ ready
    BY <1>1 DEF Request
  <2> DEFINE c  == PreparedClient
             ct == Seal(c.sender_key, c.nonce, c.aad, RequestText(made + 1))
  <2>2. cli' = c /\ sealed' = sealed \cup {ct}
        /\ toServer' = toServer \cup {[kid |-> ClientId, kid_context |-> c.kid_context,
                                       piv |-> c.piv, ct |-> ct]}
    BY <1>1 DEF Request, PreparedClient
  <2>3. c \in Contexts /\ c.kid_context = cli.kid_context /\ c.piv \in PIV
    BY <2>1, PreparedClientFields DEF Contexts
  <2>4. made \in Nat /\ made + 1 \in 1..Requests
    BY <1>1, ExchangeAssumption DEF Request
  <2>5. ct \in Ciphertexts
    BY <2>3, <2>4 DEF Seal, Ciphertexts, Contexts, Keys, Plaintexts, RequestText
  <2>6. toServer' \subseteq RequestPackets
    BY <2>1, <2>2, <2>3, <2>5 DEF RequestPackets, Ids
  <2>7. made' = made + 1 /\ waiting' = made + 1
        /\ UNCHANGED <<ready, toClient, accepted, contexts, again, restarts, srv, owed>>
    BY <1>1 DEF Request, server
  <2>8. /\ made' \in 0..Requests /\ waiting' \in 0..made'
        /\ \A a \in accepted' : /\ a.request \in 1..made' /\ a.text \in Plaintexts
                              /\ a.reused \in BOOLEAN
    BY <2>4, <2>7
  <2>9. /\ ready' \in BOOLEAN
        /\ ready' => cli'.kid_context \in IdContexts
        /\ sealed' \subseteq Ciphertexts
    BY <2>1, <2>2, <2>3, <2>5, <2>7
  <2> QED  BY <2>2, <2>3, <2>6, <2>7, <2>8, <2>9
<1>2. CASE RequestRefused
  <2>1. cli' \in Contexts /\ cli'.kid_context = cli.kid_context
    BY <1>2 DEF RequestRefused, Contexts
  <2> QED  BY <1>2, <2>1 DEF RequestRefused, network, server
<1>3. ASSUME NEW ct \in toClient, TakeResponse(ct)
      PROVE  TypeOK'
  <2>1. toClient' \subseteq Ciphertexts
    BY <1>3, DeliverSubset DEF TakeResponse
  <2>2. waiting \in 1..made /\ ct.plaintext \in Plaintexts
    BY <1>3, ExchangeAssumption DEF TakeResponse, Ciphertexts
  <2>3. accepted' = accepted \cup {[request |-> waiting, text |-> ct.plaintext,
                                     reused |-> ClientReused]}
        /\ waiting' = 0
        /\ UNCHANGED <<cli, ready, toServer, made, contexts, again, sealed, restarts,
                       srv, owed>>
    BY <1>3 DEF TakeResponse, server
  <2>4. ClientReused \in BOOLEAN
    BY DEF ClientReused
  <2>5. \A a \in accepted' : /\ a.request \in 1..made /\ a.text \in Plaintexts
                            /\ a.reused \in BOOLEAN
    BY <2>2, <2>3, <2>4
  <2>6. waiting' \in 0..made
    BY <2>3, ExchangeAssumption
  <2> QED  BY <2>1, <2>3, <2>5, <2>6
<1>4. ASSUME NEW ct \in toClient, RejectResponse(ct)
      PROVE  TypeOK'
  BY <1>4, DeliverSubset DEF RejectResponse, client, server
<1>5. ASSUME NEW ct \in toClient, LoseResponse(ct)
      PROVE  TypeOK'
  BY <1>5 DEF LoseResponse, client, server
<1>6. CASE GiveUp
  <2>1. waiting' \in 0..made
    BY <1>6, ExchangeAssumption DEF GiveUp
  <2> QED  BY <1>6, <2>1 DEF GiveUp, network, server
<1>7. ASSUME NEW p \in toServer, Receive(p)
      PROVE  TypeOK'
  <2>1. owed' \subseteq Ciphertexts
    BY <1>7, ReceiveChanges DEF RequestPackets
  <2> QED  BY <1>7, <2>1, ReceiveChanges DEF client
<1>8. ASSUME NEW p \in toServer, LoseRequest(p)
      PROVE  TypeOK'
  BY <1>8 DEF LoseRequest, client, server
<1>9. ASSUME NEW ct \in owed, NEW v \in Answers, Respond(ct, v)
      PROVE  TypeOK'
  <2> DEFINE r == Seal(srv.sender_key, srv.nonce, srv.aad, ResponseText(ct.plaintext.of, v))
  <2>1. ct.plaintext.of \in Nat
    BY DEF Ciphertexts, Plaintexts
  <2>2. r \in Ciphertexts
    BY <2>1 DEF Seal, Ciphertexts, Contexts, Keys, Plaintexts, ResponseText
  <2> QED  BY <1>9, <2>2 DEF Respond, client
<1>10. ASSUME NEW ms \in Secrets, NEW idc \in IdContexts, RestartClient(ms, idc)
       PROVE  TypeOK'
  <2>1. ClientId \in Ids
    BY DEF Ids
  <2>2. cli' \in Contexts
    BY <1>10, <2>1, ContextInitType DEF RestartClient
  <2>3. ready' \in BOOLEAN /\ (ready' => cli'.kid_context \in IdContexts)
    BY <1>10 DEF RestartClient, ContextInit, InitFits
  <2>4. waiting' \in 0..made /\ restarts' \in 0..Restarts
    BY <1>10, ExchangeAssumption DEF RestartClient
  <2>5. contexts' \subseteq Secrets \X IdContexts /\ again' \subseteq contexts'
    BY <1>10 DEF RestartClient
  <2> QED  BY <1>10, <2>2, <2>3, <2>4, <2>5 DEF RestartClient, network, server
<1>11. ASSUME NEW ms \in Secrets, NEW idc \in IdContexts, RestartServer(ms, idc)
       PROVE  TypeOK'
  <2>1. srv' \in Contexts
    BY <1>11, ContextInitType DEF RestartServer, Ids
  <2>2. restarts' \in 0..Restarts
    BY <1>11, ExchangeAssumption DEF RestartServer
  <2> QED  BY <1>11, <2>1, <2>2 DEF RestartServer, network, client
<1>12. CASE UNCHANGED vars
  BY <1>12 DEF vars
<1> QED
  BY <1>1, <1>2, <1>3, <1>4, <1>5, <1>6, <1>7, <1>8, <1>9, <1>10, <1>11, <1>12
  DEF Next

\* The variables keep their types, in every behaviour of the exchange.
THEOREM TypeCorrect == Spec => []TypeOK
<1>1. Init => TypeOK
  <2> SUFFICES ASSUME Init PROVE TypeOK
    OBVIOUS
  <2>1. cli \in Contexts /\ srv \in Contexts
    BY ContextInitType DEF Init, Ids
  <2>2. ready \in BOOLEAN /\ (ready => cli.kid_context \in IdContexts)
    <3> PICK ms \in Secrets, idc \in IdContexts :
             cli = ContextInit(ClientId, ms, idc) /\ ready = InitFits(ClientId, idc)
      BY DEF Init
    <3>1. ready = (CtxLen[idc] <= MAX_KID_CONTEXT_LEN)
      BY DEF InitFits
    <3>2. ready => cli.kid_context = idc
      BY DEF ContextInit
    <3> QED  BY <3>1, <3>2
  <2>3. toServer \subseteq RequestPackets
    BY StrayRequestType DEF Init
  <2>4. made \in 0..Requests /\ waiting \in 0..made /\ restarts \in 0..Restarts
    BY ExchangeAssumption DEF Init
  <2> QED  BY <2>1, <2>2, <2>3, <2>4 DEF Init, TypeOK
<1> QED  BY <1>1, TypeStep, PTL DEF Spec

-----------------------------------------------------------------------------
(* The two contexts. *)

\* What ServerContextCoherent says of the server's context, of any context.
Coherent(c) ==
    /\ c.common_iv = CommonIV(c.master_secret, c.id_context)
    /\ c.sender_key = Key(c.master_secret, c.id_context, ServerId)
    /\ c.recipient_key = Key(c.master_secret, c.id_context, ClientId)
    /\ c.nonce = Unset <=> c.aad = Unset
    /\ c.nonce # Unset => c.nonce = create_nonce(c.aad.request_piv, c.common_iv)

\* context_update of the server keeps the context coherent, refused or not;
\* not refused, it adopts the ID Context and computes nonce and AAD from the
\* PIV received.
LEMMA ServerContextUpdateCoherent ==
    ASSUME NEW c \in Contexts, NEW piv \in PIV, NEW idc \in IdContexts,
           Coherent(c)
    PROVE  /\ Coherent(ServerContextUpdate(c, piv, idc))
           /\ ServerContextUpdate(c, piv, idc).master_secret = c.master_secret
           /\ UpdateSucceeds(c, idc) =>
                /\ ServerContextUpdate(c, piv, idc).id_context = idc
                /\ ServerContextUpdate(c, piv, idc).nonce =
                      create_nonce(piv, CommonIV(c.master_secret, idc))
                /\ ServerContextUpdate(c, piv, idc).aad = create_aad(piv)
<1> DEFINE kc  == IF FitsKidContext(idc) THEN idc ELSE c.kid_context
           iv  == CommonIV(c.master_secret, idc)
           new == ServerContextUpdate(c, piv, idc)
<1>1. Peer(ServerId) = ClientId
  BY ContextAssumption DEF Peer
<1>2. create_aad(piv).request_piv = piv
  BY DEF create_aad
<1>3. create_aad(piv) # Unset /\ create_nonce(piv, c.common_iv) # Unset
      /\ create_nonce(piv, iv) # Unset
  <2>1. c.common_iv \in IVs /\ iv \in IVs
    BY DEF Contexts, CommonIV, IVs
  <2> QED  BY <2>1, NonceAndAadType, UnsetAssumption
<1>4. CASE idc = c.id_context
  <2>1. new = [c EXCEPT !.piv = piv, !.nonce = create_nonce(piv, c.common_iv),
                        !.aad = create_aad(piv)]
    BY <1>4 DEF ServerContextUpdate, UpdateNonceAndAad, Contexts
  <2> HIDE DEF new
  <2>2. /\ new.master_secret = c.master_secret /\ new.id_context = c.id_context
        /\ new.common_iv = c.common_iv /\ new.sender_key = c.sender_key
        /\ new.recipient_key = c.recipient_key
        /\ new.nonce = create_nonce(piv, c.common_iv) /\ new.aad = create_aad(piv)
    BY <2>1 DEF Contexts
  <2>3. Coherent(new)
    BY <2>2, <1>2, <1>3 DEF Coherent
  <2> QED  BY <2>2, <2>3, <1>4 DEF Coherent, new
<1>5. CASE idc # c.id_context /\ UpdateSucceeds(c, idc)
  <2>1. new = [c EXCEPT !.piv = piv, !.kid_context = kc, !.id_context = idc,
                        !.common_iv = iv,
                        !.sender_key = Key(c.master_secret, idc, ServerId),
                        !.recipient_key = Key(c.master_secret, idc, ClientId),
                        !.nonce = create_nonce(piv, iv),
                        !.aad = create_aad(piv)]
    BY <1>1, <1>5 DEF ServerContextUpdate, UpdateNonceAndAad, Rederive, Contexts
  <2> HIDE DEF new
  <2>2. /\ new.master_secret = c.master_secret /\ new.id_context = idc
        /\ new.common_iv = iv
        /\ new.sender_key = Key(c.master_secret, idc, ServerId)
        /\ new.recipient_key = Key(c.master_secret, idc, ClientId)
        /\ new.nonce = create_nonce(piv, iv) /\ new.aad = create_aad(piv)
    BY <2>1 DEF Contexts
  <2>3. Coherent(new)
    BY <2>2, <1>2, <1>3 DEF Coherent
  <2> QED  BY <2>2, <2>3 DEF new
<1>6. CASE idc # c.id_context /\ ~UpdateSucceeds(c, idc)
  <2>1. new = [c EXCEPT !.piv = piv, !.kid_context = kc]
    BY <1>6 DEF ServerContextUpdate, Contexts
  <2> HIDE DEF new
  <2>2. /\ new.master_secret = c.master_secret /\ new.id_context = c.id_context
        /\ new.common_iv = c.common_iv /\ new.sender_key = c.sender_key
        /\ new.recipient_key = c.recipient_key
        /\ new.nonce = c.nonce /\ new.aad = c.aad
    BY <2>1 DEF Contexts
  <2> QED  BY <2>2, <1>6 DEF Coherent, new
<1> QED  BY <1>4, <1>5, <1>6

\* Each step keeps both contexts coherent.
LEMMA CoherentStep ==
    ASSUME TypeOK, ServerContextCoherent, ClientContextCoherent,
           [Next]_vars
    PROVE  ServerContextCoherent' /\ ClientContextCoherent'
<1>1. Coherent(srv)
  BY DEF ServerContextCoherent, Coherent
<1>2. ServerContextCoherent'
  <2>1. SUFFICES Coherent(srv')
    BY DEF ServerContextCoherent, Coherent
  <2>2. CASE UNCHANGED srv
    BY <1>1, <2>2
  <2>3. ASSUME NEW p \in toServer, Receive(p)
        PROVE  Coherent(srv')
    <3>1. srv \in Contexts /\ p.piv \in PIV /\ p.kid_context \in IdContexts
      BY DEF TypeOK, RequestPackets
    <3>2. srv' = srv \/ srv' = ServerContextUpdate(srv, p.piv, p.kid_context)
      BY <2>3 DEF Receive, RefuseKid, RefuseIdContext, RefusePayload, AcceptRequest
    <3> QED  BY <1>1, <3>1, <3>2, ServerContextUpdateCoherent
  <2>4. ASSUME NEW ms \in Secrets, NEW idc \in IdContexts, RestartServer(ms, idc)
        PROVE  Coherent(srv')
    <3>1. srv' = ContextInit(ServerId, ms, idc) /\ Peer(ServerId) = ClientId
      BY <2>4, ContextAssumption DEF RestartServer, Peer
    <3> QED  BY <3>1 DEF ContextInit, Coherent
  <2> QED
    BY <2>2, <2>3, <2>4
    DEF Next, vars, Request, RequestRefused, TakeResponse, RejectResponse,
        LoseResponse, GiveUp, LoseRequest, Respond, RestartClient, server
<1>3. ClientContextCoherent'
  <2>1. CASE UNCHANGED <<cli, ready, contexts>>
    BY <2>1 DEF ClientContextCoherent
  <2>2. CASE Request
    <3>1. cli \in Contexts /\ FitsPiv(cli.sender_seq_num)
      BY <2>2 DEF Request, TypeOK
    <3>2. cli' = PreparedClient
      BY <2>2 DEF Request, PreparedClient
    <3>3. /\ cli'.master_secret = cli.master_secret /\ cli'.id_context = cli.id_context
          /\ cli'.common_iv = cli.common_iv /\ cli'.sender_key = cli.sender_key
          /\ cli'.recipient_key = cli.recipient_key
          /\ cli'.kid_context = cli.kid_context
      BY <3>1, <3>2, PreparedClientFields DEF Contexts
    <3> QED  BY <2>2, <3>3 DEF Request, ClientContextCoherent
  <2>3. CASE RequestRefused
    <3>1. cli' = [cli EXCEPT !.sender_seq_num = @ + 1] /\ cli \in Contexts
      BY <2>3 DEF RequestRefused, TypeOK
    <3>2. /\ cli'.master_secret = cli.master_secret /\ cli'.id_context = cli.id_context
          /\ cli'.common_iv = cli.common_iv /\ cli'.sender_key = cli.sender_key
          /\ cli'.recipient_key = cli.recipient_key
          /\ cli'.kid_context = cli.kid_context
      BY <3>1 DEF Contexts
    <3> QED  BY <2>3, <3>2 DEF RequestRefused, ClientContextCoherent
  <2>4. ASSUME NEW ms \in Secrets, NEW idc \in IdContexts, RestartClient(ms, idc)
        PROVE  ClientContextCoherent'
    <3>1. /\ cli' = ContextInit(ClientId, ms, idc) /\ ready' = InitFits(ClientId, idc)
          /\ <<ms, idc>> \in contexts'
          /\ Peer(ClientId) = ServerId
      BY <2>4 DEF RestartClient, Peer
    <3> QED  BY <3>1 DEF ContextInit, ClientContextCoherent
  <2> QED
    BY <2>1, <2>2, <2>3, <2>4
    DEF Next, vars, TakeResponse, RejectResponse, LoseResponse, GiveUp, LoseRequest,
        Receive, RefuseKid, RefuseIdContext, RefusePayload, AcceptRequest,
        Respond, RestartServer, client
<1> QED  BY <1>2, <1>3

\* Keys, common IV, nonce and AAD of both endpoints always fit together,
\* whichever updates were refused half way.
THEOREM ContextsCoherent ==
    Spec => [](ServerContextCoherent /\ ClientContextCoherent)
<1>1. Init => ServerContextCoherent /\ ClientContextCoherent
  <2> SUFFICES ASSUME Init PROVE ServerContextCoherent /\ ClientContextCoherent
    OBVIOUS
  <2>1. Peer(ServerId) = ClientId /\ Peer(ClientId) = ServerId
    BY ContextAssumption DEF Peer
  <2> QED
    BY <2>1 DEF Init, ContextInit, ServerContextCoherent, ClientContextCoherent
<1>2. TypeOK /\ ServerContextCoherent /\ ClientContextCoherent /\ [Next]_vars
      => (ServerContextCoherent /\ ClientContextCoherent)'
  BY CoherentStep
<1> QED  BY <1>1, <1>2, TypeCorrect, PTL DEF Spec

-----------------------------------------------------------------------------
(* What is sealed, and what is in flight. *)

\* The PIV and the ciphertext of the request the client makes next.
NextPiv == sender_seq_num2piv(cli.sender_seq_num)

NextRequest ==
    Seal(cli.sender_key, create_nonce(NextPiv, cli.common_iv), create_aad(NextPiv),
         RequestText(made + 1))

\* The effect of coap2oscore for a request, field by field.
LEMMA RequestEffect ==
    ASSUME TypeOK, Request
    PROVE  /\ cli'.master_secret = cli.master_secret
           /\ cli'.id_context = cli.id_context
           /\ cli'.sender_key = cli.sender_key
           /\ cli'.recipient_key = cli.recipient_key
           /\ cli'.sender_seq_num = cli.sender_seq_num + 1
           /\ cli'.nonce = create_nonce(NextPiv, cli.common_iv)
           /\ cli'.aad = create_aad(NextPiv)
           /\ NextPiv \in PIV
           /\ sealed' = sealed \cup {NextRequest}
           /\ toServer' = toServer \cup
                {[kid |-> ClientId, kid_context |-> cli.kid_context, piv |-> NextPiv,
                  ct |-> NextRequest]}
           /\ made' = made + 1 /\ waiting' = made + 1 /\ ready
           /\ UNCHANGED <<ready, toClient, accepted, contexts, again, srv, owed>>
<1>1. cli \in Contexts /\ FitsPiv(cli.sender_seq_num)
  BY DEF Request, TypeOK
<1> DEFINE c == PreparedClient
<1>2. /\ cli' = c
      /\ sealed' = sealed \cup {Seal(c.sender_key, c.nonce, c.aad, RequestText(made + 1))}
      /\ toServer' = toServer \cup
            {[kid |-> ClientId, kid_context |-> c.kid_context, piv |-> c.piv,
              ct |-> Seal(c.sender_key, c.nonce, c.aad, RequestText(made + 1))]}
      /\ made' = made + 1 /\ waiting' = made + 1 /\ ready
      /\ UNCHANGED <<ready, toClient, accepted, contexts, again, srv, owed>>
  BY DEF Request, PreparedClient, server
<1>3. /\ c.master_secret = cli.master_secret /\ c.id_context = cli.id_context
      /\ c.sender_key = cli.sender_key /\ c.recipient_key = cli.recipient_key
      /\ c.sender_seq_num = cli.sender_seq_num + 1
      /\ c.nonce = create_nonce(NextPiv, cli.common_iv)
      /\ c.aad = create_aad(NextPiv)
      /\ c.piv = NextPiv /\ c.kid_context = cli.kid_context
      /\ NextPiv \in PIV
  BY <1>1, PreparedClientFields DEF Contexts, NextPiv
<1> HIDE DEF c
<1> QED  BY <1>2, <1>3 DEF NextRequest

\* A step seals nothing, the client's next request, or one response to a
\* request the server owes an answer to; ciphertexts are never forgotten.
LEMMA SealedGrows ==
    ASSUME TypeOK, [Next]_vars
    PROVE  \/ sealed' = sealed /\ ~Request
           \/ sealed' = sealed \cup {NextRequest} /\ Request
           \/ \E ct \in owed, v \in Answers :
                 /\ Respond(ct, v)
                 /\ sealed' = sealed \cup
                      {Seal(srv.sender_key, srv.nonce, srv.aad,
                            ResponseText(ct.plaintext.of, v))}
<1>1. CASE Request
  BY <1>1, RequestEffect
<1>2. ASSUME NEW ct \in owed, NEW v \in Answers, Respond(ct, v)
      PROVE  sealed' = sealed \cup {Seal(srv.sender_key, srv.nonce, srv.aad,
                                         ResponseText(ct.plaintext.of, v))}
  BY <1>2 DEF Respond
<1> QED
  BY <1>1, <1>2
  DEF Next, vars, RequestRefused, TakeResponse, RejectResponse, LoseResponse, GiveUp,
      Receive, RefuseKid, RefuseIdContext, RefusePayload, AcceptRequest,
      LoseRequest, RestartClient, RestartServer

\* The types tell requests and responses apart.
LEMMA TextTypes ==
    ASSUME NEW key, NEW nonce, NEW aad, NEW n, NEW v
    PROVE  /\ Seal(key, nonce, aad, RequestText(n)).plaintext.type = "request"
           /\ Seal(key, nonce, aad, ResponseText(n, v)).plaintext.type = "response"
           /\ "request" # "response"
BY DEF Seal, RequestText, ResponseText

\* How the sets of sealed requests and responses grow.
LEMMA SealedKinds ==
    ASSUME TypeOK, [Next]_vars
    PROVE  /\ SealedRequests' = SealedRequests \/
                 (SealedRequests' = SealedRequests \cup {NextRequest} /\ Request)
           /\ SealedResponses' = SealedResponses \/
                 \E ct \in owed, v \in Answers :
                    /\ Respond(ct, v)
                    /\ SealedResponses' = SealedResponses \cup
                         {Seal(srv.sender_key, srv.nonce, srv.aad,
                               ResponseText(ct.plaintext.of, v))}
           /\ Request => SealedRequests' = SealedRequests \cup {NextRequest}
<1>1. NextRequest.plaintext.type = "request"
  BY DEF NextRequest, Seal, RequestText
<1>2. CASE sealed' = sealed /\ ~Request
  BY <1>2 DEF SealedRequests, SealedResponses
<1>3. CASE sealed' = sealed \cup {NextRequest} /\ Request
  BY <1>1, <1>3 DEF SealedRequests, SealedResponses
<1>4. ASSUME NEW ct \in owed, NEW v \in Answers, Respond(ct, v),
             sealed' = sealed \cup {Seal(srv.sender_key, srv.nonce, srv.aad,
                                         ResponseText(ct.plaintext.of, v))}
      PROVE  /\ SealedRequests' = SealedRequests
             /\ SealedResponses' = SealedResponses \cup
                  {Seal(srv.sender_key, srv.nonce, srv.aad,
                        ResponseText(ct.plaintext.of, v))}
             /\ ~Request
  <2>1. ~Request
    <3>1. made' = made
      BY <1>4 DEF Respond, client
    <3> QED  BY <3>1 DEF TypeOK, Request
  <2> QED  BY <1>4, <2>1, TextTypes DEF SealedRequests, SealedResponses
<1> QED  BY <1>2, <1>3, <1>4, SealedGrows

\* Only a request adds packets for the server.
LEMMA ToServerShrinks ==
    ASSUME TypeOK, [Next]_vars, ~Request
    PROVE  toServer' \subseteq toServer
<1>1. ASSUME NEW p \in toServer, Receive(p)
      PROVE  toServer' \subseteq toServer
  BY <1>1, ReceiveChanges
<1> QED
  BY <1>1
  DEF Next, vars, RequestRefused, TakeResponse, RejectResponse, LoseResponse, GiveUp,
      LoseRequest, Respond, RestartClient, RestartServer, network

\* Every step keeps PacketsOfClient.
LEMMA PacketsStep ==
    ASSUME TypeOK, ClientContextCoherent, PacketsOfClient, [Next]_vars
    PROVE  PacketsOfClient'
<1>1. SealedRequests \subseteq SealedRequests'
  BY SealedKinds
<1>2. CASE ~Request
  BY <1>1, <1>2, ToServerShrinks DEF PacketsOfClient
<1>3. CASE Request
  <2> DEFINE p == [kid |-> ClientId, kid_context |-> cli.kid_context, piv |-> NextPiv,
                   ct |-> NextRequest]
  <2>1. toServer' = toServer \cup {p} /\ ready
    BY <1>3, RequestEffect
  <2>2. p.ct \in SealedRequests'
    BY <1>3, SealedKinds
  <2>3. cli.kid_context = cli.id_context
        /\ cli.sender_key = Key(cli.master_secret, cli.id_context, ClientId)
        /\ cli.common_iv = CommonIV(cli.master_secret, cli.id_context)
    BY <2>1 DEF ClientContextCoherent
  <2>4. p.ct.key.context = p.kid_context
        /\ p.ct.nonce = create_nonce(p.piv, CommonIV(p.ct.key.secret, p.kid_context))
        /\ p.ct.aad = create_aad(p.piv)
    BY <2>3 DEF NextRequest, Seal, Key
  <2> QED  BY <1>1, <2>1, <2>2, <2>4 DEF PacketsOfClient
<1> QED  BY <1>2, <1>3

\* A packet with the client's KID carries what its ciphertext was sealed with.
THEOREM PacketsAreOfClient == Spec => []PacketsOfClient
<1>1. Init => PacketsOfClient
  <2>1. \A p \in StrayRequests : p.kid = OtherId
    <3>1. \A ms, idc : StrayRequest(ms, idc).kid = OtherId
      BY DEF StrayRequest
    <3> QED  BY <3>1 DEF StrayRequests
  <2>2. Init => toServer \subseteq StrayRequests
    BY DEF Init
  <2> QED  BY <2>1, <2>2 DEF PacketsOfClient
<1>2. /\ TypeOK /\ ServerContextCoherent /\ ClientContextCoherent
      /\ PacketsOfClient /\ [Next]_vars
      => PacketsOfClient'
  BY PacketsStep
<1> QED  BY <1>1, <1>2, TypeCorrect, ContextsCoherent, PTL DEF Spec

\* oscore2coap accepts every genuine request in flight, whatever the server
\* received and refused before: the context it refuses a request with is one
\* the next context_update starts from as if nothing had happened.
THEOREM GenuineOpens == Spec => []GenuineRequestsOpen
<1>1. TypeOK /\ ServerContextCoherent /\ PacketsOfClient => GenuineRequestsOpen
  <2> SUFFICES ASSUME TypeOK, ServerContextCoherent, PacketsOfClient,
                      NEW p \in toServer, Genuine(p), FitsKidContext(p.kid_context)
               PROVE  LET c == ServerContextUpdate(srv, p.piv, p.kid_context)
                      IN  Opens(p.ct, c.recipient_key, c.nonce, c.aad)
    BY DEF GenuineRequestsOpen
  <2> DEFINE c == ServerContextUpdate(srv, p.piv, p.kid_context)
  <2>1. srv \in Contexts /\ p.piv \in PIV /\ p.kid_context \in IdContexts
        /\ Coherent(srv) /\ UpdateSucceeds(srv, p.kid_context)
    BY DEF TypeOK, RequestPackets, ServerContextCoherent, Coherent, Genuine, UpdateSucceeds
  <2>2. /\ Coherent(c) /\ c.master_secret = srv.master_secret
        /\ c.id_context = p.kid_context
        /\ c.nonce = create_nonce(p.piv, CommonIV(srv.master_secret, p.kid_context))
        /\ c.aad = create_aad(p.piv)
    BY <2>1, ServerContextUpdateCoherent
  <2> HIDE DEF c
  <2>3. c.recipient_key = Key(srv.master_secret, p.kid_context, ClientId)
    BY <2>2 DEF Coherent
  <2>4. p.ct.key = Key(srv.master_secret, p.kid_context, ClientId) /\ p.kid = ClientId
    BY DEF Genuine
  <2>5. p.ct.key.secret = srv.master_secret
    BY <2>4 DEF Key
  <2>6. p.kid # OtherId
    BY <2>4, ExchangeAssumption DEF Ids
  <2>7. p.ct.nonce = c.nonce /\ p.ct.aad = c.aad
    BY <2>2, <2>5, <2>6 DEF PacketsOfClient
  <2> QED  BY <2>3, <2>4, <2>7 DEF Opens, c
<1> QED  BY <1>1, TypeCorrect, ContextsCoherent, PacketsAreOfClient, PTL

-----------------------------------------------------------------------------
(* Nonces. *)

\* A context of the client is fresh as long as the client was initialised
\* with it once.
Fresh(ct) == <<ct.key.secret, ct.key.context>> \notin again

\* What is known of the client's next request.
LEMMA NextRequestFields ==
    ASSUME TypeOK, ClientContextCoherent, Request
    PROVE  /\ FitsPiv(cli.sender_seq_num) /\ cli.sender_seq_num \in Nat
           /\ NextPiv \in PIV /\ Len(NextPiv) \in 1..MAX_PIV_LEN
           /\ NextRequest.key = cli.sender_key
           /\ NextRequest.key.id = ClientId
           /\ NextRequest.key.secret = cli.master_secret
           /\ NextRequest.key.context = cli.id_context
           /\ NextRequest.aad = create_aad(NextPiv)
           /\ NextRequest.aad.request_piv = NextPiv
           /\ NextRequest.aad # Unset
           /\ NextRequest.nonce =
                create_nonce(NextPiv, CommonIV(cli.master_secret, cli.id_context))
<1>1. FitsPiv(cli.sender_seq_num) /\ cli.sender_seq_num \in Nat
  BY DEF Request, TypeOK, Contexts
<1>2. NextPiv \in PIV /\ Len(NextPiv) \in 1..MAX_PIV_LEN
  BY <1>1, PivType, PivLength DEF NextPiv
<1>3. cli.common_iv \in IVs
  BY DEF TypeOK, Contexts
<1>4. create_aad(NextPiv) # Unset
  BY <1>2, <1>3, NonceAndAadType, UnsetAssumption
<1> QED
  BY <1>1, <1>2, <1>4
  DEF NextRequest, Seal, ClientContextCoherent, Key, create_aad

\* A request made with a fresh context has another PIV than those before it,
\* and another nonce than those before it with a PIV of its length.
LEMMA NewPiv ==
    ASSUME TypeOK, ClientContextCoherent, RequestsSealedBefore, Request,
           NEW d \in SealedRequests, d.key = NextRequest.key, Fresh(d)
    PROVE  /\ d.aad # NextRequest.aad
           /\ d.nonce = NextRequest.nonce =>
                 Len(d.aad.request_piv) # Len(NextRequest.aad.request_piv)
<1> DEFINE n == cli.sender_seq_num
           p == d.aad.request_piv
<1>1. /\ FitsPiv(n) /\ n \in Nat /\ NextPiv \in PIV
      /\ NextRequest.key = cli.sender_key
      /\ NextRequest.aad.request_piv = NextPiv
      /\ NextRequest.nonce =
           create_nonce(NextPiv, CommonIV(cli.master_secret, cli.id_context))
  BY NextRequestFields
<1>2. /\ Len(p) \in 1..MAX_PIV_LEN
      /\ d.nonce = create_nonce(p, CommonIV(d.key.secret, d.key.context))
  BY DEF RequestsSealedBefore
<1>3. PICK k \in 0..n - 1 : FitsPiv(k) /\ p = sender_seq_num2piv(k)
  BY <1>1 DEF RequestsSealedBefore, Fresh
<1>4. k \in Nat /\ k # n
  BY <1>1, <1>3
<1>5. p # NextPiv
  BY <1>1, <1>3, <1>4, PivInjective DEF NextPiv
<1>6. p \in PIV
  BY <1>3, <1>4, PivType
<1>7. ASSUME d.nonce = NextRequest.nonce, Len(p) = Len(NextPiv)
      PROVE  FALSE
  <2>1. PaddedPiv(p) = PaddedPiv(NextPiv)
    BY <1>1, <1>2, <1>7 DEF create_nonce
  <2>2. Len(p) <= MAX_PIV_LEN
    BY <1>2, PivAssumption
  <2> HIDE DEF p
  <2> QED  BY <1>1, <1>5, <1>6, <1>7, <2>1, <2>2, PaddedPivInjective
<1> QED  BY <1>1, <1>5, <1>7

\* Each step keeps what is known of the requests sealed before, and seals
\* none with an old nonce.
LEMMA NoncesStep ==
    ASSUME TypeOK, ClientContextCoherent, RequestsSealedBefore, RequestNoncesDiffer,
           [Next]_vars
    PROVE  RequestsSealedBefore' /\ RequestNoncesDiffer'
<1>1. cli.sender_seq_num \in Nat
  BY DEF TypeOK, Contexts
<1>2. CASE Request
  <2> DEFINE n == cli.sender_seq_num
             ct == NextRequest
  <2>1. SealedRequests' = SealedRequests \cup {ct}
    BY <1>2, SealedKinds
  <2>2. /\ cli'.sender_key = cli.sender_key /\ cli'.sender_seq_num = n + 1
        /\ contexts' = contexts /\ again' = again
    BY <1>2, RequestEffect
  <2>3. /\ FitsPiv(n) /\ Len(NextPiv) \in 1..MAX_PIV_LEN
        /\ ct.key = cli.sender_key /\ ct.key.id = ClientId
        /\ ct.key.secret = cli.master_secret /\ ct.key.context = cli.id_context
        /\ ct.aad.request_piv = NextPiv /\ ct.aad # Unset
        /\ ct.nonce = create_nonce(NextPiv, CommonIV(cli.master_secret, cli.id_context))
    BY <1>2, NextRequestFields
  <2>4. ASSUME NEW d \in SealedRequests, d.key = ct.key, Fresh(d)
        PROVE  /\ d.aad # ct.aad
               /\ d.nonce = ct.nonce => Len(d.aad.request_piv) # Len(ct.aad.request_piv)
    BY <1>2, <2>4, NewPiv
  <2> HIDE DEF ct
  <2>5. RequestNoncesDiffer'
    <3> SUFFICES ASSUME NEW c \in SealedRequests', NEW d \in SealedRequests',
                        c.key = d.key, c.plaintext # d.plaintext,
                        <<c.key.secret, c.key.context>> \notin again'
                 PROVE  /\ c.aad # d.aad
                        /\ c.nonce = d.nonce =>
                              Len(c.aad.request_piv) # Len(d.aad.request_piv)
      BY DEF RequestNoncesDiffer
    <3>1. Fresh(c) /\ Fresh(d)
      BY <2>2 DEF Fresh
    <3>2. CASE c \in SealedRequests /\ d \in SealedRequests
      BY <3>1, <3>2 DEF RequestNoncesDiffer, Fresh
    <3>3. CASE c \in SealedRequests /\ d = ct
      BY <2>4, <3>1, <3>3
    <3>4. CASE c = ct /\ d \in SealedRequests
      BY <2>4, <3>1, <3>4
    <3> QED  BY <2>1, <3>2, <3>3, <3>4
  <2>6. ASSUME NEW d \in SealedRequests'
        PROVE  /\ d.key.id = ClientId
               /\ <<d.key.secret, d.key.context>> \in contexts'
               /\ d.aad # Unset /\ Len(d.aad.request_piv) \in 1..MAX_PIV_LEN
               /\ d.nonce = create_nonce(d.aad.request_piv,
                                         CommonIV(d.key.secret, d.key.context))
               /\ d.key = cli'.sender_key =>
                     \/ <<d.key.secret, d.key.context>> \in again'
                     \/ \E k \in 0..cli'.sender_seq_num - 1 :
                           FitsPiv(k) /\ d.aad.request_piv = sender_seq_num2piv(k)
    <3>1. CASE d = ct
      <4>1. n \in 0..cli'.sender_seq_num - 1
        BY <1>1, <2>2
      <4>2. <<d.key.secret, d.key.context>> \in contexts'
        BY <2>2, <2>3, <3>1 DEF ClientContextCoherent
      <4>3. FitsPiv(n) /\ d.aad.request_piv = sender_seq_num2piv(n)
        BY <2>3, <3>1 DEF NextPiv
      <4> HIDE DEF n
      <4> QED  BY <2>3, <3>1, <4>1, <4>2, <4>3
    <3>2. CASE d \in SealedRequests
      <4>1. /\ d.key.id = ClientId
            /\ <<d.key.secret, d.key.context>> \in contexts
            /\ d.aad # Unset /\ Len(d.aad.request_piv) \in 1..MAX_PIV_LEN
            /\ d.nonce = create_nonce(d.aad.request_piv,
                                      CommonIV(d.key.secret, d.key.context))
            /\ d.key = cli.sender_key =>
                  \/ <<d.key.secret, d.key.context>> \in again
                  \/ \E k \in 0..n - 1 :
                        FitsPiv(k) /\ d.aad.request_piv = sender_seq_num2piv(k)
        BY <3>2 DEF RequestsSealedBefore
      <4>2. \A k \in 0..n - 1 : k \in 0..cli'.sender_seq_num - 1
        BY <1>1, <2>2
      <4> QED  BY <2>2, <4>1, <4>2
    <3> QED  BY <2>1, <3>1, <3>2
  <2> QED  BY <2>5, <2>6 DEF RequestsSealedBefore
<1>3. CASE ~Request
  <2>1. SealedRequests' = SealedRequests
    BY <1>3, SealedKinds
  <2>2. ASSUME UNCHANGED <<cli, contexts, again>>
        PROVE  RequestsSealedBefore' /\ RequestNoncesDiffer'
    BY <2>1, <2>2 DEF RequestsSealedBefore, RequestNoncesDiffer
  <2>3. ASSUME RequestRefused
        PROVE  RequestsSealedBefore' /\ RequestNoncesDiffer'
    <3>1. UNCHANGED <<contexts, again>> /\ cli' = [cli EXCEPT !.sender_seq_num = @ + 1]
      BY <2>3 DEF RequestRefused
    <3>2. cli'.sender_key = cli.sender_key /\ cli'.sender_seq_num = cli.sender_seq_num + 1
      BY <3>1 DEF TypeOK, Contexts
    <3>3. \A k \in 0..cli.sender_seq_num - 1 : k \in 0..cli'.sender_seq_num - 1
      BY <1>1, <3>2
    <3> QED  BY <2>1, <3>1, <3>2, <3>3 DEF RequestsSealedBefore, RequestNoncesDiffer
  <2>4. ASSUME NEW ms \in Secrets, NEW idc \in IdContexts, RestartClient(ms, idc)
        PROVE  RequestsSealedBefore' /\ RequestNoncesDiffer'
    <3>1. /\ cli' = ContextInit(ClientId, ms, idc)
          /\ contexts' = contexts \cup {<<ms, idc>>}
          /\ again' = again \cup (contexts \cap {<<ms, idc>>})
      BY <2>4 DEF RestartClient
    <3>2. cli'.sender_key = Key(ms, idc, ClientId)
      BY <3>1 DEF ContextInit
    <3>3. ASSUME NEW d \in SealedRequests, d.key = cli'.sender_key
          PROVE  <<d.key.secret, d.key.context>> \in again'
      <4>1. <<d.key.secret, d.key.context>> \in contexts
        BY DEF RequestsSealedBefore
      <4> QED  BY <3>1, <3>2, <3>3, <4>1 DEF Key
    <3> QED  BY <2>1, <3>1, <3>3 DEF RequestsSealedBefore, RequestNoncesDiffer
  <2> QED
    BY <1>3, <2>2, <2>3, <2>4
    DEF Next, vars, TakeResponse, RejectResponse, LoseResponse, GiveUp, LoseRequest,
        Receive, RefuseKid, RefuseIdContext, RefusePayload, AcceptRequest,
        Respond, RestartServer, client
<1> QED  BY <1>2, <1>3

\* With any number of requests and restarts: requests of one key have
\* different PIVs, and their nonces differ but for PIVs of different lengths
\* (from the second byte on the bytes of the PIV are padded on the wrong side,
\* see NoncePivInNetworkOrder), as long as the client was not initialised
\* again with the secret and the ID Context of that key.
THEOREM RequestNonces == Spec => [](RequestsSealedBefore /\ RequestNoncesDiffer)
<1>1. Init => RequestsSealedBefore /\ RequestNoncesDiffer
  <2>1. Init => SealedRequests = {} /\ again = {}
    BY DEF Init, SealedRequests
  <2> QED  BY <2>1 DEF RequestsSealedBefore, RequestNoncesDiffer
<1>2. /\ TypeOK /\ ServerContextCoherent /\ ClientContextCoherent
      /\ RequestsSealedBefore /\ RequestNoncesDiffer /\ [Next]_vars
      => (RequestsSealedBefore /\ RequestNoncesDiffer)'
  BY NoncesStep
<1> QED  BY <1>1, <1>2, TypeCorrect, ContextsCoherent, PTL DEF Spec

\* While there are no more requests than a byte has values, their PIVs have
\* one byte.
ShortPivs ==
    /\ cli.sender_seq_num <= made
    /\ \A ct \in SealedRequests : Len(ct.aad.request_piv) = 1

LEMMA ShortPivsStep ==
    ASSUME Requests <= Radix, TypeOK, ClientContextCoherent, ShortPivs, [Next]_vars
    PROVE  ShortPivs'
<1>1. cli.sender_seq_num \in Nat /\ made \in 0..Requests /\ Requests \in Nat /\ Radix \in Nat
  BY ExchangeAssumption, PivAssumption DEF TypeOK, Contexts
<1>2. CASE Request
  <2>1. made < Requests /\ made' = made + 1 /\ cli'.sender_seq_num = cli.sender_seq_num + 1
    BY <1>2, RequestEffect DEF Request
  <2>2. NextPiv = <<cli.sender_seq_num>>
    BY <1>1, <2>1, ShortPiv DEF NextPiv, ShortPivs
  <2>3. NextRequest.aad.request_piv = NextPiv
    BY <1>2, NextRequestFields
  <2>4. SealedRequests' = SealedRequests \cup {NextRequest}
    BY <1>2, SealedKinds
  <2>5. Len(<<cli.sender_seq_num>>) = 1
    OBVIOUS
  <2> QED  BY <1>1, <2>1, <2>2, <2>3, <2>4, <2>5 DEF ShortPivs
<1>3. CASE ~Request
  <2>1. SealedRequests' = SealedRequests
    BY <1>3, SealedKinds
  <2>2. ~RequestRefused
    <3> SUFFICES ASSUME RequestRefused PROVE FALSE
      OBVIOUS
    <3>1. ~FitsPiv(cli.sender_seq_num) /\ made < Requests
      BY DEF RequestRefused
    <3>2. cli.sender_seq_num < Radix
      BY <1>1, <3>1 DEF ShortPivs
    <3> QED  BY <1>1, <3>1, <3>2, ShortPiv
  <2>3. ASSUME UNCHANGED <<cli, made>>
        PROVE  ShortPivs'
    BY <2>1, <2>3 DEF ShortPivs
  <2>4. ASSUME NEW ms \in Secrets, NEW idc \in IdContexts, RestartClient(ms, idc)
        PROVE  ShortPivs'
    <3>1. cli'.sender_seq_num = 0 /\ made' = made
      BY <2>4 DEF RestartClient, ContextInit
    <3> QED  BY <1>1, <2>1, <3>1 DEF ShortPivs
  <2> QED
    BY <1>3, <2>2, <2>3, <2>4
    DEF Next, vars, TakeResponse, RejectResponse, LoseResponse, GiveUp, LoseRequest,
        Receive, RefuseKid, RefuseIdContext, RefusePayload, AcceptRequest,
        Respond, RestartServer, client
<1> QED  BY <1>2, <1>3

LEMMA PivsAreShort ==
    ASSUME MAX_PIV_LEN = 1 \/ Requests <= Radix
    PROVE  Spec => [](\A ct \in SealedRequests : Len(ct.aad.request_piv) = 1)
<1>1. CASE MAX_PIV_LEN = 1
  <2>1. RequestsSealedBefore => \A ct \in SealedRequests : Len(ct.aad.request_piv) = 1
    <3>1. \A n \in 1..MAX_PIV_LEN : n = 1
      BY <1>1
    <3> QED  BY <3>1 DEF RequestsSealedBefore
  <2> QED  BY <2>1, RequestNonces, PTL
<1>2. CASE Requests <= Radix
  <2>1. Init => ShortPivs
    BY DEF Init, ContextInit, ShortPivs, SealedRequests
  <2>2. /\ TypeOK /\ ServerContextCoherent /\ ClientContextCoherent /\ ShortPivs
        /\ [Next]_vars
        => ShortPivs'
    BY <1>2, ShortPivsStep
  <2>3. ShortPivs => \A ct \in SealedRequests : Len(ct.aad.request_piv) = 1
    BY DEF ShortPivs
  <2> QED  BY <2>1, <2>2, <2>3, TypeCorrect, ContextsCoherent, PTL DEF Spec
<1> QED  BY <1>1, <1>2

-----------------------------------------------------------------------------
(* Requests and their answers. *)

\* A server that answers before it receives again owes at most one answer,
\* and its rrc is that of the request it owes it to.
LEMMA RrcStep ==
    ASSUME ~Pipelined, TypeOK, PacketsOfClient, OwedWereSealed, RrcPersists, [Next]_vars
    PROVE  OwedWereSealed' /\ RrcPersists'
<1>1. SealedRequests \subseteq SealedRequests'
  BY SealedKinds
<1>2. CASE UNCHANGED <<srv, owed>>
  BY <1>1, <1>2 DEF OwedWereSealed, RrcPersists
<1>3. ASSUME NEW p \in toServer, Receive(p)
      PROVE  OwedWereSealed' /\ RrcPersists'
  <2>1. owed = {}
    BY <1>3 DEF Receive, RefuseKid, RefuseIdContext, RefusePayload, AcceptRequest, MayReceive
  <2>2. CASE AcceptRequest(p)
    <3>1. owed' = {p.ct} /\ p.kid = Peer(ServerId)
          /\ Opens(p.ct, srv'.recipient_key, srv'.nonce, srv'.aad)
      BY <2>1, <2>2 DEF AcceptRequest
    <3>2. p.kid # OtherId
      BY <3>1, ExchangeAssumption DEF Ids, Peer
    <3>3. p.ct \in SealedRequests
      BY <3>2 DEF PacketsOfClient
    <3> QED  BY <1>1, <3>1, <3>3 DEF OwedWereSealed, RrcPersists, Opens
  <2>3. CASE ~AcceptRequest(p)
    <3>1. owed' = {}
      BY <1>3, <2>1, <2>3 DEF Receive, RefuseKid, RefuseIdContext, RefusePayload
    <3> QED  BY <3>1 DEF OwedWereSealed, RrcPersists
  <2> QED  BY <2>2, <2>3
<1>4. ASSUME NEW ct \in owed, NEW v \in Answers, Respond(ct, v)
      PROVE  OwedWereSealed' /\ RrcPersists'
  BY <1>1, <1>4 DEF Respond, OwedWereSealed, RrcPersists
<1>5. ASSUME NEW ms \in Secrets, NEW idc \in IdContexts, RestartServer(ms, idc)
      PROVE  OwedWereSealed' /\ RrcPersists'
  BY <1>5 DEF RestartServer, OwedWereSealed, RrcPersists
<1> QED
  BY <1>2, <1>3, <1>4, <1>5
  DEF Next, vars, Request, RequestRefused, TakeResponse, RejectResponse, LoseResponse,
      GiveUp, LoseRequest, RestartClient, server

\* The request-response context persists from a request to its response,
\* when the server application answers one request before it receives the
\* next (the sample server's loop).
THEOREM RrcPersistsWhenSequential ==
    ASSUME ~Pipelined
    PROVE  Spec => [](OwedWereSealed /\ RrcPersists)
<1>1. Init => OwedWereSealed /\ RrcPersists
  BY DEF Init, OwedWereSealed, RrcPersists
<1>2. TypeOK /\ PacketsOfClient /\ OwedWereSealed /\ RrcPersists /\ [Next]_vars
      => (OwedWereSealed /\ RrcPersists)'
  BY RrcStep
<1> QED  BY <1>1, <1>2, TypeCorrect, PacketsAreOfClient, PTL DEF Spec

\* Every step of a sequential server keeps the pairing of requests and
\* responses, and of the client's rrc with the request it waits for.
LEMMA PairingStep ==
    ASSUME TypeOK, ServerContextCoherent, OwedWereSealed, RrcPersists,
           ResponsesPaired, ClientAwaits, [Next]_vars
    PROVE  ResponsesPaired' /\ ClientAwaits'
<1>1. SealedRequests \subseteq SealedRequests' /\ SealedResponses \subseteq SealedResponses'
  BY SealedKinds
<1>2. ASSUME NEW ct \in owed, NEW v \in Answers, Respond(ct, v)
      PROVE  ResponsesPaired'
  <2> DEFINE r == Seal(srv.sender_key, srv.nonce, srv.aad, ResponseText(ct.plaintext.of, v))
  <2>1. ct \in SealedRequests /\ srv.nonce = ct.nonce /\ srv.aad = ct.aad
        /\ srv.recipient_key = ct.key
    BY DEF OwedWereSealed, RrcPersists
  <2>2. /\ r.plaintext.of = ct.plaintext.of
        /\ r.nonce = ct.nonce /\ r.aad = ct.aad
        /\ r.key = Key(ct.key.secret, ct.key.context, ServerId)
    BY <2>1 DEF Seal, ResponseText, ServerContextCoherent, Key
  <2>3. sealed' = sealed \cup {r} /\ toClient' = toClient \cup {r}
    BY <1>2 DEF Respond
  <2>4. r.plaintext.type = "response"
    BY DEF Seal, ResponseText
  <2>5. SealedResponses' = SealedResponses \cup {r}
    BY <2>3, <2>4 DEF SealedResponses
  <2> HIDE DEF r
  <2> QED  BY <1>1, <2>1, <2>2, <2>3, <2>5 DEF ResponsesPaired
<1>3. ASSUME \A ct \in owed, v \in Answers : ~Respond(ct, v)
      PROVE  ResponsesPaired'
  <2>1. SealedResponses' = SealedResponses
    BY <1>3, SealedKinds
  <2>2. toClient' \subseteq toClient
    <3>1. ASSUME NEW p \in toServer, Receive(p)
          PROVE  toClient' = toClient
      BY <3>1, ReceiveChanges
    <3>2. ASSUME NEW ct \in toClient, TakeResponse(ct) \/ RejectResponse(ct)
          PROVE  toClient' \subseteq toClient
      BY <3>2, DeliverSubset DEF TakeResponse, RejectResponse
    <3> QED
      BY <1>3, <3>1, <3>2
      DEF Next, vars, Request, RequestRefused, LoseResponse, GiveUp, LoseRequest,
          RestartClient, RestartServer, network
  <2> QED  BY <1>1, <2>1, <2>2 DEF ResponsesPaired
<1>4. ClientAwaits'
  <2>1. CASE Request
    <3>1. NextRequest \in SealedRequests'
      BY <2>1, SealedKinds
    <3>2. /\ NextRequest.plaintext.of = waiting'
          /\ NextRequest.key = cli'.sender_key
          /\ NextRequest.nonce = cli'.nonce /\ NextRequest.aad = cli'.aad
      BY <2>1, RequestEffect DEF NextRequest, Seal, RequestText
    <3> QED  BY <3>1, <3>2 DEF ClientAwaits
  <2>2. CASE waiting' = 0
    BY <2>2 DEF ClientAwaits
  <2>3. CASE UNCHANGED <<cli, waiting>>
    BY <1>1, <2>3 DEF ClientAwaits
  <2>4. RequestRefused => waiting' = 0
    BY DEF RequestRefused
  <2> QED
    BY <2>1, <2>2, <2>3, <2>4
    DEF Next, vars, TakeResponse, RejectResponse, LoseResponse, GiveUp, LoseRequest,
        Receive, RefuseKid, RefuseIdContext, RefusePayload, AcceptRequest,
        Respond, RestartClient, RestartServer, client
<1> QED  BY <1>2, <1>3, <1>4

\* Responses pair with requests, and the client's rrc is that of the request
\* it waits for.
LEMMA Pairing ==
    ASSUME ~Pipelined
    PROVE  Spec => [](ResponsesPaired /\ ClientAwaits)
<1>1. Init => ResponsesPaired /\ ClientAwaits
  BY DEF Init, ResponsesPaired, ClientAwaits, SealedResponses
<1>2. /\ TypeOK /\ ServerContextCoherent /\ ClientContextCoherent
      /\ OwedWereSealed /\ RrcPersists
      /\ ResponsesPaired /\ ClientAwaits /\ [Next]_vars
      => (ResponsesPaired /\ ClientAwaits)'
  BY PairingStep
<1> QED
  BY <1>1, <1>2, TypeCorrect, ContextsCoherent, RrcPersistsWhenSequential, PTL DEF Spec

\* A response that opens under the client's rrc is the server's, and answers
\* the request the client waits for, unless the client has had its secret and
\* ID Context before.
LEMMA OpenedAnswers ==
    ASSUME TypeOK, ClientContextCoherent, ResponsesPaired, ClientAwaits,
           RequestsSealedBefore, RequestNoncesDiffer,
           NEW ct \in toClient, TakeResponse(ct)
    PROVE  /\ ct \in SealedResponses /\ ct.plaintext.type = "response"
           /\ \E q \in SealedRequests : ct.plaintext.of = q.plaintext.of
           /\ ~ClientReused => ct.plaintext.of = waiting
<1>1. ct \in SealedResponses
  BY DEF ResponsesPaired
<1>2. PICK q \in SealedRequests :
          /\ ct.plaintext.of = q.plaintext.of
          /\ ct.nonce = q.nonce /\ ct.aad = q.aad
          /\ ct.key = Key(q.key.secret, q.key.context, ServerId)
  BY <1>1 DEF ResponsesPaired
<1>3. waiting # 0 /\ ct.key = cli.recipient_key /\ ct.aad = cli.aad
  BY DEF TakeResponse, Opens
<1>4. PICK w \in SealedRequests :
          w.plaintext.of = waiting /\ w.key = cli.sender_key /\ w.aad = cli.aad
  BY <1>3 DEF ClientAwaits
<1>5. q.key.secret = cli.master_secret /\ q.key.context = cli.id_context
  BY <1>2, <1>3 DEF ClientContextCoherent, Key
<1>6. q.key = w.key
  <2>1. q.key.id = ClientId /\ q.key \in [secret : Secrets, context : IdContexts,
                                           id : Ids \cup {OtherId}]
    BY DEF RequestsSealedBefore, TypeOK, SealedRequests, Ciphertexts
  <2>2. q.key = Key(q.key.secret, q.key.context, ClientId)
    BY <2>1 DEF Key
  <2> QED  BY <1>4, <1>5, <2>2 DEF ClientContextCoherent
<1>7. ~ClientReused => q.plaintext = w.plaintext
  <2> SUFFICES ASSUME ~ClientReused PROVE q.plaintext = w.plaintext
    OBVIOUS
  <2>1. q.aad = w.aad
    BY <1>2, <1>3, <1>4
  <2>2. <<q.key.secret, q.key.context>> \notin again
    BY <1>5 DEF ClientReused
  <2> QED  BY <1>6, <2>1, <2>2 DEF RequestNoncesDiffer
<1> QED  BY <1>1, <1>2, <1>4, <1>7 DEF SealedResponses

\* With a sequential server, what the client takes for the answer to its
\* request is the server's answer to that very request: under loss,
\* duplication and reordering, time-outs, restarts of both endpoints and
\* changes of the ID Context, also where two requests have one nonce.  Only a
\* client that has been initialised with its secret and ID Context before may
\* take the answer to another request, and only until it has a pair it never
\* had.
THEOREM AnswersBelong ==
    ASSUME ~Pipelined
    PROVE  Spec => []AnswerBelongsToRequest
<1>1. Init => AnswerBelongsToRequest
  BY DEF Init, AnswerBelongsToRequest
<1>2. /\ TypeOK /\ ServerContextCoherent /\ ClientContextCoherent
      /\ ResponsesPaired /\ ClientAwaits
      /\ RequestsSealedBefore /\ RequestNoncesDiffer
      /\ AnswerBelongsToRequest /\ [Next]_vars
      => AnswerBelongsToRequest'
  <2> SUFFICES ASSUME TypeOK, ClientContextCoherent, ResponsesPaired, ClientAwaits,
                      RequestsSealedBefore, RequestNoncesDiffer,
                      AnswerBelongsToRequest, [Next]_vars
               PROVE  AnswerBelongsToRequest'
    OBVIOUS
  <2>1. CASE UNCHANGED accepted
    BY <2>1 DEF AnswerBelongsToRequest
  <2>2. ASSUME NEW ct \in toClient, TakeResponse(ct)
        PROVE  AnswerBelongsToRequest'
    <3>1. accepted' = accepted \cup {[request |-> waiting, text |-> ct.plaintext,
                                       reused |-> ClientReused]}
      BY <2>2 DEF TakeResponse
    <3>2. ct.plaintext.type = "response" /\ (~ClientReused => ct.plaintext.of = waiting)
      BY <2>2, OpenedAnswers
    <3> QED  BY <3>1, <3>2 DEF AnswerBelongsToRequest
  <2> QED
    BY <2>1, <2>2
    DEF Next, vars, Request, RequestRefused, RejectResponse, LoseResponse, GiveUp,
        LoseRequest, Receive, RefuseKid, RefuseIdContext, RefusePayload, AcceptRequest,
        Respond, RestartClient, RestartServer, client
<1> QED
  BY <1>1, <1>2, TypeCorrect, ContextsCoherent, Pairing, RequestNonces, PTL DEF Spec

-----------------------------------------------------------------------------
(* A request is in one place only.                                         *)

Number(ct) == ct.plaintext.of

\* When the network does not duplicate, a request is in flight, or owed an
\* answer, or answered, and answered once: what oscore2coap does without a
\* replay window (security_context.h:61).
ServedOnce ==
    /\ \A ct \in SealedRequests : Number(ct) <= made
    /\ \A p, q \in toServer :
          p.kid = ClientId /\ q.kid = ClientId /\ Number(p.ct) = Number(q.ct) => p = q
    /\ \A p \in toServer, ct \in owed : p.kid = ClientId => Number(p.ct) # Number(ct)
    /\ \A ct, d \in owed : Number(ct) = Number(d) => ct = d
    /\ \A r \in SealedResponses, p \in toServer : p.kid = ClientId => Number(p.ct) # Number(r)
    /\ \A r \in SealedResponses, ct \in owed : Number(ct) # Number(r)
    /\ \A r, s \in SealedResponses : Number(r) = Number(s) => r = s

\* The part of it that holds on every network: request numbers are not
\* used again.
LEMMA NumbersStep ==
    ASSUME TypeOK, [Next]_vars, \A ct \in SealedRequests : Number(ct) <= made
    PROVE  (\A ct \in SealedRequests : Number(ct) <= made)'
<1>1. made \in Nat
  BY ExchangeAssumption DEF TypeOK
<1>2. CASE Request
  <2>1. SealedRequests' = SealedRequests \cup {NextRequest} /\ made' = made + 1
    BY <1>2, SealedKinds, RequestEffect
  <2>2. Number(NextRequest) = made + 1
    BY DEF Number, NextRequest, Seal, RequestText
  <2>3. \A ct \in SealedRequests : Number(ct) \in Nat
    BY DEF TypeOK, SealedRequests, Ciphertexts, Plaintexts, Number
  <2> QED  BY <1>1, <2>1, <2>2, <2>3
<1>3. CASE ~Request
  <2>1. SealedRequests' = SealedRequests
    BY <1>3, SealedKinds
  <2>2. made' = made
    BY <1>3 DEF Next, vars, RequestRefused, TakeResponse, RejectResponse, LoseResponse,
          GiveUp, Receive, RefuseKid, RefuseIdContext, RefusePayload, AcceptRequest,
          LoseRequest, Respond, RestartClient, RestartServer, client
  <2> QED  BY <2>1, <2>2
<1> QED  BY <1>2, <1>3

\* Every step without duplication keeps ServedOnce.
LEMMA ServedOnceStep ==
    ASSUME ~Duplicating, TypeOK, PacketsOfClient, OwedWereSealed, ResponsesPaired,
           ServedOnce, [Next]_vars
    PROVE  ServedOnce'
<1>1. (\A ct \in SealedRequests : Number(ct) <= made)'
  BY NumbersStep DEF ServedOnce
<1>2. made \in Nat
  BY ExchangeAssumption DEF TypeOK
<1>3. CASE Request
  <2> DEFINE p == [kid |-> ClientId, kid_context |-> cli.kid_context, piv |-> NextPiv,
                   ct |-> NextRequest]
  <2>1. toServer' = toServer \cup {p} /\ UNCHANGED owed
    BY <1>3, RequestEffect
  <2>2. SealedResponses' = SealedResponses
    <3>1. \A ct \in owed, v \in Answers : ~Respond(ct, v)
      BY <1>2, <1>3, RequestEffect DEF Respond, client
    <3> QED  BY <3>1, SealedKinds
  <2>3. Number(p.ct) = made + 1
    BY DEF Number, NextRequest, Seal, RequestText
  <2>4. \A ct \in SealedRequests : Number(ct) # made + 1
    <3>1. \A ct \in SealedRequests : Number(ct) \in Nat
      BY DEF TypeOK, SealedRequests, Ciphertexts, Plaintexts, Number
    <3> QED  BY <1>2, <3>1 DEF ServedOnce
  <2>5. \A q \in toServer : q.kid = ClientId => Number(q.ct) # made + 1
    BY <2>4, ExchangeAssumption DEF PacketsOfClient, Ids
  <2>6. \A ct \in owed : Number(ct) # made + 1
    BY <2>4 DEF OwedWereSealed
  <2>7. \A r \in SealedResponses : Number(r) # made + 1
    BY <2>4 DEF ResponsesPaired, Number
  <2> HIDE DEF p
  <2> QED  BY <1>1, <2>1, <2>2, <2>3, <2>5, <2>6, <2>7 DEF ServedOnce
<1>4. ASSUME NEW p \in toServer, AcceptRequest(p)
      PROVE  ServedOnce'
  <2>1. owed' = owed \cup {p.ct} /\ toServer' = toServer \ {p} /\ UNCHANGED sealed
    BY <1>4 DEF AcceptRequest, Deliver
  <2>2. p.kid = ClientId
    BY <1>4, ContextAssumption DEF AcceptRequest, Peer
  <2>3. SealedResponses' = SealedResponses
    BY <2>1 DEF SealedResponses
  <2> QED  BY <1>1, <2>1, <2>2, <2>3 DEF ServedOnce
<1>5. ASSUME NEW ct \in owed, NEW v \in Answers, Respond(ct, v)
      PROVE  ServedOnce'
  <2> DEFINE r == Seal(srv.sender_key, srv.nonce, srv.aad, ResponseText(ct.plaintext.of, v))
  <2>1. owed' = owed \ {ct} /\ UNCHANGED toServer /\ sealed' = sealed \cup {r}
    BY <1>5 DEF Respond
  <2>2. SealedResponses' = SealedResponses \cup {r}
    BY <2>1, TextTypes DEF SealedResponses
  <2>3. Number(r) = Number(ct)
    BY DEF Number, Seal, ResponseText
  <2> HIDE DEF r
  <2> QED  BY <1>1, <2>1, <2>2, <2>3 DEF ServedOnce
<1>6. ASSUME toServer' \subseteq toServer, owed' \subseteq owed, UNCHANGED sealed
      PROVE  ServedOnce'
  <2>1. SealedResponses' = SealedResponses
    BY <1>6 DEF SealedResponses
  <2> QED  BY <1>1, <1>6, <2>1 DEF ServedOnce
<1> QED
  BY <1>3, <1>4, <1>5, <1>6, DeliverSubset
  DEF Next, vars, RequestRefused, TakeResponse, RejectResponse, LoseResponse, GiveUp,
      Receive, RefuseKid, RefuseIdContext, RefusePayload, LoseRequest,
      RestartClient, RestartServer, client, server, network

\* Request numbers are not used again, on any network.
LEMMA NumbersBound == Spec => [](\A ct \in SealedRequests : Number(ct) <= made)
<1>1. Init => \A ct \in SealedRequests : Number(ct) <= made
  BY DEF Init, SealedRequests
<1>2. /\ TypeOK /\ (\A ct \in SealedRequests : Number(ct) <= made) /\ [Next]_vars
      => (\A ct \in SealedRequests : Number(ct) <= made)'
  BY NumbersStep
<1> QED  BY <1>1, <1>2, TypeCorrect, PTL DEF Spec

\* What makes AnswersBelong and NoNonceTwice inductive holds for every number
\* of requests, restarts, ID Contexts and answers, on a network that loses,
\* repeats and reorders, when the server answers before it receives again.
THEOREM ExchangeInvariant ==
    ASSUME ~Pipelined
    PROVE  Spec => []ExchangeInv
<1>1. /\ ClientContextCoherent /\ PacketsOfClient /\ RequestsSealedBefore
      /\ OwedWereSealed /\ ResponsesPaired /\ ClientAwaits
      => ExchangeInv
  BY DEF ExchangeInv
<1> QED
  BY <1>1, ContextsCoherent, PacketsAreOfClient, RequestNonces,
     RrcPersistsWhenSequential, Pairing, PTL

\* A request is in flight, or owed an answer, or answered once.
LEMMA Once ==
    ASSUME ~Duplicating, ~Pipelined
    PROVE  Spec => []ServedOnce
<1>1. Init => ServedOnce
  <2>1. Init => SealedRequests = {} /\ SealedResponses = {} /\ owed = {}
    BY DEF Init, SealedRequests, SealedResponses
  <2>2. Init => \A p \in toServer : p.kid = OtherId
    <3>1. \A ms, idc : StrayRequest(ms, idc).kid = OtherId
      BY DEF StrayRequest
    <3> QED  BY <3>1 DEF Init, StrayRequests
  <2>3. OtherId # ClientId
    BY ExchangeAssumption DEF Ids
  <2> QED  BY <2>1, <2>2, <2>3 DEF ServedOnce
<1>2. /\ TypeOK /\ PacketsOfClient /\ OwedWereSealed /\ ResponsesPaired
      /\ ServedOnce /\ [Next]_vars
      => ServedOnce'
  BY ServedOnceStep
<1> QED
  BY <1>1, <1>2, TypeCorrect, PacketsAreOfClient, RrcPersistsWhenSequential, Pairing, PTL
  DEF Spec

\* No nonce is used twice under one key, neither by requests nor by the
\* answers sealed with the nonces of their requests: on a network that does
\* not duplicate, with a server that answers before it receives again, and as
\* long as PIVs have one byte (for longer ones see RequestNoncesDiffer).  A
\* client that starts again with a secret and an ID Context it had before
\* spoils the keys of that pair and no others.
THEOREM NoNonceTwice ==
    ASSUME ~Duplicating, ~Pipelined, MAX_PIV_LEN = 1 \/ Requests <= Radix
    PROVE  Spec => []NoncesDiffer
<1>1. /\ TypeOK /\ RequestsSealedBefore /\ RequestNoncesDiffer
      /\ (\A ct \in SealedRequests : Len(ct.aad.request_piv) = 1)
      /\ ResponsesPaired /\ ServedOnce
      => NoncesDiffer
  <2> SUFFICES ASSUME TypeOK, RequestsSealedBefore, RequestNoncesDiffer,
                      \A ct \in SealedRequests : Len(ct.aad.request_piv) = 1,
                      ResponsesPaired, ServedOnce,
                      NEW c \in sealed, NEW d \in sealed,
                      c.key = d.key, c.nonce = d.nonce,
                      <<c.key.secret, c.key.context>> \notin again
               PROVE  c.plaintext = d.plaintext
    BY DEF NoncesDiffer
  <2>1. \A ct \in sealed : ct \in SealedRequests \/ ct \in SealedResponses
    BY DEF TypeOK, Ciphertexts, Plaintexts, SealedRequests, SealedResponses
  <2>2. \A ct \in SealedRequests :
            ct.key.id = ClientId /\ ct.key = Key(ct.key.secret, ct.key.context, ClientId)
    <3>1. ASSUME NEW ct \in SealedRequests
          PROVE  ct.key \in [secret : Secrets, context : IdContexts, id : Ids \cup {OtherId}]
                 /\ ct.key.id = ClientId
      BY DEF TypeOK, Ciphertexts, SealedRequests, RequestsSealedBefore
    <3> QED  BY <3>1 DEF Key
  <2>3. \A ct \in SealedResponses : ct.key.id = ServerId
    <3>1. ASSUME NEW ct \in SealedResponses
          PROVE  ct.key.id = ServerId
      <4>1. PICK q \in SealedRequests : ct.key = Key(q.key.secret, q.key.context, ServerId)
        BY DEF ResponsesPaired
      <4> QED  BY <4>1 DEF Key
    <3> QED  BY <3>1
  <2>0. ASSUME NEW p \in SealedRequests, NEW q \in SealedRequests,
               p.key = q.key, p.nonce = q.nonce,
               <<p.key.secret, p.key.context>> \notin again
        PROVE  p.plaintext = q.plaintext
    <3>1. Len(p.aad.request_piv) = Len(q.aad.request_piv)
      OBVIOUS
    <3> QED  BY <2>0, <3>1 DEF RequestNoncesDiffer
  <2>4. CASE c \in SealedRequests /\ d \in SealedRequests
    BY <2>0, <2>4
  <2>5. CASE c \in SealedResponses /\ d \in SealedResponses
    <3>1. PICK q \in SealedRequests :
              /\ c.plaintext.of = q.plaintext.of /\ c.nonce = q.nonce
              /\ c.key = Key(q.key.secret, q.key.context, ServerId)
      BY <2>5 DEF ResponsesPaired
    <3>2. PICK w \in SealedRequests :
              /\ d.plaintext.of = w.plaintext.of /\ d.nonce = w.nonce
              /\ d.key = Key(w.key.secret, w.key.context, ServerId)
      BY <2>5 DEF ResponsesPaired
    <3>3. q.key.secret = w.key.secret /\ q.key.context = w.key.context
      <4>1. c.key.secret = q.key.secret /\ c.key.context = q.key.context
        BY <3>1 DEF Key
      <4>2. d.key.secret = w.key.secret /\ d.key.context = w.key.context
        BY <3>2 DEF Key
      <4> QED  BY <4>1, <4>2
    <3>4. q.key = w.key /\ q.nonce = w.nonce
      BY <2>2, <3>1, <3>2, <3>3
    <3>5. c.key.secret = q.key.secret /\ c.key.context = q.key.context
      BY <3>1 DEF Key
    <3>6. q.plaintext = w.plaintext
      BY <2>0, <3>4, <3>5
    <3> QED  BY <2>5, <3>1, <3>2, <3>6 DEF ServedOnce, Number
  <2> QED  BY <2>1, <2>2, <2>3, <2>4, <2>5, ContextAssumption
<1> QED  BY <1>1, TypeCorrect, RequestNonces, PivsAreShort, Pairing, Once, PTL

-----------------------------------------------------------------------------
(* The refinement. *)

\* A step of the exchange is a step of the channel, or leaves it alone.
LEMMA ChannelStep ==
    ASSUME ~Duplicating => ServedOnce,
           \A ct \in SealedRequests : Number(ct) <= made,
           TypeOK, ClientContextCoherent, OwedWereSealed, ResponsesPaired, ClientAwaits,
           RequestsSealedBefore, RequestNoncesDiffer, [Next]_vars
    PROVE  [Channel!Next]_(Channel!vars)
<1>0. made \in Nat
  BY ExchangeAssumption DEF TypeOK
<1>1. CASE Request
  <2>1. PICK n : n = made + 1
    OBVIOUS
  <2>2. /\ waiting = 0 /\ waiting' = n /\ UNCHANGED <<accepted, ClientReused>>
        /\ SealedRequests' = SealedRequests \cup {NextRequest}
    BY <1>1, <2>1, SealedKinds, RequestEffect DEF Request, ClientReused
  <2>3. SealedResponses' = SealedResponses
    <3>1. \A ct \in owed, v \in Answers : ~Respond(ct, v)
      BY <1>0, <1>1, RequestEffect DEF Respond, client
    <3> QED  BY <3>1, SealedKinds
  <2>4. NextRequest.plaintext.of = n
    BY <2>1 DEF NextRequest, Seal, RequestText
  <2>5. \A ct \in SealedRequests : ct.plaintext.of # n
    <3>1. \A ct \in SealedRequests : Number(ct) \in Nat
      BY DEF TypeOK, SealedRequests, Ciphertexts, Plaintexts, Number
    <3> QED  BY <1>0, <2>1, <3>1 DEF Number
  <2>6. {ct.plaintext.of : ct \in SealedRequests'}
          = {ct.plaintext.of : ct \in SealedRequests} \cup {n}
    BY <2>2, <2>4
  <2>7. n \notin {ct.plaintext.of : ct \in SealedRequests}
    BY <2>5
  <2>8. Channel!Ask(n)
    BY <2>2, <2>3, <2>6, <2>7 DEF Channel!Ask
  <2>9. n \in {ct.plaintext.of : ct \in SealedRequests}' \ {0}
    BY <1>0, <2>1, <2>6
  <2> QED  BY <2>8, <2>9 DEF Channel!Next
<1>2. ASSUME NEW ct \in owed, NEW v \in Answers, Respond(ct, v)
      PROVE  Channel!Next
  <2> DEFINE r == Seal(srv.sender_key, srv.nonce, srv.aad, ResponseText(ct.plaintext.of, v))
             n == ct.plaintext.of
  <2>1. sealed' = sealed \cup {r} /\ UNCHANGED <<waiting, accepted, ClientReused>>
    BY <1>2 DEF Respond, client, ClientReused
  <2>2. SealedResponses' = SealedResponses \cup {r} /\ SealedRequests' = SealedRequests
    BY <2>1, TextTypes DEF SealedResponses, SealedRequests
  <2>3. r.plaintext.of = n /\ r.plaintext.answer = v
    BY DEF Seal, ResponseText
  <2>4. ct \in SealedRequests
    BY DEF OwedWereSealed
  <2>5. ~Duplicating => \A s \in SealedResponses : s.plaintext.of # n
    BY DEF ServedOnce, Number
  <2>6. {<<s.plaintext.of, s.plaintext.answer>> : s \in SealedResponses'}
          = {<<s.plaintext.of, s.plaintext.answer>> : s \in SealedResponses} \cup {<<n, v>>}
    BY <2>2, <2>3
  <2>7. ~Duplicating =>
          \A w \in Answers :
             <<n, w>> \notin {<<s.plaintext.of, s.plaintext.answer>> : s \in SealedResponses}
    BY <2>5
  <2>8. n \in {s.plaintext.of : s \in SealedRequests}
    BY <2>4
  <2> HIDE DEF n, r
  <2>9. Channel!Serve(n, v)
    BY <2>1, <2>2, <2>6, <2>7, <2>8 DEF Channel!Serve
  <2>10. \E m \in {s.plaintext.of : s \in SealedRequests}, w \in Answers : Channel!Serve(m, w)
    BY <2>8, <2>9, Zenon
  <2> QED  BY <2>10, Zenon DEF Channel!Next
<1>3. ASSUME NEW ct \in toClient, TakeResponse(ct)
      PROVE  Channel!Next
  <2> DEFINE n == ct.plaintext.of
             v == ct.plaintext.answer
             b == [request |-> waiting, text |-> ct.plaintext, reused |-> ClientReused]
  <2>1. accepted' = accepted \cup {b} /\ waiting' = 0 /\ UNCHANGED <<sealed, ClientReused>>
    BY <1>3 DEF TakeResponse, ClientReused
  <2>2. /\ ct.plaintext.type = "response" /\ ct \in SealedResponses
        /\ \E q \in SealedRequests : n = q.plaintext.of
        /\ ~ClientReused => n = waiting
    BY <1>3, OpenedAnswers
  <2>3. v \in Answers
    BY <2>2 DEF TypeOK, Ciphertexts, Plaintexts
  <2>4. b.request = waiting /\ b.text.answer = v
    OBVIOUS
  <2>5. /\ n \in {q.plaintext.of : q \in SealedRequests}
        /\ <<n, v>> \in {<<s.plaintext.of, s.plaintext.answer>> : s \in SealedResponses}
    BY <2>2
  <2> HIDE DEF n, v, b
  <2>6. {<<a.request, a.text.answer>> : a \in accepted'}
          = {<<a.request, a.text.answer>> : a \in accepted} \cup {<<waiting, v>>}
    BY <2>1, <2>4
  <2>7. UNCHANGED <<SealedRequests, SealedResponses>>
    BY <2>1 DEF SealedRequests, SealedResponses
  <2>8. Channel!Get(v)
    BY <2>1, <2>2, <2>5, <2>6, <2>7 DEF Channel!Get
  <2> QED  BY <2>3, <2>8 DEF Channel!Next
<1>4. ASSUME UNCHANGED <<sealed, accepted, ClientReused>>, waiting' = 0
      PROVE  Channel!Next
  BY <1>4 DEF Channel!Next, Channel!Abandon, SealedRequests, SealedResponses
<1>5. ASSUME NEW ms \in Secrets, NEW idc \in IdContexts, RestartClient(ms, idc)
      PROVE  Channel!Next
  <2>1. UNCHANGED <<sealed, accepted>> /\ waiting' = 0
    BY <1>5 DEF RestartClient
  <2>2. ClientReused' \in BOOLEAN
    BY DEF ClientReused
  <2>3. Channel!StartAgain
    BY <2>1, <2>2 DEF Channel!StartAgain, SealedRequests, SealedResponses
  <2> QED  BY <2>3 DEF Channel!Next
<1>6. ASSUME UNCHANGED <<sealed, accepted, waiting, ClientReused>>
      PROVE  UNCHANGED Channel!vars
  BY <1>6 DEF Channel!vars, SealedRequests, SealedResponses
<1>7. RequestRefused => UNCHANGED ClientReused
  <2> SUFFICES ASSUME RequestRefused PROVE UNCHANGED ClientReused
    OBVIOUS
  <2>1. cli' = [cli EXCEPT !.sender_seq_num = @ + 1] /\ UNCHANGED again
    BY DEF RequestRefused
  <2>2. cli'.master_secret = cli.master_secret /\ cli'.id_context = cli.id_context
    BY <2>1 DEF TypeOK, Contexts
  <2> QED  BY <2>1, <2>2 DEF ClientReused
<1>8. UNCHANGED <<cli, again>> => UNCHANGED ClientReused
  BY DEF ClientReused
<1> QED
  BY <1>1, <1>2, <1>3, <1>4, <1>5, <1>6, <1>7, <1>8
  DEF Next, vars, RequestRefused, RejectResponse, LoseResponse, GiveUp,
      Receive, RefuseKid, RefuseIdContext, RefusePayload, AcceptRequest, LoseRequest,
      RestartServer, client, server, network

\* The exchange of a sequential server with its client implements the channel
\* of RequestResponse, also when the network repeats packets; when it does
\* not, each request is served at most once, although uOSCORE has no replay
\* window.  A client that starts again with a secret and an ID Context it had
\* is one without fresh secrets.
THEOREM ChannelImplemented ==
    ASSUME ~Pipelined
    PROVE  Spec => ImplementsChannel
<1>1. Init => Channel!Init
  BY DEF Init, Channel!Init, SealedRequests, SealedResponses, ClientReused
<1>2. /\ ~Duplicating => ServedOnce
      /\ \A ct \in SealedRequests : Number(ct) <= made
      /\ TypeOK /\ ClientContextCoherent /\ ServerContextCoherent
      /\ OwedWereSealed /\ RrcPersists
      /\ ResponsesPaired /\ ClientAwaits
      /\ RequestsSealedBefore /\ RequestNoncesDiffer /\ [Next]_vars
      => [Channel!Next]_(Channel!vars)
  BY ChannelStep
<1>3. Spec => [](~Duplicating => ServedOnce)
  <2>1. CASE Duplicating
    <3>1. ~Duplicating => ServedOnce
      BY <2>1
    <3> QED  BY <3>1, PTL
  <2>2. CASE ~Duplicating
    <3>1. Spec => []ServedOnce
      BY <2>2, Once
    <3> QED  BY <3>1, PTL
  <2> QED  BY <2>1, <2>2
<1> QED
  BY <1>1, <1>2, <1>3, NumbersBound, TypeCorrect, ContextsCoherent,
     RrcPersistsWhenSequential, Pairing, RequestNonces, PTL
  DEF Spec, ImplementsChannel, Channel!Spec

================================================================================
