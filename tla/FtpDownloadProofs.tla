------------------------- MODULE FtpDownloadProofs --------------------------
(***************************************************************************)
(* Proofs about FtpDownload, for every remote file, whatever is under the  *)
(* local name, and any number of calls, failures and kills: the types, the *)
(* invariant, and that the calls together are one transfer of the file.    *)
(***************************************************************************)
EXTENDS FtpDownload, SequenceTheorems, TLAPS

LEMMA RemoteType == Remote \in Seq(Bytes) /\ Len(Remote) \in Nat
  BY FilesAssumption, LenProperties

-----------------------------------------------------------------------------
(* Beginnings                                                              *)

(* What is cut off a sequence at the front is again one, as long as asked. *)
LEMMA Front ==
  ASSUME NEW s \in Seq(Bytes), NEW n \in 0..Len(s)
  PROVE  SubSeq(s, 1, n) \in Seq(Bytes) /\ Len(SubSeq(s, 1, n)) = n
<1>1. Len(s) \in Nat /\ n \in Int /\ \A k \in 1..n : s[k] \in Bytes
  BY LenProperties, ElementOfSeq
<1>2. /\ SubSeq(s, 1, n) \in Seq(Bytes)
      /\ Len(SubSeq(s, 1, n)) = IF 1 <= n THEN n - 1 + 1 ELSE 0
  BY <1>1, SubSeqProperties
<1> QED
  BY <1>1, <1>2

(* A front of a front is a front.                                          *)
LEMMA FrontOfFront ==
  ASSUME NEW s \in Seq(Bytes), NEW k \in 0..Len(s), NEW n \in 0..k
  PROVE  SubSeq(SubSeq(s, 1, k), 1, n) = SubSeq(s, 1, n)
<1>0. Len(s) \in Nat /\ k \in Nat /\ n \in Nat
  BY LenProperties
<1>1. CASE n = 0
  <2>1. SubSeq(SubSeq(s, 1, k), 1, 0) = <<>> /\ SubSeq(s, 1, 0) = <<>>
    BY SubSeqEmpty
  <2> QED
    BY <1>1, <2>1
<1>2. CASE n # 0
  <2>1. /\ 1 \in 1..Len(s) /\ k \in 1..Len(s)
        /\ 1 \in 1..k - 1 + 1 /\ n \in 1..k - 1 + 1
    BY <1>0, <1>2
  <2>2. SubSeq(SubSeq(s, 1, k), 1, n) = SubSeq(s, 1 + 1 - 1, 1 + n - 1)
    BY ONLY <2>1, s \in Seq(Bytes), SubSeqOfSubSeq
  <2>3. 1 + 1 - 1 = 1 /\ 1 + n - 1 = n
    BY <1>0
  <2> QED
    BY <2>2, <2>3
<1> QED
  BY <1>1, <1>2

(* Appending leaves the front as it is.                                    *)
LEMMA FrontOfConcat ==
  ASSUME NEW s \in Seq(Bytes), NEW t \in Seq(Bytes), NEW n \in 0..Len(s)
  PROVE  SubSeq(s \o t, 1, n) = SubSeq(s, 1, n)
<1>0. Len(s) \in Nat
  BY LenProperties
<1>1. CASE n = 0
  <2>1. SubSeq(s \o t, 1, 0) = <<>> /\ SubSeq(s, 1, 0) = <<>>
    BY SubSeqEmpty
  <2> QED
    BY <1>1, <2>1
<1>2. CASE n # 0
  <2>1. 1 \in 1..Len(s) /\ n \in 1..Len(s)
    BY <1>0, <1>2
  <2> QED
    BY ONLY <2>1, s \in Seq(Bytes), t \in Seq(Bytes), SubSeqOfConcat1
<1> QED
  BY <1>1, <1>2

(* A front of a beginning of the remote file is a beginning of it.         *)
LEMMA CutBeginning ==
  ASSUME NEW s \in Seq(Bytes), IsBeginning(s), NEW n \in 0..Len(s)
  PROVE  IsBeginning(SubSeq(s, 1, n)) /\ SubSeq(s, 1, n) = SubSeq(Remote, 1, n)
<1>1. Len(s) \in Nat /\ Len(s) <= Len(Remote) /\ s = SubSeq(Remote, 1, Len(s))
  BY LenProperties DEF IsBeginning
<1>2. Len(s) \in 0..Len(Remote) /\ n \in 0..Len(Remote)
  BY <1>1, RemoteType
<1>3. SubSeq(SubSeq(Remote, 1, Len(s)), 1, n) = SubSeq(Remote, 1, n)
  BY <1>2, RemoteType, FrontOfFront
<1>4. SubSeq(s, 1, n) = SubSeq(Remote, 1, n)
  BY <1>1, <1>3
<1>5. Len(SubSeq(s, 1, n)) = n
  BY Front
<1> QED
  BY <1>2, <1>4, <1>5 DEF IsBeginning

(* What arrives behind a beginning of the remote file makes a longer one.  *)
LEMMA BeginningGrows ==
  ASSUME NEW s \in Seq(Bytes), IsBeginning(s), NEW n \in Len(s)..Len(Remote)
  PROVE  IsBeginning(s \o SubSeq(Remote, Len(s) + 1, n))
<1>1. Len(s) \in Nat /\ Len(s) <= Len(Remote) /\ s = SubSeq(Remote, 1, Len(s))
  BY LenProperties DEF IsBeginning
<1>2. 1 \in 1..Len(Remote) + 1 /\ Len(s) \in (1 - 1)..Len(Remote) /\ n \in 0..Len(Remote)
  BY <1>1, RemoteType
<1>3. SubSeq(Remote, 1, Len(s)) \o SubSeq(Remote, Len(s) + 1, n) = SubSeq(Remote, 1, n)
  BY ONLY <1>2, n \in Len(s)..Len(Remote), RemoteType, ConcatAdjacentSubSeq
<1>4. Len(SubSeq(Remote, 1, n)) = n
  BY <1>2, RemoteType, Front
<1> QED
  BY <1>1, <1>2, <1>3, <1>4 DEF IsBeginning

-----------------------------------------------------------------------------
(* The types and the invariant                                             *)

LEMMA DownloadInit == Init => TypeOK /\ DownloadInv
<1> SUFFICES ASSUME Init PROVE TypeOK /\ DownloadInv
  OBVIOUS
<1>1. local \in Seq(Bytes) /\ exists \in BOOLEAN /\ own \in BOOLEAN
  BY FilesAssumption, EmptySeq DEF Init
<1>2. saved \in 0..Len(local) /\ saved = Len(local)
  BY <1>1, LenProperties DEF Init
<1>3. own => IsBeginning(local)
  <2>1. Len(<<>>) = 0 /\ SubSeq(Remote, 1, 0) = <<>>
    BY EmptySeq, SubSeqEmpty
  <2> QED
    BY <2>1, RemoteType DEF Init, IsBeginning
<1>4. TypeOK
  BY <1>1, <1>2 DEF Init, TypeOK
<1> QED
  BY <1>2, <1>3, <1>4 DEF Init, DownloadInv, CopyIsBeginning

(* What a piece that writefunc is handed does to the local file.           *)
LEMMA WriteFacts ==
  ASSUME TypeOK, DownloadInv, Write
  PROVE  /\ local' \in Seq(Bytes) /\ Len(local) <= Len(local') /\ offset' \in Nat
         /\ SubSeq(local', 1, saved) = SubSeq(local, 1, saved)
         /\ own => IsBeginning(local') /\ offset' = Len(local')
<1>1. PICK n \in offset + 1..Len(Remote) :
        local' = local \o SubSeq(Remote, offset + 1, n) /\ offset' = n
  BY DEF Write
<1> DEFINE piece == SubSeq(Remote, offset + 1, n)
<1>2. /\ local \in Seq(Bytes) /\ Len(local) \in Nat /\ offset \in Nat
      /\ saved \in 0..Len(local) /\ n \in Nat
  BY <1>1, LenProperties, RemoteType DEF TypeOK
<1>3. piece \in Seq(Bytes) /\ Len(piece) = n - offset
  <2>1. offset + 1 \in Int /\ n \in Int /\ \A k \in offset + 1..n : Remote[k] \in Bytes
    BY <1>1, <1>2, RemoteType, ElementOfSeq
  <2>2. /\ piece \in Seq(Bytes)
        /\ Len(piece) = IF offset + 1 <= n THEN n - (offset + 1) + 1 ELSE 0
    BY <2>1, SubSeqProperties
  <2> QED
    BY <1>1, <1>2, <2>2
<1>4. local' \in Seq(Bytes) /\ Len(local') = Len(local) + Len(piece)
  BY <1>1, <1>2, <1>3, ConcatProperties
<1>5. SubSeq(local', 1, saved) = SubSeq(local, 1, saved)
  BY <1>1, <1>2, <1>3, FrontOfConcat
<1>6. ASSUME own PROVE IsBeginning(local') /\ offset' = Len(local')
  <2>1. IsBeginning(local) /\ offset = Len(local)
    BY <1>6 DEF DownloadInv, CopyIsBeginning, Write
  <2>2. n \in Len(local)..Len(Remote)
    BY <1>1, <1>2, <2>1, RemoteType
  <2> QED
    BY <1>1, <1>2, <1>3, <1>4, <2>1, <2>2, BeginningGrows
<1> HIDE DEF piece
<1> QED
  BY <1>1, <1>2, <1>3, <1>4, <1>5, <1>6

(* What is left of the local file when only its first n bytes are kept.    *)
LEMMA CutFacts ==
  ASSUME TypeOK, DownloadInv, NEW n \in 0..Len(local), local' = SubSeq(local, 1, n)
  PROVE  /\ local' \in Seq(Bytes) /\ Len(local') = n
         /\ own => IsBeginning(local')
         /\ n = Len(local) => local' = local
         /\ \A k \in 0..n : SubSeq(local', 1, k) = SubSeq(local, 1, k)
<1>1. local \in Seq(Bytes)
  BY DEF TypeOK
<1>2. local' \in Seq(Bytes) /\ Len(local') = n
  BY <1>1, Front
<1>3. own => IsBeginning(local')
  BY <1>1, CutBeginning DEF DownloadInv, CopyIsBeginning
<1>4. n = Len(local) => local' = local
  BY <1>1, SubSeqFull
<1>5. \A k \in 0..n : SubSeq(local', 1, k) = SubSeq(local, 1, k)
  BY <1>1, FrontOfFront
<1> QED
  BY <1>2, <1>3, <1>4, <1>5

(* A beginning of the remote file that is as long as the file is the file. *)
LEMMA WholeBeginning ==
  ASSUME NEW s \in Seq(Bytes), IsBeginning(s), Len(s) >= Len(Remote)
  PROVE  s = Remote
<1>1. Len(s) \in Nat /\ Len(s) = Len(Remote)
  BY LenProperties, RemoteType DEF IsBeginning
<1> QED
  BY <1>1, RemoteType, SubSeqFull DEF IsBeginning

LEMMA DownloadStep == TypeOK /\ DownloadInv /\ [Next]_vars => (TypeOK /\ DownloadInv)'
<1> SUFFICES ASSUME TypeOK, DownloadInv, [Next]_vars PROVE (TypeOK /\ DownloadInv)'
  OBVIOUS
<1>0. local \in Seq(Bytes) /\ Len(local) \in Nat /\ saved \in 0..Len(local)
  BY LenProperties DEF TypeOK
<1>1. CASE Call
  <2>1. TypeOK'
    BY <1>1 DEF Call, file, TypeOK
  <2>2. CopyIsBeginning'
    BY <1>1 DEF Call, file, DownloadInv, CopyIsBeginning, IsBeginning
  <2>3. saved = Len(local) /\ (~exists => local = <<>> /\ own)
    BY <1>1 DEF Call, DownloadInv
  <2>4. pc' = "open" /\ r' = "error" /\ result' = 0 /\ lost' = FALSE
    BY <1>1 DEF Call
  <2> QED
    BY <1>1, <2>1, <2>2, <2>3, <2>4 DEF Call, file, DownloadInv
<1>2. CASE Open
  <2>1. CASE pc' = "perform" /\ exists' = TRUE /\ offset' = ResumeFrom
    <3>1. ~exists => Len(local) = 0
      BY EmptySeq DEF DownloadInv
    <3>2. offset' \in Nat /\ offset' = Len(local)
      BY <1>0, <2>1, <3>1 DEF ResumeFrom
    <3> QED
      BY <1>2, <2>1, <3>2 DEF Open, TypeOK, DownloadInv, CopyIsBeginning, IsBeginning
  <2>2. CASE ~calm /\ pc' = "decide" /\ UNCHANGED <<exists, offset>>
    BY <1>2, <2>2 DEF Open, TypeOK, DownloadInv, CopyIsBeginning, IsBeginning
  <2> QED
    BY <1>2, <2>1, <2>2 DEF Open
<1>3. CASE Begin
  BY <1>3 DEF Begin, file, TypeOK, DownloadInv, CopyIsBeginning, IsBeginning
<1>4. CASE Fail
  BY <1>4 DEF Fail, file, TypeOK, DownloadInv, CopyIsBeginning, IsBeginning
<1>5. CASE Write
  <2>1. Len(local') \in Nat
    BY <1>5, WriteFacts, LenProperties
  <2>2. saved' \in 0..Len(local')
    <3>1. saved' = saved
      BY <1>5 DEF Write
    <3>2. Len(local) <= Len(local')
      BY <1>5, WriteFacts
    <3> QED
      BY <1>0, <2>1, <3>1, <3>2
  <2>3. TypeOK'
    BY <1>5, <2>2, WriteFacts DEF Write, TypeOK
  <2>4. CopyIsBeginning'
    BY <1>5, WriteFacts DEF Write, CopyIsBeginning, IsBeginning
  <2> QED
    BY <1>5, <2>3, <2>4, WriteFacts DEF Write, DownloadInv
<1>6. CASE Finish
  <2>1. own => local = Remote
    <3> SUFFICES ASSUME own PROVE local = Remote
      OBVIOUS
    <3>1. IsBeginning(local) /\ offset = Len(local)
      BY <1>6 DEF Finish, DownloadInv, CopyIsBeginning
    <3> QED
      BY <1>0, <1>6, <3>1, WholeBeginning DEF Finish, Complete
  <2> QED
    BY <1>6, <2>1 DEF Finish, file, TypeOK, DownloadInv, CopyIsBeginning, IsBeginning
<1>7. CASE Flush
  <2>1. saved' \in 0..Len(local)
    BY <1>0, <1>7 DEF Flush
  <2> QED
    BY <1>7, <2>1 DEF Flush, TypeOK, DownloadInv, CopyIsBeginning, IsBeginning
<1>8. CASE Close
  <2>1. PICK n \in saved..Len(local) :
          local' = SubSeq(local, 1, n) /\ saved' = n /\ lost' = (n < Len(local))
    BY <1>8 DEF Close
  <2>2. n \in 0..Len(local)
    BY <1>0, <2>1
  <2>3. /\ local' \in Seq(Bytes) /\ Len(local') = n
        /\ own => IsBeginning(local')
        /\ n = Len(local) => local' = local
    BY <2>1, <2>2, CutFacts
  <2>4. TypeOK'
    BY <1>8, <2>1, <2>2, <2>3 DEF Close, TypeOK
  <2>5. CopyIsBeginning'
    BY <1>8, <2>3 DEF Close, CopyIsBeginning, IsBeginning
  <2>6. ~lost' => local' = local
    <3>1. n = Len(local) \/ n < Len(local)
      BY <1>0, <2>1
    <3>2. n < Len(local) => lost'
      BY <2>1
    <3> QED
      BY <2>3, <3>1, <3>2
  <2> QED
    BY <1>8, <2>1, <2>3, <2>4, <2>5, <2>6 DEF Close, DownloadInv
<1>9. CASE Return
  BY <1>9 DEF Return, file, TypeOK, DownloadInv, CopyIsBeginning, IsBeginning
<1>10. CASE Kill
  <2>1. local' = SubSeq(local, 1, saved)
    BY <1>10 DEF Kill
  <2>2. /\ local' \in Seq(Bytes) /\ Len(local') = saved
        /\ own => IsBeginning(local')
    BY <1>0, <2>1, CutFacts
  <2>3. saved' = saved /\ saved' \in 0..Len(local')
    BY <1>0, <1>10, <2>2 DEF Kill
  <2>4. TypeOK'
    BY <1>10, <2>2, <2>3 DEF Kill, TypeOK
  <2>5. CopyIsBeginning'
    BY <1>10, <2>2 DEF Kill, CopyIsBeginning, IsBeginning
  <2>6. ~exists => local' = <<>>
    <3> SUFFICES ASSUME ~exists PROVE local' = <<>>
      OBVIOUS
    <3>1. local = <<>> /\ saved = 0
      BY <1>0, EmptySeq DEF DownloadInv
    <3> QED
      BY <2>1, <3>1, SubSeqEmpty
  <2>7. result = 1 => local' = local
    <3> SUFFICES ASSUME result = 1 PROVE local' = local
      OBVIOUS
    <3>1. saved = Len(local)
      BY <1>10 DEF Kill, DownloadInv
    <3> QED
      BY <1>0, <2>1, <3>1, CutFacts
  <2> QED
    BY <1>10, <2>2, <2>3, <2>4, <2>5, <2>6, <2>7 DEF Kill, DownloadInv
<1>11. CASE Settle
  BY <1>11 DEF Settle, file, TypeOK, DownloadInv, CopyIsBeginning, IsBeginning
<1>12. CASE Decide \/ Undecided
  <2>1. /\ pc = "decide" /\ pc' = "idle"
        /\ UNCHANGED <<file, offset, r, result, calm, own, lost>>
        /\ pending' \in BOOLEAN
    BY <1>12 DEF Decide, Undecided, TypeOK
  <2>2. TypeOK'
    BY <2>1 DEF file, TypeOK
  <2> QED
    BY <2>1, <2>2 DEF file, DownloadInv, CopyIsBeginning, IsBeginning
<1>13. CASE UNCHANGED vars
  BY <1>13 DEF vars, file, TypeOK, DownloadInv, CopyIsBeginning, IsBeginning
<1> QED
  BY <1>1, <1>2, <1>3, <1>4, <1>5, <1>6, <1>7, <1>8, <1>9, <1>10, <1>11, <1>12,
     <1>13
  DEF Next, Step

(* The types and the invariant of the calls hold in every reachable state. *)
THEOREM DownloadTypeAndInv == Spec => [](TypeOK /\ DownloadInv)
  BY DownloadInit, DownloadStep, PTL DEF Spec

(* The variables of the call keep their types (updown.c:101-114).          *)
THEOREM DownloadTypeOK == Spec => []TypeOK
  BY DownloadTypeAndInv, PTL

(* A file this program made is a beginning of the remote one, although     *)
(* every call appends to what an interrupted one left (updown.c:110-120).  *)
THEOREM CopyIsBeginningHolds == Spec => []CopyIsBeginning
<1>1. DownloadInv => CopyIsBeginning
  BY DEF DownloadInv
<1> QED
  BY <1>1, DownloadTypeAndInv, PTL

(* A result of 1 means the whole file, unless fclose could not write it    *)
(* (updown.c:140-146).                                                     *)
THEOREM ReceivedWholeHolds == Spec => []ReceivedWhole
<1>1. DownloadInv => ReceivedWhole
  BY DEF DownloadInv, ReceivedWhole
<1> QED
  BY <1>1, DownloadTypeAndInv, PTL

-----------------------------------------------------------------------------
(* The calls together are one transfer                                     *)

OnDisk == IF own THEN SubSeq(local, 1, saved) ELSE <<>>
Reported == result = 1 /\ own /\ ~lost

(* More of an own file on the disk is more of the remote file.             *)
LEMMA MoreReceived ==
  ASSUME TypeOK, DownloadInv, ~Reported, UNCHANGED own, ~Reported',
         NEW n \in saved..Len(local), own => OnDisk' = SubSeq(local, 1, n)
  PROVE  [Transfer!Next]_(Transfer!vars)
<1>0. local \in Seq(Bytes) /\ Len(local) \in Nat /\ saved \in 0..Len(local) /\ n \in 0..Len(local)
  BY LenProperties DEF TypeOK
<1>1. CASE own
  <2>1. IsBeginning(local) /\ Len(local) <= Len(Remote)
    BY <1>1 DEF DownloadInv, CopyIsBeginning, IsBeginning
  <2>2. SubSeq(local, 1, n) = SubSeq(Remote, 1, n)
    BY <1>0, <2>1, CutBeginning
  <2>3. Len(OnDisk) = saved
    BY <1>0, <1>1, Front DEF OnDisk
  <2>4. n \in Len(OnDisk)..Len(Remote)
    BY <1>0, <2>1, <2>3, RemoteType
  <2>5. OnDisk' = SubSeq(Remote, 1, n)
    BY <1>1, <2>2
  <2> QED
    BY <2>4, <2>5 DEF Transfer!Next, Transfer!Receive, Reported, OnDisk
<1>2. CASE ~own
  BY <1>2 DEF Transfer!vars, OnDisk, Reported
<1> QED
  BY <1>1, <1>2

(* Each step brings more of the file, reports that it is whole, begins to  *)
(* ask again, or is not seen.                                              *)
LEMMA TransferStep ==
  ASSUME TypeOK, DownloadInv, [Next]_vars
  PROVE  [Transfer!Next]_(Transfer!vars)
<1>0. local \in Seq(Bytes) /\ Len(local) \in Nat /\ saved \in 0..Len(local)
  BY LenProperties DEF TypeOK
<1>1. CASE Call
  BY <1>1 DEF Call, file, Transfer!Next, Transfer!Repeat, Transfer!vars
<1>2. ASSUME UNCHANGED <<local, saved, own, lost, result>>
      PROVE  UNCHANGED Transfer!vars
  BY <1>2 DEF Transfer!vars
<1>3. CASE Write
  <2>1. OnDisk' = OnDisk
    BY <1>3, WriteFacts DEF Write, OnDisk
  <2>2. Reported' = Reported
    BY <1>3 DEF Write, Reported
  <2> QED
    BY <2>1, <2>2 DEF Transfer!vars, OnDisk, Reported
<1>4. CASE Flush
  <2>1. result = 0 /\ result' = 0 /\ UNCHANGED <<own, local>> /\ saved' \in saved..Len(local)
    BY <1>0, <1>4 DEF Flush, DownloadInv
  <2>2. ~Reported /\ ~Reported'
    BY <2>1 DEF Reported
  <2>3. own => OnDisk' = SubSeq(local, 1, saved')
    BY <2>1 DEF OnDisk
  <2> QED
    BY <2>1, <2>2, <2>3, MoreReceived
<1>5. CASE Close
  <2>1. PICK n \in saved..Len(local) : local' = SubSeq(local, 1, n) /\ saved' = n
    BY <1>5 DEF Close
  <2>2. result = 0 /\ result' = 0 /\ UNCHANGED own
    BY <1>5 DEF Close, DownloadInv
  <2>3. SubSeq(local', 1, n) = SubSeq(local, 1, n)
    <3>1. n \in 0..Len(local) /\ n \in 0..n
      BY <1>0, <2>1
    <3> QED
      BY <1>0, <2>1, <3>1, FrontOfFront
  <2>4. ~Reported /\ ~Reported' /\ (own => OnDisk' = SubSeq(local, 1, n))
    BY <2>1, <2>2, <2>3 DEF Reported, OnDisk
  <2> QED
    BY <2>2, <2>4, MoreReceived
<1>6. CASE Return
  <2>1. saved = Len(local) /\ UNCHANGED <<local, saved, own, lost>>
    BY <1>6 DEF Return, file, DownloadInv
  <2>2. CASE result' = 1 /\ own /\ ~lost
    <3>1. local = Remote
      BY <1>6, <2>2 DEF Return, DownloadInv
    <3>2. OnDisk = Remote
      BY <1>0, <2>1, <2>2, <3>1, SubSeqFull DEF OnDisk
    <3> QED
      BY <2>1, <2>2, <3>2 DEF Transfer!Next, Transfer!Report, OnDisk
  <2>3. CASE ~(result' = 1 /\ own /\ ~lost)
    <3>1. ~Reported
      BY <1>6 DEF Return, Reported, DownloadInv
    <3>2. ~Reported'
      BY <2>1, <2>3 DEF Reported
    <3> QED
      BY <2>1, <3>1, <3>2 DEF Transfer!vars, Reported
  <2> QED
    BY <2>2, <2>3
<1>7. CASE Kill
  <2>1. local' = SubSeq(local, 1, saved) /\ UNCHANGED <<saved, own, lost, result>>
    BY <1>7 DEF Kill
  <2>2. SubSeq(local', 1, saved) = SubSeq(local, 1, saved)
    BY <1>0, <2>1, CutFacts
  <2> QED
    BY <2>1, <2>2 DEF Transfer!vars
<1>8. CASE \/ Open \/ Begin \/ Fail \/ Finish \/ Decide \/ Undecided \/ Settle
          \/ UNCHANGED vars
  BY <1>2, <1>8 DEF Open, Begin, Fail, Finish, Decide, Undecided, Settle, vars, file
<1> QED
  BY <1>1, <1>3, <1>4, <1>5, <1>6, <1>7, <1>8 DEF Next, Step

(* However often the step is run, the calls implement one transfer that    *)
(* only grows and reports the whole file (updown.c:101-149).               *)
THEOREM TransferImplemented == Spec => ImplementsTransfer
<1>1. Init => Transfer!Init
  <2> SUFFICES ASSUME Init PROVE Transfer!Init
    OBVIOUS
  <2>1. own => local = <<>> /\ saved = 0
    BY EmptySeq DEF Init
  <2>2. SubSeq(<<>>, 1, 0) = <<>>
    BY SubSeqEmpty
  <2>3. result = 0
    BY DEF Init
  <2> QED
    BY <2>1, <2>2, <2>3 DEF Transfer!Init
<1> QED
  BY <1>1, TransferStep, DownloadTypeAndInv, PTL
  DEF Spec, ImplementsTransfer, Transfer!Spec
=============================================================================
