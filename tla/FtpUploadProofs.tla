-------------------------- MODULE FtpUploadProofs ---------------------------
(***************************************************************************)
(* Proofs about FtpUpload, for every local file, every older remote file   *)
(* and every number of attempts.                                           *)
(***************************************************************************)
EXTENDS FtpUpload, SequenceTheorems, TLAPS

(* Appending the local file's bytes from the length on to a beginning of   *)
(* the local file gives a longer beginning of it.                          *)
LEMMA PrefixGrows ==
  ASSUME NEW s \in Seq(Bytes), IsPrefix(s), NEW n \in Len(s)..Len(Local)
  PROVE  /\ s \o SubSeq(Local, Len(s) + 1, n) = SubSeq(Local, 1, n)
         /\ IsPrefix(s \o SubSeq(Local, Len(s) + 1, n))
<1>0. Local \in Seq(Bytes)
  BY FilesAssumption
<1>1. Len(s) \in Nat /\ Len(Local) \in Nat /\ Len(s) <= Len(Local)
  BY <1>0, LenProperties DEF IsPrefix
<1>2. SubSeq(Local, 1, Len(s)) \o SubSeq(Local, Len(s) + 1, n) = SubSeq(Local, 1, n)
  <2>1. 1 \in 1..(Len(Local) + 1) /\ Len(s) \in (1 - 1)..Len(Local)
    BY <1>1
  <2> QED
    BY ONLY <1>0, <2>1, n \in Len(s)..Len(Local), ConcatAdjacentSubSeq
<1>3. Len(SubSeq(Local, 1, n)) = n
  <2>1. 1 \in Int /\ n \in Int /\ \A k \in 1..n : Local[k] \in Bytes
    BY <1>0, <1>1, ElementOfSeq
  <2>2. Len(SubSeq(Local, 1, n)) = IF 1 <= n THEN n - 1 + 1 ELSE 0
    BY <2>1, SubSeqProperties
  <2> QED
    BY <1>1, <2>2
<1>4. s = SubSeq(Local, 1, Len(s))
  BY DEF IsPrefix
<1>5. s \o SubSeq(Local, Len(s) + 1, n) = SubSeq(Local, 1, n)
  BY <1>2, <1>4
<1>6. n <= Len(Local)
  BY <1>1
<1> QED
  BY <1>3, <1>5, <1>6 DEF IsPrefix

(* What a transfer that goes on where the remote file ends leaves there:   *)
(* again a sequence of bytes, a beginning of the local file, and all of it *)
(* when the transfer succeeded without a read error.                       *)
LEMMA TransferPrefix ==
  ASSUME TypeOK, NEW s \in Seq(Bytes), IsPrefix(s), Transfer(s, Len(s))
  PROVE  /\ remote' \in Seq(Bytes) /\ exists' = TRUE /\ r' \in {"ok", "error"}
         /\ bad' \in BOOLEAN
         /\ IsPrefix(remote)'
         /\ r' = "ok" /\ ~bad' => remote' = Local
<1>1. PICK n \in Len(s)..Len(Local) :
        /\ remote' = s \o SubSeq(Local, Len(s) + 1, n)
        /\ exists' = TRUE
        /\ r' \in {"ok", "error"} /\ bad' \in BOOLEAN
        /\ r' = "ok" /\ ~bad' => n = Len(Local)
  BY DEF Transfer, ReadsOn, ReadFails, TypeOK
<1>2. Local \in Seq(Bytes) /\ Len(Local) \in Nat /\ Len(s) \in Nat /\ n \in Nat
  BY FilesAssumption, LenProperties
<1>3. remote' = SubSeq(Local, 1, n) /\ IsPrefix(s \o SubSeq(Local, Len(s) + 1, n))
  BY <1>1, PrefixGrows
<1>4. remote' \in Seq(Bytes)
  BY <1>2, <1>3, SubSeqProperties
<1>5. SubSeq(Local, 1, Len(Local)) = Local
  BY <1>2, SubSeqFull
<1> QED
  BY <1>1, <1>3, <1>4, <1>5 DEF IsPrefix

(* Any transfer leaves a sequence of bytes.                                *)
LEMMA TransferType ==
  ASSUME TypeOK, NEW s \in Seq(Bytes), NEW p \in 0..Len(Local), Transfer(s, p)
  PROVE  /\ remote' \in Seq(Bytes) /\ exists' = TRUE /\ r' \in {"ok", "error"}
         /\ bad' \in BOOLEAN
<1>1. PICK n \in p..Len(Local) :
        /\ remote' = s \o SubSeq(Local, p + 1, n)
        /\ exists' = TRUE
        /\ r' \in {"ok", "error"} /\ bad' \in BOOLEAN
  BY DEF Transfer, ReadsOn, ReadFails, TypeOK
<1>2. Local \in Seq(Bytes) /\ Len(Local) \in Nat /\ n \in Nat /\ p \in Nat
  BY FilesAssumption, LenProperties
<1>3. SubSeq(Local, p + 1, n) \in Seq(Bytes)
  BY <1>1, <1>2, SubSeqProperties
<1> QED
  BY <1>1, <1>3, ConcatProperties

(* The empty file is a beginning of every file.                            *)
LEMMA EmptyPrefix == <<>> \in Seq(Bytes) /\ IsPrefix(<<>>) /\ Len(<<>>) = 0
<1>1. <<>> \in Seq(Bytes) /\ Len(<<>>) = 0
  BY EmptySeq
<1>2. Local \in Seq(Bytes) /\ Len(Local) \in Nat
  BY FilesAssumption, LenProperties
<1>3. SubSeq(Local, 1, 0) = <<>>
  BY <1>2, SubSeqEmpty
<1> QED
  BY <1>1, <1>2, <1>3 DEF IsPrefix

(* The call begins in a state of the right types that satisfies UploadInv. *)
LEMMA UploadInit == Init => TypeOK /\ UploadInv
<1> SUFFICES ASSUME Init PROVE TypeOK /\ UploadInv
  OBVIOUS
<1>1. c = 0 /\ c \in 0..tries
  BY TriesAssumption DEF Init
<1>2. CASE exists = FALSE /\ remote = <<>> /\ own = TRUE
  <2>1. remote \in Seq(Bytes) /\ IsPrefix(remote)
    BY <1>2, EmptyPrefix
  <2>2. Prefix
    BY <2>1 DEF Prefix
  <2>3. TypeOK
    BY <1>1, <1>2, <2>1 DEF Init, TypeOK
  <2> QED
    BY <1>1, <1>2, <2>1, <2>2, <2>3 DEF Init, TypeOK, UploadInv
<1>3. CASE exists = TRUE /\ remote \in Before /\ own = FALSE
  <2>1. remote \in Seq(Bytes)
    BY <1>3, FilesAssumption
  <2>2. Prefix
    BY <1>3 DEF Prefix
  <2>3. TypeOK
    BY <1>1, <1>3, <2>1 DEF Init, TypeOK
  <2> QED
    BY <1>1, <1>3, <2>1, <2>2, <2>3 DEF Init, TypeOK, UploadInv
<1> QED
  BY <1>2, <1>3 DEF Init

(* No step of the call leaves the types.                                   *)
LEMMA UploadType == TypeOK /\ UploadInv /\ [Next]_vars => TypeOK'
<1> SUFFICES ASSUME TypeOK, UploadInv, [Next]_vars PROVE TypeOK'
  OBVIOUS
<1> USE TriesAssumption
<1>0. Len(Local) \in Nat /\ Len(remote) \in Nat
  BY FilesAssumption, LenProperties DEF TypeOK
<1>1. CASE Open
  BY <1>1 DEF Open, TypeOK, file
<1>2. CASE Store
  <2>1. CASE NotReached
    BY <1>2, <2>1 DEF Store, NotReached, Again, TypeOK, file
  <2>2. CASE Transfer(<<>>, 0) /\ own' = TRUE
    <3>1. /\ remote' \in Seq(Bytes) /\ exists' = TRUE /\ r' \in {"ok", "error"}
          /\ bad' \in BOOLEAN
      <4>1. <<>> \in Seq(Bytes) /\ 0 \in 0..Len(Local) /\ Transfer(<<>>, 0)
        BY <1>0, <2>2, EmptyPrefix
      <4> QED
        BY <4>1, TransferType
    <3> QED
      BY <1>2, <2>2, <3>1 DEF Store, Again, TypeOK
  <2> QED
    BY <1>2, <2>1, <2>2 DEF Store
<1>3. CASE Size
  BY <1>0, <1>3 DEF Size, Again, TypeOK, file
<1>4. CASE AppendRest
  <2>1. c < tries
    BY <1>4 DEF AppendRest, UploadInv
  <2>2. CASE NotReached
    BY <1>4, <2>1, <2>2 DEF AppendRest, NotReached, TypeOK, file
  <2>3. CASE Transfer(remote, Position(uploaded_len)) /\ UNCHANGED own
    <3>1. Position(uploaded_len) \in 0..Len(Local)
      BY <1>0 DEF Position, TypeOK
    <3>2. /\ remote' \in Seq(Bytes) /\ exists' = TRUE /\ r' \in {"ok", "error"}
          /\ bad' \in BOOLEAN
      BY <2>3, <3>1, TransferType DEF TypeOK
    <3> QED
      BY <1>4, <2>1, <2>3, <3>2 DEF AppendRest, TypeOK
  <2> QED
    BY <1>4, <2>2, <2>3 DEF AppendRest
<1>5. CASE Return
  BY <1>5 DEF Return, TypeOK, file
<1>6. CASE UNCHANGED vars
  BY <1>6 DEF vars, TypeOK, file
<1> QED
  BY <1>1, <1>2, <1>3, <1>4, <1>5, <1>6 DEF Next

(* No step of the call breaks UploadInv.  A store starts from the empty    *)
(* prefix; an append goes on at the size just received, which is the       *)
(* remote file's length.                                                   *)
LEMMA UploadStep == TypeOK /\ UploadInv /\ [Next]_vars => UploadInv'
<1> SUFFICES ASSUME TypeOK, UploadInv, [Next]_vars PROVE UploadInv'
  OBVIOUS
<1> USE TriesAssumption
<1>1. CASE Open
  BY <1>1 DEF Open, TypeOK, UploadInv, Prefix, IsPrefix, file
<1>2. CASE Store
  <2>1. CASE NotReached
    BY <1>2, <2>1 DEF Store, NotReached, Again, TypeOK, UploadInv, Prefix,
                         IsPrefix, file
  <2>2. CASE Transfer(<<>>, 0) /\ own' = TRUE
    <3>1. /\ exists' = TRUE /\ IsPrefix(remote)'
          /\ r' = "ok" /\ ~bad' => remote' = Local
      BY <2>2, EmptyPrefix, TransferPrefix
    <3> QED
      BY <1>2, <2>2, <3>1 DEF Store, Again, TypeOK, UploadInv, Prefix
  <2> QED
    BY <1>2, <2>1, <2>2 DEF Store
<1>3. CASE Size
  BY <1>3 DEF Size, Again, TypeOK, UploadInv, Prefix, IsPrefix, file
<1>4. CASE AppendRest
  <2>1. CASE NotReached
    BY <1>4, <2>1 DEF AppendRest, NotReached, TypeOK, UploadInv, Prefix,
                         IsPrefix, file
  <2>2. CASE Transfer(remote, Position(uploaded_len)) /\ UNCHANGED own
    <3>1. exists' = TRUE
      BY <2>2 DEF Transfer
    <3>2. ASSUME own
          PROVE  IsPrefix(remote)' /\ (r' = "ok" /\ ~bad' => remote' = Local)
      <4>1. IsPrefix(remote) /\ uploaded_len = Len(remote)
        BY <1>4, <3>2 DEF AppendRest, UploadInv, Prefix
      <4>2. Position(uploaded_len) = Len(remote)
        BY <4>1 DEF Position, IsPrefix
      <4>3. Transfer(remote, Len(remote))
        BY <2>2, <4>2
      <4> QED
        BY <4>1, <4>3, TransferPrefix DEF TypeOK
    <3> QED
      BY <1>4, <2>2, <3>1, <3>2 DEF AppendRest, TypeOK, UploadInv, Prefix
  <2> QED
    BY <1>4, <2>1, <2>2 DEF AppendRest
<1>5. CASE Return
  BY <1>5 DEF Return, TypeOK, UploadInv, Prefix, IsPrefix, file
<1>6. CASE UNCHANGED vars
  BY <1>6 DEF vars, TypeOK, UploadInv, Prefix, IsPrefix, file
<1> QED
  BY <1>1, <1>2, <1>3, <1>4, <1>5, <1>6 DEF Next

(* The types and UploadInv hold in every state of every call.              *)
THEOREM UploadTypeAndInv == Spec => [](TypeOK /\ UploadInv)
  BY UploadInit, UploadType, UploadStep, PTL DEF Spec

(* upload() returns 1 only for a remote file that is the local one, unless *)
(* an older file was in its place or the local one could not be read       *)
(* (updown.c:94).                                                          *)
THEOREM SentWholeHolds == Spec => []SentWhole
<1>1. TypeOK /\ UploadInv => SentWhole
  BY DEF UploadInv, SentWhole
<1> QED
  BY <1>1, UploadTypeAndInv, PTL

(* What is on the server is the beginning of the local file all the time   *)
(* (updown.c:82).                                                          *)
THEOREM PrefixHolds == Spec => []Prefix
<1>1. TypeOK /\ UploadInv => Prefix
  BY DEF UploadInv
<1> QED
  BY <1>1, UploadTypeAndInv, PTL

(* The variables of an upload keep their types.                            *)
THEOREM UploadTypeOK == Spec => []TypeOK
  BY UploadTypeAndInv, PTL

-----------------------------------------------------------------------------
(* The attempts together are one transfer                                  *)

Sent == IF own THEN remote ELSE <<>>
Reported == result = 1 /\ own /\ ~bad

(* What is left there after an attempt is more of the file than before.    *)
LEMMA MoreSent ==
  ASSUME TypeOK, UploadInv, TypeOK', UploadInv', own', ~Reported, ~Reported',
         Len(Sent) <= Len(remote')
  PROVE  Sending!Next
<1>1. IsPrefix(remote)'
  BY DEF UploadInv, Prefix
<1>2. Sent' = SubSeq(Local, 1, Len(remote')) /\ Len(remote') <= Len(Local)
  BY <1>1 DEF IsPrefix, Sent
<1>3. Len(remote') \in Nat /\ Len(Sent) \in Nat /\ Len(Local) \in Nat
  BY FilesAssumption, LenProperties, EmptyPrefix DEF TypeOK, Sent
<1>4. Len(remote') \in Len(Sent)..Len(Local)
  BY <1>2, <1>3
<1> QED
  BY <1>2, <1>4 DEF Sending!Next, Sending!Receive, Sent, Reported

(* Each step brings more of the file, reports that it is whole, or is not  *)
(* seen.                                                                   *)
LEMMA SendingStep ==
  ASSUME TypeOK, UploadInv, [Next]_vars
  PROVE  [Sending!Next]_(Sending!vars)
<1>0. TypeOK' /\ UploadInv'
  BY UploadType, UploadStep
<1>1. ASSUME UNCHANGED <<file, bad, result>>
      PROVE  UNCHANGED Sending!vars
  BY <1>1 DEF Sending!vars, file
<1>2. CASE Store
  <2>1. CASE NotReached
    BY <1>1, <1>2, <2>1 DEF Store, NotReached
  <2>2. CASE Transfer(<<>>, 0) /\ own' = TRUE
    <3>1. ~Reported /\ ~Reported'
      BY <1>2 DEF Store, UploadInv, Reported
    <3>2. Sent = <<>>
      BY <1>2 DEF Store, UploadInv, Sent
    <3>3. Len(remote') \in Nat
      BY <1>0, LenProperties DEF TypeOK
    <3>4. Len(Sent) <= Len(remote')
      BY <3>2, <3>3, EmptyPrefix
    <3> QED
      BY <1>0, <2>2, <3>1, <3>4, MoreSent
  <2> QED
    BY <1>2, <2>1, <2>2 DEF Store
<1>3. CASE AppendRest
  <2>1. CASE NotReached
    BY <1>1, <1>3, <2>1 DEF AppendRest, NotReached
  <2>2. CASE Transfer(remote, Position(uploaded_len)) /\ UNCHANGED own
    <3>1. ~Reported /\ ~Reported' /\ UNCHANGED result
      BY <1>3 DEF AppendRest, UploadInv, Reported
    <3>2. CASE own
      <4>1. IsPrefix(remote) /\ uploaded_len = Len(remote) /\ remote \in Seq(Bytes)
        BY <1>3, <3>2 DEF AppendRest, UploadInv, Prefix, TypeOK
      <4>2. Position(uploaded_len) = Len(remote)
        BY <4>1 DEF Position, IsPrefix
      <4>3. PICK n \in Len(remote)..Len(Local) :
              remote' = remote \o SubSeq(Local, Len(remote) + 1, n)
        BY <2>2, <4>2 DEF Transfer
      <4>4. SubSeq(Local, Len(remote) + 1, n) \in Seq(Bytes)
        <5>1. Len(remote) \in Nat /\ Len(Local) \in Nat /\ Local \in Seq(Bytes)
          BY <4>1, FilesAssumption, LenProperties
        <5> QED
          BY <5>1, SubSeqProperties
      <4>5. Len(remote') = Len(remote) + Len(SubSeq(Local, Len(remote) + 1, n))
        BY <4>1, <4>3, <4>4, ConcatProperties
      <4>6. Len(Sent) <= Len(remote')
        BY <3>2, <4>1, <4>4, <4>5, LenProperties DEF Sent
      <4> QED
        BY <1>0, <2>2, <3>1, <3>2, <4>6, MoreSent
    <3>3. CASE ~own
      BY <2>2, <3>1, <3>3 DEF Sending!vars
    <3> QED
      BY <3>2, <3>3
  <2> QED
    BY <1>3, <2>1, <2>2 DEF AppendRest
<1>4. CASE Return
  <2>1. UNCHANGED <<file, bad>> /\ result = 0
    BY <1>4 DEF Return, UploadInv
  <2>2. CASE result' = 1 /\ own /\ ~bad
    <3>1. r = "ok" /\ pc = "loop"
      BY <1>4, <2>2 DEF Return
    <3>2. remote = Local
      BY <2>2, <3>1 DEF UploadInv
    <3> QED
      BY <2>1, <2>2, <3>2 DEF Sending!Next, Sending!Report, file
  <2>3. CASE ~(result' = 1 /\ own /\ ~bad)
    BY <2>1, <2>3 DEF Sending!vars, file
  <2> QED
    BY <2>2, <2>3
<1>5. CASE Open \/ Size \/ UNCHANGED vars
  BY <1>1, <1>5 DEF Open, Size, vars
<1> QED
  BY <1>2, <1>3, <1>4, <1>5 DEF Next

(* However many attempts it takes, an upload implements one transfer that  *)
(* only grows and reports the whole file (updown.c:63-99).                 *)
THEOREM SendingImplemented == Spec => ImplementsTransfer
<1>1. Init => Sending!Init
  BY DEF Init, Sending!Init
<1> QED
  BY <1>1, SendingStep, UploadTypeAndInv, PTL
  DEF Spec, ImplementsTransfer, Sending!Spec
=============================================================================
