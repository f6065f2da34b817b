------------------------- MODULE RequestPipelineProofs -------------------------
(***************************************************************************)
(* Proofs about RequestPipeline, for any calls, any number of retries and  *)
(* stops.  What an attempt has written is counted with how far the thread  *)
(* is with it: before the first write it has written nothing, and once a   *)
(* picture or token is written its run can only end without a body, which  *)
(* validBody never objects to.  A refusal in a buffer is true already.     *)
(***************************************************************************)
EXTENDS RequestPipeline, TLAPS

(* Connections are opened in order, and for calls that were made; before     *)
(* the thread takes a request nothing is written for it.                     *)
ConnectionsSound ==
    /\ \A a \in Attempt : conn[a] # "none" => a[2] <= attempt[a[1]]
    /\ \A c \in Call : client[c] = "idle" => attempt[c] = 0
    /\ \A a \in Attempt : conn[a] \in {"none", "received"} => applied[a] = 0

ThreadSound ==
    thread # Idle =>
        /\ conn[thread.at] = "handled"
        /\ op[thread.at[1]] = "set" =>
              /\ thread.step = "handle" => applied[thread.at] = 0
              /\ thread.step # "push"

Stored(c) == \E i \in 1 .. MaxRetries + 1 : applied[<<c, i>>] > 0

RefusalsSound ==
    /\ \A a \in Attempt : sendBuf[a] = "refused" => Stored(a[1])
    /\ \A c \in Call : client[c] = "refused" => Stored(c)

StoredOnce ==
    \A c \in Call : op[c] = "create" =>
        \A i, j \in 1 .. MaxRetries + 1 :
            applied[<<c, i>>] > 0 /\ applied[<<c, j>>] > 0 => i = j /\ applied[<<c, i>>] = 1

IInv ==
    /\ TypeOK
    /\ ConnectionsSound
    /\ ThreadSound
    /\ RefusalsSound
    /\ StoredOnce
    /\ BodilessRunOnce

-----------------------------------------------------------------------------
LEMMA AttemptKnown ==
    ASSUME NEW c \in Call, NEW i \in 1 .. MaxRetries + 1
    PROVE  <<c, i>> \in Attempt /\ <<c, i>>[1] = c /\ <<c, i>>[2] = i
BY DEF Attempt

LEMMA AttemptIs ==
    ASSUME NEW a \in Attempt
    PROVE  a[1] \in Call /\ a[2] \in 1 .. MaxRetries + 1 /\ a = <<a[1], a[2]>>
BY DEF Attempt

(* A server that runs and clients without calls satisfy the invariant.       *)
LEMMA InitInv == Init => IInv
<1> SUFFICES ASSUME Init PROVE IInv
  OBVIOUS
<1> USE DEF Init
<1>1. TypeOK
  BY RetriesAssumption, StopsAssumption DEF TypeOK
<1>2. ConnectionsSound /\ ThreadSound /\ BodilessRunOnce
  BY DEF ConnectionsSound, ThreadSound, BodilessRunOnce
<1>3. RefusalsSound
  BY DEF RefusalsSound
<1>4. StoredOnce
  BY AttemptKnown DEF StoredOnce
<1>5. QED
  BY <1>1, <1>2, <1>3, <1>4 DEF IInv

(* Nothing is written: what was stored and refused stays as it is.           *)
LEMMA NoWrite ==
    ASSUME IInv, applied' = applied, op' = op,
           \A a \in Attempt : sendBuf'[a] = "refused" => sendBuf[a] = "refused" \/ Stored(a[1]),
           \A c \in Call : client'[c] = "refused" => client[c] = "refused" \/ Stored(c)
    PROVE  RefusalsSound' /\ StoredOnce' /\ BodilessRunOnce'
<1>1. \A c : Stored(c) <=> Stored(c)'
  BY DEF Stored
<1>2. RefusalsSound'
  BY <1>1 DEF IInv, RefusalsSound
<1>3. StoredOnce' /\ BodilessRunOnce'
  BY DEF IInv, StoredOnce, BodilessRunOnce
<1>4. QED
  BY <1>2, <1>3

-----------------------------------------------------------------------------
(* The client.  A call that is made had no connection, so nothing was        *)
(* written for it and the thread is not busy with it.                        *)
LEMMA SendInv ==
    ASSUME IInv, NEW c \in Call, NEW k \in Asks[c], Send(c, k)
    PROVE  IInv'
<1> USE DEF Send
<1>1. k \in Op
  BY AsksAssumption
<1>2. <<c, 1>> \in Attempt /\ <<c, 1>>[1] = c /\ <<c, 1>>[2] = 1 /\ 1 \in 0 .. MaxRetries + 1
  BY AttemptKnown, RetriesAssumption
<1>3. \A a \in Attempt : a[1] = c => conn[a] = "none" /\ applied[a] = 0
  <2> SUFFICES ASSUME NEW a \in Attempt, a[1] = c PROVE conn[a] = "none" /\ applied[a] = 0
    OBVIOUS
  <2>1. a[2] >= 1 /\ a[2] \in Nat /\ attempt[c] = 0
    BY AttemptIs, RetriesAssumption DEF IInv, ConnectionsSound
  <2>2. conn[a] = "none"
    BY <2>1 DEF IInv, ConnectionsSound
  <2>3. QED
    BY <2>2 DEF IInv, ConnectionsSound
<1>4. TypeOK'
  BY <1>1, <1>2 DEF IInv, TypeOK
<1>5. ConnectionsSound'
  <2>1. \A a \in Attempt : conn'[a] = conn[a] \/ (a = <<c, 1>> /\ conn'[a] = "received" /\ attempt'[c] = 1)
    BY <1>2 DEF IInv, TypeOK
  <2>2. \A d \in Call : attempt'[d] = attempt[d] \/ (d = c /\ attempt'[d] = 1)
    BY DEF IInv, TypeOK
  <2>3. \A a \in Attempt : conn'[a] # "none" => a[2] <= attempt'[a[1]]
    BY <1>2, <1>3, <2>1, <2>2, AttemptIs DEF IInv, ConnectionsSound
  <2>4. \A d \in Call : client'[d] = "idle" => d # c /\ client[d] = "idle"
    BY DEF IInv, TypeOK
  <2>5. \A d \in Call : client'[d] = "idle" => attempt'[d] = 0
    BY <2>2, <2>4 DEF IInv, ConnectionsSound
  <2>6. \A a \in Attempt : conn'[a] \in {"none", "received"} => applied'[a] = 0
    BY <1>2, <1>3, <2>1 DEF IInv, ConnectionsSound
  <2>7. QED
    BY <2>3, <2>5, <2>6 DEF ConnectionsSound
<1>6. ThreadSound'
  <2> SUFFICES ASSUME thread # Idle PROVE ThreadSound'
    BY DEF ThreadSound
  <2>1. thread.at \in Attempt /\ conn[thread.at] = "handled"
    BY DEF IInv, TypeOK, ThreadSound
  <2>2. thread.at[1] # c /\ thread.at[1] \in Call
    BY <1>3, <2>1, AttemptIs
  <2>3. conn'[thread.at] = "handled" /\ op'[thread.at[1]] = op[thread.at[1]]
    BY <1>2, <2>1, <2>2 DEF IInv, TypeOK
  <2>4. QED
    BY <2>3 DEF IInv, ThreadSound
<1>7. RefusalsSound'
  <2>1. \A d : Stored(d) <=> Stored(d)'
    BY DEF Stored
  <2>2. \A d \in Call : client'[d] = "refused" => client[d] = "refused"
    BY DEF IInv, TypeOK
  <2>3. QED
    BY <2>1, <2>2 DEF IInv, RefusalsSound
<1>8. \A d \in Call : d # c => op'[d] = op[d]
  BY DEF IInv, TypeOK
<1>9. StoredOnce'
  <2>1. \A i \in 1 .. MaxRetries + 1 : applied[<<c, i>>] = 0
    BY <1>3, AttemptKnown
  <2>2. QED
    BY <1>8, <2>1 DEF IInv, StoredOnce
<1>10. BodilessRunOnce'
  <2>1. \A a \in Attempt : a[1] # c => op'[a[1]] = op[a[1]]
    BY <1>8, AttemptIs
  <2>2. QED
    BY <1>3, <2>1 DEF IInv, BodilessRunOnce
<1>11. QED
  BY <1>4, <1>5, <1>6, <1>7, <1>9, <1>10 DEF IInv

(* A new attempt of a call opens a connection that was not there.            *)
LEMMA OpenNext ==
    ASSUME IInv, NEW c \in Call, attempt[c] <= MaxRetries
    PROVE  /\ <<c, attempt[c] + 1>> \in Attempt
           /\ attempt[c] + 1 \in 0 .. MaxRetries + 1
           /\ conn[<<c, attempt[c] + 1>>] = "none" /\ applied[<<c, attempt[c] + 1>>] = 0
<1>1. attempt[c] \in Nat /\ attempt[c] + 1 \in 1 .. MaxRetries + 1
  BY RetriesAssumption DEF IInv, TypeOK
<1>2. <<c, attempt[c] + 1>> \in Attempt
  BY <1>1, AttemptKnown
<1>3. ~(attempt[c] + 1 <= attempt[c])
  BY <1>1
<1>4. conn[<<c, attempt[c] + 1>>] = "none"
  BY <1>2, <1>3 DEF IInv, ConnectionsSound
<1>5. QED
  BY <1>1, <1>2, <1>4 DEF IInv, ConnectionsSound

LEMMA RetryInv ==
    ASSUME IInv, NEW c \in Call, Retry(c)
    PROVE  IInv'
<1> USE DEF Retry
<1> DEFINE b == <<c, attempt[c] + 1>>
<1>1. b \in Attempt /\ attempt[c] + 1 \in 0 .. MaxRetries + 1 /\ conn[b] = "none" /\ applied[b] = 0
  BY OpenNext
<1>2. TypeOK'
  BY <1>1 DEF IInv, TypeOK
<1>3. ConnectionsSound'
  <2>1. \A a \in Attempt : conn'[a] = conn[a] \/ (a = b /\ conn'[a] = "received")
    BY DEF IInv, TypeOK
  <2>2. \A d \in Call : attempt'[d] = IF d = c THEN attempt[c] + 1 ELSE attempt[d]
    BY DEF IInv, TypeOK
  <2>3. \A d \in Call : attempt[d] \in Nat
    BY RetriesAssumption DEF IInv, TypeOK
  <2>4. ASSUME NEW a \in Attempt, conn'[a] # "none" PROVE a[2] <= attempt'[a[1]]
    <3>1. a[1] \in Call /\ a[2] \in Nat
      BY AttemptIs, RetriesAssumption
    <3>2. CASE a = b
      BY <2>2, <2>3, <3>1, <3>2
    <3>3. CASE a # b
      <4>1. a[2] <= attempt[a[1]]
        BY <2>1, <2>4, <3>3 DEF IInv, ConnectionsSound
      <4>2. QED
        BY <2>2, <2>3, <3>1, <4>1
    <3>4. QED
      BY <3>2, <3>3
  <2>5. \A d \in Call : client'[d] = "idle" => attempt'[d] = 0
    BY <2>2 DEF IInv, ConnectionsSound
  <2>6. \A a \in Attempt : conn'[a] \in {"none", "received"} => applied'[a] = 0
    BY <1>1, <2>1 DEF IInv, ConnectionsSound
  <2>7. QED
    BY <2>4, <2>5, <2>6 DEF ConnectionsSound
<1>4. ThreadSound'
  <2> SUFFICES ASSUME thread # Idle PROVE ThreadSound'
    BY DEF ThreadSound
  <2>1. thread.at \in Attempt /\ conn[thread.at] = "handled"
    BY DEF IInv, TypeOK, ThreadSound
  <2>2. conn'[thread.at] = "handled"
    BY <1>1, <2>1 DEF IInv, TypeOK
  <2>3. QED
    BY <2>2 DEF IInv, ThreadSound
<1>5. RefusalsSound' /\ StoredOnce' /\ BodilessRunOnce'
  BY NoWrite
<1>6. QED
  BY <1>2, <1>3, <1>4, <1>5 DEF IInv

LEMMA GiveUpInv ==
    ASSUME IInv, NEW c \in Call, GiveUp(c)
    PROVE  IInv'
<1> USE DEF GiveUp
<1>1. TypeOK'
  BY DEF IInv, TypeOK
<1>2. \A d \in Call : client'[d] \in {client[d], "failed"}
  BY DEF IInv, TypeOK
<1>3. ConnectionsSound'
  BY <1>2 DEF IInv, ConnectionsSound
<1>4. ThreadSound'
  BY DEF IInv, ThreadSound
<1>5. RefusalsSound' /\ StoredOnce' /\ BodilessRunOnce'
  BY <1>2, NoWrite
<1>6. QED
  BY <1>1, <1>3, <1>4, <1>5 DEF IInv

-----------------------------------------------------------------------------
(* The thread takes a request for which nothing was written.                 *)
LEMMA EvHandlerInv ==
    ASSUME IInv, NEW a \in Attempt, EvHandler(a)
    PROVE  IInv'
<1> USE DEF EvHandler
<1>1. thread' = [step |-> "handle", at |-> a, run |-> 1] /\ thread'.at = a /\ thread'.step = "handle"
  OBVIOUS
<1>2. TypeOK'
  BY DEF IInv, TypeOK
<1>3. conn'[a] = "handled" /\ \A b \in Attempt : b # a => conn'[b] = conn[b]
  BY DEF IInv, TypeOK
<1>4. ConnectionsSound'
  BY <1>3 DEF IInv, ConnectionsSound
<1>5. applied[a] = 0
  BY DEF IInv, ConnectionsSound
<1>6. ThreadSound'
  BY <1>1, <1>3, <1>5 DEF ThreadSound
<1>7. RefusalsSound' /\ StoredOnce' /\ BodilessRunOnce'
  BY NoWrite
<1>8. QED
  BY <1>2, <1>4, <1>6, <1>7 DEF IInv

(* The thread is busy with a request of a call that was made.                *)
LEMMA Busy ==
    ASSUME IInv, thread.step \in {"handle", "push", "finish"}
    PROVE  /\ thread \in [step : {"handle", "push", "finish"}, at : Attempt, run : 1 .. 2]
           /\ thread # Idle /\ At \in Attempt /\ At[1] \in Call /\ conn[At] = "handled"
           /\ Asked = "set" => /\ thread.step = "handle" => applied[At] = 0
                               /\ thread.step # "push"
<1>1. thread # Idle
  BY DEF Idle
<1>2. thread \in [step : {"handle", "push", "finish"}, at : Attempt, run : 1 .. 2]
  BY <1>1 DEF IInv, TypeOK
<1>3. At \in Attempt
  BY <1>2 DEF At
<1>4. QED
  BY <1>1, <1>2, <1>3, AttemptIs DEF IInv, ThreadSound, At, Asked

(* An answer keeps the invariant if a refusal in it is true and if only a    *)
(* run that wrote nothing for a picture or token has a body.                 *)
LEMMA AnswerInv ==
    ASSUME IInv, thread.step \in {"handle", "push", "finish"}, NEW s \in Status, Answer(s),
           s = "refused" => Stored(At[1]),
           Asked = "set" => applied[At] = 0 \/ ~HasBody("set", s),
           UNCHANGED <<op, client, attempt, applied, up, stops>>
    PROVE  IInv'
<1>1. /\ thread \in [step : {"handle", "push", "finish"}, at : Attempt, run : 1 .. 2]
      /\ thread # Idle /\ At \in Attempt /\ At[1] \in Call /\ conn[At] = "handled"
  BY Busy
<1>2. CASE Release(s)
  <2> USE <1>2 DEF Release
  <2>1. PICK out \in Sent(s) : sendBuf' = [sendBuf EXCEPT ![At] = out]
    OBVIOUS
  <2>2. out \in Sending /\ (out = "refused" => s = "refused")
    BY <2>1 DEF Sent, Sending
  <2>3. TypeOK'
    BY <1>1, <2>1, <2>2 DEF IInv, TypeOK
  <2>4. conn'[At] = "answering" /\ \A b \in Attempt : b # At => conn'[b] = conn[b]
    BY <1>1 DEF IInv, TypeOK
  <2>5. ConnectionsSound'
    BY <1>1, <2>4 DEF IInv, ConnectionsSound
  <2>6. ThreadSound'
    BY DEF ThreadSound
  <2>7. \A b \in Attempt : sendBuf'[b] = "refused" => sendBuf[b] = "refused" \/ Stored(b[1])
    BY <1>1, <2>1, <2>2 DEF IInv, TypeOK
  <2>8. RefusalsSound' /\ StoredOnce' /\ BodilessRunOnce'
    BY <2>7, NoWrite
  <2>9. QED
    BY <2>3, <2>5, <2>6, <2>8 DEF IInv
<1>3. CASE FALSE \in ValidBody(Asked, s) /\ RunAgain
  <2> USE <1>3 DEF RunAgain
  <2>1. /\ thread' \in [step : {"handle", "push", "finish"}, at : Attempt, run : 1 .. 2]
        /\ thread'.at = At /\ thread'.step = "handle"
    <3>1. 2 \in 1 .. 2 /\ thread' = [thread EXCEPT !.step = "handle", !.run = 2]
      OBVIOUS
    <3>2. thread' = [step |-> "handle", at |-> thread.at, run |-> 2]
      BY <1>1, <3>1
    <3>3. QED
      BY <1>1, <3>1, <3>2 DEF At
  <2>2. TypeOK'
    BY <2>1 DEF IInv, TypeOK
  <2>3. HasBody(Asked, s)
    BY DEF ValidBody
  <2>4. Asked = "set" => applied[At] = 0
    BY <2>3
  <2>5. ThreadSound'
    BY <1>1, <2>1, <2>4 DEF ThreadSound, Asked
  <2>6. ConnectionsSound'
    BY DEF IInv, ConnectionsSound
  <2>7. RefusalsSound' /\ StoredOnce' /\ BodilessRunOnce'
    BY NoWrite
  <2>8. QED
    BY <2>2, <2>5, <2>6, <2>7 DEF IInv
<1>4. QED
  BY <1>2, <1>3 DEF Answer

LEMMA RespondInv ==
    ASSUME IInv, NEW s \in Status, Respond(s)
    PROVE  IInv'
<1> USE DEF Respond
<1>1. thread.step \in {"handle", "push", "finish"}
  OBVIOUS
<1>2. Asked = "set" => applied[At] = 0
  BY <1>1, Busy
<1>3. s = "refused" => Stored(At[1])
  BY DEF Taken, Stored
<1>4. QED
  BY <1>1, <1>2, <1>3, AnswerInv

LEMMA FinishInv ==
    ASSUME IInv, NEW s \in Status, Finish(s)
    PROVE  IInv'
<1> USE DEF Finish
<1>1. thread.step \in {"handle", "push", "finish"} /\ s # "refused"
  OBVIOUS
<1>2. Asked = "set" => s = "ok"
  BY <1>1, Busy
<1>3. Asked = "set" => ~HasBody("set", s)
  BY <1>2 DEF HasBody
<1>4. QED
  BY <1>1, <1>3, AnswerInv

(* The first write: savePerson has just seen that the mail is free, and a    *)
(* picture or token was not written before in this attempt.                  *)
LEMMA WriteInv ==
    ASSUME IInv, Write
    PROVE  IInv'
<1> USE DEF Write
<1> DEFINE c == At[1]
<1>1. /\ thread \in [step : {"handle", "push", "finish"}, at : Attempt, run : 1 .. 2]
      /\ thread # Idle /\ At \in Attempt /\ c \in Call /\ conn[At] = "handled"
      /\ Asked = "set" => applied[At] = 0
  BY Busy
<1>2. /\ thread' \in [step : {"handle", "push", "finish"}, at : Attempt, run : 1 .. 2]
      /\ thread'.at = At /\ thread'.step \in {"push", "finish"}
      /\ Asked = "set" => thread'.step = "finish"
  BY <1>1 DEF At
<1>3. /\ applied' \in [Attempt -> Nat]
      /\ \A b \in Attempt : b # At => applied'[b] = applied[b]
      /\ applied'[At] \in {applied[At], applied[At] + 1}
      /\ applied[At] \in Nat
  BY <1>1 DEF IInv, TypeOK
<1>4. TypeOK'
  BY <1>2, <1>3 DEF IInv, TypeOK
<1>5. ConnectionsSound'
  BY <1>1, <1>3 DEF IInv, ConnectionsSound
<1>6. ThreadSound'
  BY <1>1, <1>2 DEF ThreadSound, Asked
<1>7. \A d \in Call : Stored(d) => Stored(d)'
  <2> SUFFICES ASSUME NEW d \in Call, NEW i \in 1 .. MaxRetries + 1, applied[<<d, i>>] > 0
               PROVE  applied'[<<d, i>>] > 0
    BY DEF Stored
  <2>1. <<d, i>> \in Attempt /\ applied[<<d, i>>] \in Nat
    BY AttemptKnown DEF IInv, TypeOK
  <2>2. QED
    BY <1>3, <2>1
<1>8. RefusalsSound'
  BY <1>7, AttemptIs DEF IInv, RefusalsSound
<1>9. StoredOnce'
  <2> SUFFICES ASSUME NEW d \in Call, op[d] = "create",
                      NEW i \in 1 .. MaxRetries + 1, NEW j \in 1 .. MaxRetries + 1,
                      applied'[<<d, i>>] > 0, applied'[<<d, j>>] > 0
               PROVE  i = j /\ applied'[<<d, i>>] = 1
    BY DEF StoredOnce
  <2>1. /\ <<d, i>> \in Attempt /\ <<d, j>> \in Attempt
        /\ <<d, i>>[1] = d /\ <<d, j>>[1] = d /\ At = <<At[1], At[2]>>
    BY <1>1, AttemptKnown, AttemptIs
  <2>2. CASE d # c
    BY <1>3, <2>1, <2>2 DEF IInv, StoredOnce
  <2>3. CASE d = c
    <3>1. \A n \in 1 .. MaxRetries + 1 : ~(applied[<<c, n>>] > 0)
      BY <2>3 DEF Asked, Taken
    <3>2. applied[<<d, i>>] = 0 /\ applied[<<d, j>>] = 0
      BY <2>1, <2>3, <3>1 DEF IInv, TypeOK
    <3>3. <<d, i>> = At /\ <<d, j>> = At
      BY <1>3, <2>1, <3>2
    <3>4. i = j /\ applied[At] = 0 /\ applied'[At] > 0
      BY <2>1, <3>2, <3>3
    <3>5. QED
      BY <1>3, <3>3, <3>4
  <2>4. QED
    BY <2>2, <2>3
<1>10. BodilessRunOnce'
  <2> SUFFICES ASSUME NEW b \in Attempt, op[b[1]] = "set" PROVE applied'[b] <= 1
    BY DEF BodilessRunOnce
  <2>1. CASE b = At
    BY <1>1, <1>3, <2>1 DEF Asked
  <2>2. CASE b # At
    BY <1>3, <2>2 DEF IInv, BodilessRunOnce
  <2>3. QED
    BY <2>1, <2>2
<1>11. QED
  BY <1>4, <1>5, <1>6, <1>8, <1>9, <1>10 DEF IInv

LEMMA PushEndsInv ==
    ASSUME IInv, PushEnds
    PROVE  IInv'
<1> USE DEF PushEnds
<1>1. /\ thread \in [step : {"handle", "push", "finish"}, at : Attempt, run : 1 .. 2]
      /\ thread # Idle /\ conn[At] = "handled"
  BY Busy
<1>2. /\ thread' \in [step : {"handle", "push", "finish"}, at : Attempt, run : 1 .. 2]
      /\ thread'.at = At /\ thread'.step = "finish"
  BY <1>1 DEF At
<1>3. TypeOK'
  BY <1>2 DEF IInv, TypeOK
<1>4. ThreadSound'
  BY <1>1, <1>2 DEF ThreadSound
<1>5. ConnectionsSound'
  BY DEF IInv, ConnectionsSound
<1>6. RefusalsSound' /\ StoredOnce' /\ BodilessRunOnce'
  BY NoWrite
<1>7. QED
  BY <1>3, <1>4, <1>5, <1>6 DEF IInv

-----------------------------------------------------------------------------
LEMMA ServeHttpInv ==
    ASSUME IInv, NEW a \in Attempt, ServeHttp(a)
    PROVE  IInv'
<1> USE DEF ServeHttp
<1>1. TypeOK'
  BY DEF IInv, TypeOK, Sending
<1>2. conn'[a] = "answering" /\ \A b \in Attempt : b # a => conn'[b] = conn[b]
  BY DEF IInv, TypeOK
<1>3. ConnectionsSound'
  BY <1>2 DEF IInv, ConnectionsSound
<1>4. ThreadSound'
  BY DEF ThreadSound
<1>5. \A b \in Attempt : sendBuf'[b] = "refused" => sendBuf[b] = "refused"
  BY DEF IInv, TypeOK
<1>6. RefusalsSound' /\ StoredOnce' /\ BodilessRunOnce'
  BY <1>5, NoWrite
<1>7. QED
  BY <1>1, <1>3, <1>4, <1>6 DEF IInv

(* The client takes an answer, or opens the next connection after a denial.  *)
LEMMA FlushInv ==
    ASSUME IInv, NEW a \in Attempt, Flush(a)
    PROVE  IInv'
<1> DEFINE c == a[1]
           waiting == client[c] = "waiting" /\ attempt[c] = a[2]
           again == waiting /\ sendBuf[a] = "denied" /\ attempt[c] <= MaxRetries
           written == [conn EXCEPT ![a] = "written"]
           b == <<c, a[2] + 1>>
<1>1. /\ up /\ thread = Idle /\ conn[a] = "answering"
      /\ sendBuf' = [sendBuf EXCEPT ![a] = "none"]
      /\ UNCHANGED <<op, applied, thread, up, stops>>
  BY DEF Flush
<1>2. c \in Call /\ a[2] \in 1 .. MaxRetries + 1
  BY AttemptIs
<1>3. ThreadSound'
  BY <1>1 DEF ThreadSound
<1>4. \A d \in Attempt : sendBuf'[d] = "refused" => sendBuf[d] = "refused"
  BY <1>1 DEF IInv, TypeOK
<1>5. /\ written \in [Attempt -> {"none", "received", "handled", "answering", "written", "cut"}]
      /\ \A d \in Attempt : written[d] = conn[d] \/ (d = a /\ written[d] = "written")
  BY DEF IInv, TypeOK
<1>6. CASE again
  <2>1. /\ conn' = [written EXCEPT ![b] = "received"]
        /\ attempt' = [attempt EXCEPT ![c] = @ + 1] /\ client' = client
    BY <1>6 DEF Flush
  <2>2. /\ b \in Attempt /\ attempt[c] + 1 \in 0 .. MaxRetries + 1
        /\ conn[b] = "none" /\ applied[b] = 0
    BY <1>2, <1>6, OpenNext
  <2>3. TypeOK'
    BY <1>1, <1>5, <2>1, <2>2 DEF IInv, TypeOK
  <2>4. \A d \in Attempt :
           \/ conn'[d] = conn[d] /\ d # b
           \/ d = a /\ conn'[d] = "written"
           \/ d = b /\ conn'[d] = "received"
    <3> HIDE DEF written, b
    <3>1. \A d \in Attempt : conn'[d] = IF d = b THEN "received" ELSE written[d]
      BY <1>5, <2>1
    <3>2. QED
      BY <1>5, <3>1
  <2>5. /\ \A d \in Call : attempt'[d] = IF d = c THEN attempt[c] + 1 ELSE attempt[d]
        /\ \A d \in Call : attempt[d] \in Nat
    <3>1. \A d \in Call : attempt[d] \in Nat
      BY RetriesAssumption DEF IInv, TypeOK
    <3>2. attempt \in [Call -> 0 .. MaxRetries + 1]
      BY DEF IInv, TypeOK
    <3>3. QED
      BY <2>1, <3>1, <3>2
  <2>6. ASSUME NEW d \in Attempt, conn'[d] # "none" PROVE d[2] <= attempt'[d[1]]
    <3>1. d[1] \in Call /\ d[2] \in Nat
      BY AttemptIs, RetriesAssumption
    <3>2. CASE d = b
      BY <1>6, <2>5, <3>1, <3>2
    <3>3. CASE d # b
      <4>1. conn[d] # "none"
        BY <1>1, <2>4, <2>6, <3>3
      <4>2. d[2] <= attempt[d[1]]
        BY <4>1 DEF IInv, ConnectionsSound
      <4>3. QED
        BY <2>5, <3>1, <4>2
    <3>4. QED
      BY <3>2, <3>3
  <2>7. \A d \in Call : client'[d] = "idle" => attempt'[d] = 0
    BY <1>6, <2>1, <2>5 DEF IInv, ConnectionsSound
  <2>8. \A d \in Attempt : conn'[d] \in {"none", "received"} => applied'[d] = 0
    BY <1>1, <2>2, <2>4 DEF IInv, ConnectionsSound
  <2>9. ConnectionsSound'
    BY <2>6, <2>7, <2>8 DEF ConnectionsSound
  <2>10. RefusalsSound' /\ StoredOnce' /\ BodilessRunOnce'
    BY <1>1, <1>4, <2>1, NoWrite
  <2>11. QED
    BY <1>3, <2>3, <2>9, <2>10 DEF IInv
<1>7. CASE ~again
  <2>1. /\ conn' = written /\ attempt' = attempt
        /\ client' = IF waiting THEN [client EXCEPT ![c] = Received(sendBuf[a])] ELSE client
    BY <1>7 DEF Flush
  <2>2. /\ Received(sendBuf[a]) \in {"answered", "refused", "failed"}
        /\ Received(sendBuf[a]) = "refused" => sendBuf[a] = "refused"
    BY DEF Received
  <2>3. TypeOK'
    BY <1>1, <1>5, <2>1, <2>2 DEF IInv, TypeOK
  <2>4. \A d \in Call : client'[d] = client[d] \/ (d = c /\ client'[d] = Received(sendBuf[a]))
    BY <2>1 DEF IInv, TypeOK
  <2>5. ConnectionsSound'
    BY <1>1, <1>5, <2>1, <2>2, <2>4 DEF IInv, ConnectionsSound
  <2>6. \A d \in Call : client'[d] = "refused" => client[d] = "refused" \/ Stored(d)
    BY <2>2, <2>4 DEF IInv, RefusalsSound
  <2>7. RefusalsSound' /\ StoredOnce' /\ BodilessRunOnce'
    BY <1>1, <1>4, <2>6, NoWrite
  <2>8. QED
    BY <1>3, <2>3, <2>5, <2>7 DEF IInv
<1>8. QED
  BY <1>6, <1>7

LEMMA StopStartInv ==
    ASSUME IInv, Stop \/ Start
    PROVE  IInv'
<1>1. CASE Stop
  <2> USE <1>1 DEF Stop
  <2>1. TypeOK'
    <3>1. stops' \in 0 .. MaxStops
      BY StopsAssumption DEF IInv, TypeOK
    <3> up' \in BOOLEAN
      OBVIOUS
    <3>2. conn' \in [Attempt -> {"none", "received", "handled", "answering", "written", "cut"}]
      BY DEF IInv, TypeOK
    <3>3. sendBuf' \in [Attempt -> Sending \cup {"none"}]
      OBVIOUS
    <3>4. /\ op' = op /\ client' = client /\ attempt' = attempt /\ applied' = applied
          /\ thread' = Idle
      OBVIOUS
    <3> HIDE <1>1
    <3>5. QED
      BY <3>1, <3>2, <3>3, <3>4 DEF IInv, TypeOK
  <2>2. \A a \in Attempt : conn'[a] = conn[a] \/ (conn'[a] = "cut" /\ conn[a] # "none")
    OBVIOUS
  <2>3. ConnectionsSound'
    BY <2>2 DEF IInv, ConnectionsSound
  <2>4. ThreadSound'
    BY DEF ThreadSound
  <2>5. RefusalsSound' /\ StoredOnce' /\ BodilessRunOnce'
    BY NoWrite
  <2>6. QED
    BY <2>1, <2>3, <2>4, <2>5 DEF IInv
<1>2. CASE Start
  <2> USE <1>2 DEF Start
  <2>1. TypeOK' /\ ConnectionsSound' /\ ThreadSound'
    BY DEF IInv, TypeOK, ConnectionsSound, ThreadSound
  <2>2. RefusalsSound' /\ StoredOnce' /\ BodilessRunOnce'
    BY NoWrite
  <2>3. QED
    BY <2>1, <2>2 DEF IInv
<1>3. QED
  BY <1>1, <1>2

(* Every step keeps the invariant.                                           *)
LEMMA NextInv == IInv /\ [Next]_vars => IInv'
<1> SUFFICES ASSUME IInv, [Next]_vars PROVE IInv'
  OBVIOUS
<1>1. ASSUME NEW c \in Call, NEW k \in Asks[c], Send(c, k) PROVE IInv'
  BY <1>1, SendInv
<1>2. ASSUME NEW c \in Call, Retry(c) \/ GiveUp(c) PROVE IInv'
  BY <1>2, RetryInv, GiveUpInv
<1>3. ASSUME NEW a \in Attempt, EvHandler(a) \/ ServeHttp(a) \/ Flush(a) PROVE IInv'
  BY <1>3, EvHandlerInv, ServeHttpInv, FlushInv
<1>4. ASSUME NEW s \in Status, Respond(s) \/ Finish(s) PROVE IInv'
  BY <1>4, RespondInv, FinishInv
<1>5. CASE Write \/ PushEnds
  BY <1>5, WriteInv, PushEndsInv
<1>6. CASE Stop \/ Start
  BY <1>6, StopStartInv
<1>7. CASE UNCHANGED vars
  <2> USE <1>7 DEF vars
  <2>1. TypeOK' /\ ConnectionsSound' /\ ThreadSound'
    BY DEF IInv, TypeOK, ConnectionsSound, ThreadSound
  <2>2. RefusalsSound' /\ StoredOnce' /\ BodilessRunOnce'
    BY NoWrite
  <2>3. QED
    BY <2>1, <2>2 DEF IInv
<1>8. QED
  BY <1>1, <1>2, <1>3, <1>4, <1>5, <1>6, <1>7 DEF Next

-----------------------------------------------------------------------------
(***************************************************************************)
(* The inductive invariant holds in every reachable state of connections,  *)
(* thread and store.                                                       *)
(***************************************************************************)
THEOREM Inductive == Spec => []IInv
BY InitInv, NextInv, PTL DEF Spec

(***************************************************************************)
(* Every reachable state of the pipeline is well typed; no call has more   *)
(* attempts than Volley's policy allows.                                   *)
(***************************************************************************)
THEOREM TypeCorrect == Spec => []TypeOK
<1>1. IInv => TypeOK
  BY DEF IInv
<1>2. QED
  BY <1>1, Inductive, PTL

(***************************************************************************)
(* A picture or a token is written at most once for each attempt of the    *)
(* client, whatever validBody reads of the deleted body.                   *)
(***************************************************************************)
THEOREM BodilessAppliedOnce == Spec => []BodilessRunOnce
<1>1. IInv => BodilessRunOnce
  BY DEF IInv
<1>2. QED
  BY <1>1, Inductive, PTL

(***************************************************************************)
(* An account is stored at most once, over retries, second runs and        *)
(* crashes, and who is refused has it.                                     *)
(***************************************************************************)
THEOREM AccountsCreatedOnce == Spec => []CreatedOnce
<1>1. IInv => CreatedOnce
  BY DEF IInv, StoredOnce, RefusalsSound, Stored, CreatedOnce
<1>2. QED
  BY <1>1, Inductive, PTL
===============================================================================
