------------------------ MODULE SubprocessHostProofs ------------------------
(***************************************************************************)
(* What SubprocessHost promises, for any goroutines, plugins, hosts,       *)
(* routes, definitions and bounds.                                         *)
(*                                                                         *)
(* A host's mutex makes everything a dispatch does to its process its own: *)
(* no other dispatch past the lock is on the same host, the ones of its    *)
(* own goroutine included (HostInvariant).  On it rest what a process and  *)
(* its host make of the lines between them, as long as the plugin writes   *)
(* nothing else (TalkInvariant), and how often a request is sent, whatever *)
(* the plugin writes (SendInvariant).                                      *)
(***************************************************************************)
EXTENDS SubprocessHost, SequenceTheorems, TLAPS

\* The stages in which a process is registered.
Started == {"handshake", "write", "read", "callback", "result"}

FrameOK(c, frame) ==
    /\ frame.serial \in 1 .. requests
    /\ frame.stage # "queued" => lock[Route[frame.plugin]] = c
    /\ frame.stage \in Started => processes[frame.plugin] # NoProcess

FramesOK ==
    \A c \in Callers : \A i \in DOMAIN frames[c] :
        /\ FrameOK(c, frames[c][i])
        /\ i # Len(frames[c]) => frames[c][i].stage = "result"

\* Dispatches are told apart by their requests and, past the lock, their hosts.
Apart(one, other) ==
    /\ one.serial # other.serial
    /\ one.stage # "queued" /\ other.stage # "queued" => Route[one.plugin] # Route[other.plugin]

FramesApart ==
    \A c, d \in Callers : \A i \in DOMAIN frames[c], j \in DOMAIN frames[d] :
        c # d \/ i # j => Apart(frames[c][i], frames[d][j])

HostInvariant == HostTypeOK /\ FramesOK /\ FramesApart /\ BudgetHolds

-----------------------------------------------------------------------------
(* Sequences of frames *)

LEMMA ChangeTop ==
    ASSUME NEW s \in Seq(Frame), s # <<>>, NEW f \in Frame,
           NEW t, t = [s EXCEPT ![Len(s)] = f]
    PROVE  /\ t \in Seq(Frame) /\ DOMAIN t = DOMAIN s /\ Len(t) = Len(s)
           /\ Len(s) \in DOMAIN s /\ t[Len(s)] = f
           /\ \A i \in DOMAIN s : i # Len(s) => t[i] = s[i]
OBVIOUS

LEMMA DropTop ==
    ASSUME NEW s \in Seq(Frame), s # <<>>, NEW t, t = SubSeq(s, 1, Len(s) - 1)
    PROVE  /\ t \in Seq(Frame) /\ DOMAIN t = DOMAIN s \ {Len(s)}
           /\ \A i \in DOMAIN t : t[i] = s[i]
           /\ t # <<>> => Len(t) = Len(s) - 1
OBVIOUS

\* The last frame becomes f, and g comes after it.
Pushed(s, f, g) == Append(SubSeq(s, 1, Len(s) - 1) \o <<f>>, g)

Grown(s, f, g, t) ==
    /\ t \in Seq(Frame) /\ Len(t) = Len(s) + 1 /\ DOMAIN t = DOMAIN s \cup {Len(s) + 1}
    /\ t[Len(s) + 1] = g /\ t[Len(s)] = f /\ Len(s) \in DOMAIN s
    /\ \A i \in DOMAIN s : i # Len(s) => t[i] = s[i]

LEMMA PushTop ==
    ASSUME NEW s \in Seq(Frame), s # <<>>, NEW f \in Frame, NEW g \in Frame,
           NEW t, t = Pushed(s, f, g)
    PROVE  Grown(s, f, g, t)
<1> DEFINE r == SubSeq(s, 1, Len(s) - 1)
           u == r \o <<f>>
<1>1. /\ Len(s) \in Nat \ {0} /\ DOMAIN s = 1 .. Len(s)
      /\ r \in Seq(Frame) /\ Len(r) = Len(s) - 1
      /\ \A i \in 1 .. Len(s) - 1 : r[i] = s[i]
  <2>1. Len(s) \in Nat \ {0} /\ DOMAIN s = 1 .. Len(s)
    OBVIOUS
  <2> HIDE DEF u
  <2>2. /\ r \in Seq(Frame) /\ Len(r) = Len(s) - 1
        /\ \A i \in 1 .. Len(s) - 1 : r[i] = s[i]
    BY <2>1
  <2> QED
    BY <2>1, <2>2
<1> HIDE DEF r
<1>2. /\ u \in Seq(Frame) /\ Len(u) = Len(s) /\ u[Len(s)] = f
      /\ \A i \in 1 .. Len(s) - 1 : u[i] = r[i]
  <2>1. <<f>> \in Seq(Frame) /\ Len(<<f>>) = 1 /\ <<f>>[1] = f
    OBVIOUS
  <2>2. /\ u \in Seq(Frame) /\ Len(u) = Len(r) + 1
        /\ \A i \in 1 .. Len(r) + 1 : u[i] = IF i <= Len(r) THEN r[i] ELSE <<f>>[i - Len(r)]
    BY <1>1, <2>1, ConcatProperties
  <2> HIDE DEF u
  <2>3. Len(s) \in 1 .. Len(r) + 1 /\ ~(Len(s) <= Len(r)) /\ Len(s) - Len(r) = 1
    BY <1>1
  <2>4. u[Len(s)] = f
    BY <2>1, <2>2, <2>3
  <2> QED
    BY <1>1, <2>2, <2>4
<1>3. t = Append(u, g)
  BY DEF r, Pushed
<1> HIDE DEF u
<1>4. /\ t \in Seq(Frame) /\ Len(t) = Len(s) + 1 /\ t[Len(s) + 1] = g
      /\ \A i \in 1 .. Len(s) : t[i] = u[i]
  <2>1. ASSUME NEW v \in Seq(Frame), NEW w, w = Append(v, g)
        PROVE  /\ w \in Seq(Frame) /\ Len(w) = Len(v) + 1 /\ w[Len(v) + 1] = g
               /\ \A i \in 1 .. Len(v) : w[i] = v[i]
    BY <2>1, AppendProperties
  <2>2. /\ t \in Seq(Frame) /\ Len(t) = Len(u) + 1 /\ t[Len(u) + 1] = g
        /\ \A i \in 1 .. Len(u) : t[i] = u[i]
    BY <1>2, <1>3, <2>1
  <2> QED
    BY <1>2, <2>2
<1>5. DOMAIN t = DOMAIN s \cup {Len(s) + 1}
  <2>1. DOMAIN t = 1 .. Len(s) + 1
    BY <1>4, LenProperties
  <2> QED
    BY <1>1, <2>1
<1>6. \A i \in DOMAIN s : i # Len(s) => t[i] = s[i]
  <2>1. \A i \in DOMAIN s : i # Len(s) => i \in 1 .. Len(s) - 1 /\ i \in 1 .. Len(s)
    BY <1>1
  <2> QED
    BY <1>1, <1>2, <1>4, <2>1
<1>7. t[Len(s)] = f /\ Len(s) \in DOMAIN s
  <2>1. Len(s) \in 1 .. Len(s)
    BY <1>1
  <2> QED
    BY <1>1, <1>2, <1>4, <2>1
<1> QED
  BY <1>4, <1>5, <1>6, <1>7 DEF Grown

LEMMA TopIn ==
    ASSUME HostTypeOK, NEW c \in Callers, Busy(c)
    PROVE  /\ frames[c] \in Seq(Frame) /\ frames[c] # <<>> /\ Len(frames[c]) \in DOMAIN frames[c]
           /\ Top(c) \in Frame /\ Top(c) = frames[c][Len(frames[c])]
BY DEF HostTypeOK, Busy, Top

-----------------------------------------------------------------------------
(* The shapes of the steps *)

\* The other dispatches keep what they have: their hosts are other hosts.
LEMMA OthersStay ==
    ASSUME HostInvariant, NEW c \in Callers, Busy(c), NEW p \in Plugins, p = Top(c).plugin,
           Top(c).stage # "queued",
           \A h \in Hosts : h # Route[p] => lock'[h] = lock[h],
           \A q \in Plugins : q # p => processes'[q] = processes[q],
           requests' \in Nat, requests' >= requests,
           NEW k \in Callers, NEW i \in DOMAIN frames[k], k # c \/ i # Len(frames[c]),
           NEW other \in Frame, other.plugin = frames[k][i].plugin,
           other.serial = frames[k][i].serial, other.stage = frames[k][i].stage
    PROVE  FrameOK(k, other)'
<1>1. /\ frames[k][i] \in Frame /\ FrameOK(k, frames[k][i])
      /\ requests \in Nat
  BY DEF HostInvariant, FramesOK, HostTypeOK
<1>2. other.serial \in 1 .. requests'
  BY <1>1 DEF FrameOK
<1>3. other.stage # "queued" => Route[other.plugin] # Route[p]
  <2>1. Apart(frames[k][i], frames[c][Len(frames[c])])
    BY TopIn DEF HostInvariant, FramesApart
  <2> QED
    BY <2>1, TopIn DEF Apart, HostInvariant
<1>4. other.plugin \in Plugins /\ Route[other.plugin] \in Hosts
  BY RouteAssumption DEF Frame
<1>5. other.stage # "queued" => lock'[Route[other.plugin]] = k
  BY <1>1, <1>3, <1>4 DEF FrameOK
<1>6. other.stage \in Started => other.stage # "queued"
  BY DEF Started
<1>7. other.stage \in Started => processes'[other.plugin] # NoProcess
  BY <1>1, <1>3, <1>4, <1>6 DEF FrameOK
<1> QED
  BY <1>2, <1>5, <1>7 DEF FrameOK

\* A dispatch that holds the lock goes on, with its process or without.
LEMMA MoveKeeps ==
    ASSUME HostInvariant, NEW c \in Callers, Busy(c), Top(c).stage # "queued",
           NEW f \in Frame, f.plugin = Top(c).plugin, f.serial = Top(c).serial,
           f.stage # "queued",
           frames' = [frames EXCEPT ![c] = [@ EXCEPT ![Len(@)] = f]],
           lock' = lock, requests' = requests,
           \A q \in Plugins : q # f.plugin => processes'[q] = processes[q],
           f.stage \in Started => processes'[f.plugin] # NoProcess,
           HostTypeOK', BudgetHolds'
    PROVE  HostInvariant'
<1>1. /\ frames[c] \in Seq(Frame) /\ frames[c] # <<>> /\ Len(frames[c]) \in DOMAIN frames[c]
      /\ Top(c) = frames[c][Len(frames[c])] /\ Top(c) \in Frame
      /\ frames \in [Callers -> Seq(Frame)] /\ requests \in Nat
  BY TopIn DEF HostInvariant, HostTypeOK
<1>2. /\ frames'[c] = [frames[c] EXCEPT ![Len(frames[c])] = f]
      /\ \A k \in Callers : k # c => frames'[k] = frames[k]
  BY <1>1
<1>3. /\ DOMAIN frames'[c] = DOMAIN frames[c] /\ Len(frames'[c]) = Len(frames[c])
      /\ frames'[c][Len(frames[c])] = f
      /\ \A i \in DOMAIN frames[c] : i # Len(frames[c]) => frames'[c][i] = frames[c][i]
  BY <1>1, <1>2, ChangeTop
<1>4. FrameOK(c, f)'
  <2>1. FrameOK(c, Top(c))
    BY <1>1 DEF HostInvariant, FramesOK
  <2> QED
    BY <2>1 DEF FrameOK
<1>5. ASSUME NEW k \in Callers, NEW i \in DOMAIN frames[k], k # c \/ i # Len(frames[c])
      PROVE  FrameOK(k, frames[k][i])' /\ frames'[k][i] = frames[k][i]
  <2>1. frames'[k][i] = frames[k][i] /\ frames[k][i] \in Frame
    BY <1>1, <1>2, <1>3, <1>5
  <2>2. PICK other \in Frame : other = frames[k][i]
    BY <2>1
  <2>3. FrameOK(k, other)'
    <3>1. f.plugin \in Plugins
      BY DEF Frame
    <3>2. \A h \in Hosts : h # Route[f.plugin] => lock'[h] = lock[h]
      OBVIOUS
    <3>3. requests' \in Nat /\ requests' >= requests
      BY <1>1
    <3>4. /\ other.plugin = frames[k][i].plugin /\ other.serial = frames[k][i].serial
          /\ other.stage = frames[k][i].stage
      BY <2>2
    <3> QED
      BY <1>5, <3>1, <3>2, <3>3, <3>4, OthersStay
  <2> QED
    BY <2>1, <2>2, <2>3 DEF FrameOK
<1>6. FramesOK'
  <2>1. ASSUME NEW k \in Callers, NEW i \in DOMAIN frames'[k]
        PROVE  FrameOK(k, frames[k][i])' /\ (i # Len(frames'[k]) => frames'[k][i].stage = "result")
    <3>1. i \in DOMAIN frames[k] /\ Len(frames'[k]) = Len(frames[k])
      BY <1>2, <1>3, <2>1
    <3>2. CASE k = c /\ i = Len(frames[c])
      BY <1>3, <1>4, <3>1, <3>2 DEF FrameOK
    <3>3. CASE k # c \/ i # Len(frames[c])
      BY <1>5, <3>1, <3>3 DEF HostInvariant, FramesOK
    <3> QED
      BY <3>2, <3>3
  <2> QED
    BY <2>1 DEF FramesOK
<1>7. FramesApart'
  <2>1. ASSUME NEW k \in Callers, NEW i \in DOMAIN frames[k], k # c \/ i # Len(frames[c])
        PROVE  Apart(frames[k][i], f) /\ Apart(f, frames[k][i])
    <3>1. Apart(frames[k][i], Top(c))
      BY <1>1, <2>1 DEF HostInvariant, FramesApart
    <3> QED
      BY <3>1 DEF Apart
  <2>2. ASSUME NEW k \in Callers, NEW l \in Callers, NEW i \in DOMAIN frames'[k],
               NEW j \in DOMAIN frames'[l], k # l \/ i # j
        PROVE  Apart(frames'[k][i], frames'[l][j])
    <3>1. i \in DOMAIN frames[k] /\ j \in DOMAIN frames[l]
      BY <1>2, <1>3, <2>2
    <3>2. CASE k = c /\ i = Len(frames[c])
      BY <1>3, <1>5, <2>1, <2>2, <3>1, <3>2
    <3>3. CASE l = c /\ j = Len(frames[c])
      BY <1>3, <1>5, <2>1, <2>2, <3>1, <3>3
    <3>4. CASE (k # c \/ i # Len(frames[c])) /\ (l # c \/ j # Len(frames[c]))
      BY <1>5, <2>2, <3>1, <3>4 DEF HostInvariant, FramesApart
    <3> QED
      BY <3>2, <3>3, <3>4
  <2> QED
    BY <2>2 DEF FramesApart, Apart
<1> QED
  BY <1>6, <1>7 DEF HostInvariant

\* A dispatch that holds the lock returns, and the lock is free.
LEMMA LeaveKeeps ==
    ASSUME HostInvariant, NEW c \in Callers, Busy(c), Top(c).stage # "queued",
           frames' = [frames EXCEPT ![c] = SubSeq(@, 1, Len(@) - 1)],
           \A h \in Hosts : h # Route[Top(c).plugin] => lock'[h] = lock[h],
           requests' = requests,
           \A q \in Plugins : q # Top(c).plugin => processes'[q] = processes[q],
           HostTypeOK', BudgetHolds'
    PROVE  HostInvariant'
<1>1. /\ frames[c] \in Seq(Frame) /\ frames[c] # <<>> /\ Len(frames[c]) \in DOMAIN frames[c]
      /\ Top(c) = frames[c][Len(frames[c])] /\ Top(c) \in Frame
      /\ frames \in [Callers -> Seq(Frame)] /\ requests \in Nat
  BY TopIn DEF HostInvariant, HostTypeOK
<1>2. /\ frames'[c] = SubSeq(frames[c], 1, Len(frames[c]) - 1)
      /\ \A k \in Callers : k # c => frames'[k] = frames[k]
  BY <1>1
<1>3. /\ DOMAIN frames'[c] = DOMAIN frames[c] \ {Len(frames[c])}
      /\ \A i \in DOMAIN frames'[c] : frames'[c][i] = frames[c][i]
  BY <1>1, <1>2, DropTop
<1>4. \A k \in Callers : \A i \in DOMAIN frames'[k] :
          /\ i \in DOMAIN frames[k] /\ frames'[k][i] = frames[k][i]
          /\ k # c \/ i # Len(frames[c])
  BY <1>2, <1>3
<1>5. ASSUME NEW k \in Callers, NEW i \in DOMAIN frames'[k]
      PROVE  FrameOK(k, frames[k][i])' /\ (i # Len(frames'[k]) => frames'[k][i].stage = "result")
  <2>1. /\ i \in DOMAIN frames[k] /\ frames'[k][i] = frames[k][i]
        /\ (k # c \/ i # Len(frames[c])) /\ frames[k][i] \in Frame
    BY <1>1, <1>4
  <2>2. PICK other \in Frame : other = frames[k][i]
    BY <1>1, <2>1
  <2>3. FrameOK(k, other)'
    <3>1. Top(c).plugin \in Plugins
      BY <1>1 DEF Frame
    <3>2. requests' \in Nat /\ requests' >= requests
      BY <1>1
    <3>3. /\ other.plugin = frames[k][i].plugin /\ other.serial = frames[k][i].serial
          /\ other.stage = frames[k][i].stage
      BY <2>2
    <3> QED
      BY <2>1, <3>1, <3>2, <3>3, OthersStay
  <2>4. k # c => Len(frames'[k]) = Len(frames[k])
    BY <1>2
  <2> QED
    BY <2>1, <2>2, <2>3, <2>4 DEF FrameOK, HostInvariant, FramesOK
<1>6. FramesOK'
  BY <1>5 DEF FramesOK
<1>7. FramesApart'
  BY <1>4 DEF HostInvariant, FramesApart, Apart
<1> QED
  BY <1>6, <1>7 DEF HostInvariant

\* The lock was free: no dispatch past it is on the host.
LEMMA LockKeeps ==
    ASSUME HostInvariant, NEW c \in Callers, Lock(c)
    PROVE  HostInvariant'
<1>1. /\ frames[c] \in Seq(Frame) /\ frames[c] # <<>> /\ Len(frames[c]) \in DOMAIN frames[c]
      /\ Top(c) = frames[c][Len(frames[c])] /\ Top(c) \in Frame /\ Top(c).stage = "queued"
      /\ frames \in [Callers -> Seq(Frame)] /\ lock \in [Hosts -> Callers \cup {Free}]
      /\ UNCHANGED <<definition, processes, failures, late, ended, panicked, taken, returned,
                     requests, faults>>
  BY TopIn DEF HostInvariant, HostTypeOK, Lock, At, history
<1>2. PICK f \in Frame, h \in Hosts :
          /\ f = [Top(c) EXCEPT !.stage = "ensure"] /\ h = Route[Top(c).plugin]
          /\ f.stage = "ensure" /\ f.plugin = Top(c).plugin /\ f.serial = Top(c).serial
  <2> DEFINE f == [Top(c) EXCEPT !.stage = "ensure"]
  <2>1. /\ f \in Frame /\ f.stage = "ensure" /\ f.plugin = Top(c).plugin
        /\ f.serial = Top(c).serial /\ Route[Top(c).plugin] \in Hosts
    BY <1>1, RouteAssumption DEF Frame, Stages
  <2> QED
    BY <2>1
<1>3. /\ lock[h] = Free /\ lock' = [lock EXCEPT ![h] = c]
      /\ frames'[c] = [frames[c] EXCEPT ![Len(frames[c])] = f]
      /\ \A k \in Callers : k # c => frames'[k] = frames[k]
      /\ frames' \in [Callers -> Seq(Frame)]
  <2>1. lock[h] = Free /\ lock' = [lock EXCEPT ![h] = c]
    BY <1>2 DEF Lock, hostForPlugin
  <2>2. frames' = [frames EXCEPT ![c] = [@ EXCEPT ![Len(frames[c])] = f]]
    BY <1>1, <1>2 DEF Lock, Goto
  <2>3. [frames[c] EXCEPT ![Len(frames[c])] = f] \in Seq(Frame)
    BY <1>1, <1>2, ChangeTop
  <2> QED
    BY <1>1, <2>1, <2>2, <2>3
<1>4. /\ DOMAIN frames'[c] = DOMAIN frames[c] /\ Len(frames'[c]) = Len(frames[c])
      /\ frames'[c][Len(frames[c])] = f
      /\ \A i \in DOMAIN frames[c] : i # Len(frames[c]) => frames'[c][i] = frames[c][i]
  BY <1>1, <1>2, <1>3, ChangeTop
<1>5. ASSUME NEW k \in Callers, NEW i \in DOMAIN frames[k], k # c \/ i # Len(frames[c])
      PROVE  /\ frames'[k][i] = frames[k][i] /\ FrameOK(k, frames[k][i])'
             /\ frames[k][i].stage # "queued" => Route[frames[k][i].plugin] # h
  <2>1. frames'[k][i] = frames[k][i] /\ frames[k][i] \in Frame /\ FrameOK(k, frames[k][i])
    BY <1>1, <1>3, <1>4, <1>5 DEF HostInvariant, FramesOK
  <2>2. frames[k][i].stage # "queued" => Route[frames[k][i].plugin] # h
    BY <1>3, <2>1, HostNamesAssumption DEF FrameOK
  <2>3. Route[frames[k][i].plugin] \in Hosts
    BY <2>1, RouteAssumption DEF Frame
  <2> QED
    BY <1>1, <1>3, <2>1, <2>2, <2>3 DEF FrameOK
<1>6. FramesOK'
  <2>1. FrameOK(c, f)'
    <3>1. FrameOK(c, Top(c))
      BY <1>1 DEF HostInvariant, FramesOK
    <3>2. lock'[Route[f.plugin]] = c
      BY <1>1, <1>2, <1>3
    <3> QED
      BY <1>1, <1>2, <3>1, <3>2 DEF FrameOK, Started
  <2>2. ASSUME NEW k \in Callers, NEW i \in DOMAIN frames'[k]
        PROVE  FrameOK(k, frames[k][i])' /\ (i # Len(frames'[k]) => frames'[k][i].stage = "result")
    <3>1. i \in DOMAIN frames[k] /\ Len(frames'[k]) = Len(frames[k])
      BY <1>3, <1>4, <2>2
    <3>2. CASE k = c /\ i = Len(frames[c])
      BY <1>4, <2>1, <3>1, <3>2 DEF FrameOK
    <3>3. CASE k # c \/ i # Len(frames[c])
      BY <1>5, <3>1, <3>3 DEF HostInvariant, FramesOK
    <3> QED
      BY <3>2, <3>3
  <2> QED
    BY <2>2 DEF FramesOK
<1>7. FramesApart'
  <2>1. ASSUME NEW k \in Callers, NEW i \in DOMAIN frames[k], k # c \/ i # Len(frames[c])
        PROVE  Apart(frames[k][i], f) /\ Apart(f, frames[k][i])
    <3>1. Apart(frames[k][i], Top(c))
      BY <1>1, <2>1 DEF HostInvariant, FramesApart
    <3>2. frames[k][i].stage # "queued" => Route[frames[k][i].plugin] # Route[f.plugin]
      BY <1>2, <1>5, <2>1
    <3> QED
      BY <1>2, <3>1, <3>2 DEF Apart
  <2>2. ASSUME NEW k \in Callers, NEW l \in Callers, NEW i \in DOMAIN frames'[k],
               NEW j \in DOMAIN frames'[l], k # l \/ i # j
        PROVE  Apart(frames'[k][i], frames'[l][j])
    <3>1. i \in DOMAIN frames[k] /\ j \in DOMAIN frames[l]
      BY <1>3, <1>4, <2>2
    <3>2. CASE k = c /\ i = Len(frames[c])
      BY <1>4, <1>5, <2>1, <2>2, <3>1, <3>2
    <3>3. CASE l = c /\ j = Len(frames[c])
      BY <1>4, <1>5, <2>1, <2>2, <3>1, <3>3
    <3>4. CASE (k # c \/ i # Len(frames[c])) /\ (l # c \/ j # Len(frames[c]))
      BY <1>5, <2>2, <3>1, <3>4 DEF HostInvariant, FramesApart
    <3> QED
      BY <3>2, <3>3, <3>4
  <2> QED
    BY <2>2 DEF FramesApart, Apart
<1>8. HostTypeOK'
  BY <1>1, <1>2, <1>3 DEF HostInvariant, HostTypeOK
<1>9. BudgetHolds'
  BY <1>1 DEF HostInvariant, BudgetHolds
<1> QED
  BY <1>6, <1>7, <1>8, <1>9 DEF HostInvariant

\* A new dispatch waits for its lock; the one that asked for it, if any, waits
\* for its end.
LEMMA EnterKeeps ==
    ASSUME HostInvariant, NEW c \in Callers, NEW g \in Frame, g.serial = requests + 1,
           g.stage = "queued", requests' = requests + 1,
           \/ /\ frames[c] = <<>> /\ frames' = [frames EXCEPT ![c] = <<g>>]
           \/ /\ Busy(c) /\ Top(c).stage = "callback"
              /\ frames' = [frames EXCEPT ![c] =
                     Append(SubSeq(@, 1, Len(@) - 1) \o <<[Top(c) EXCEPT !.stage = "result"]>>, g)],
           UNCHANGED <<lock, processes>>,
           HostTypeOK', BudgetHolds'
    PROVE  HostInvariant'
<1>1. /\ frames \in [Callers -> Seq(Frame)] /\ requests \in Nat
  BY DEF HostInvariant, HostTypeOK
\* Every frame there was is there in the same place, but for the stage of a callback.
<1>2. ASSUME NEW k \in Callers, NEW i \in DOMAIN frames'[k]
      PROVE  /\ frames'[k][i] \in Frame
             /\ \/ k = c /\ i = Len(frames'[c]) /\ frames'[k][i] = g
                \/ /\ i \in DOMAIN frames[k]
                   /\ frames'[k][i].plugin = frames[k][i].plugin
                   /\ frames'[k][i].serial = frames[k][i].serial
                   /\ frames[k][i].stage # "queued" \/ frames'[k][i].stage = "queued"
                   /\ frames[k][i].stage \in Started \/ frames'[k][i].stage \notin Started
                   /\ i # Len(frames'[k]) => frames'[k][i].stage = "result"
  <2>1. CASE k # c
    <3>1. frames'[k] = frames[k]
      BY <1>1, <2>1
    <3> QED
      BY <1>1, <1>2, <3>1 DEF HostInvariant, FramesOK
  <2>2. CASE k = c /\ frames[c] = <<>> /\ frames' = [frames EXCEPT ![c] = <<g>>]
    <3>1. frames'[c] = <<g>>
      BY <1>1, <2>2
    <3> QED
      BY <1>2, <2>2, <3>1
  <2>3. CASE /\ k = c /\ Busy(c) /\ Top(c).stage = "callback"
             /\ frames' = [frames EXCEPT ![c] =
                  Append(SubSeq(@, 1, Len(@) - 1) \o <<[Top(c) EXCEPT !.stage = "result"]>>, g)]
    <3> DEFINE f == [Top(c) EXCEPT !.stage = "result"]
    <3>1. /\ frames[c] \in Seq(Frame) /\ frames[c] # <<>> /\ Top(c) \in Frame
          /\ Top(c) = frames[c][Len(frames[c])]
      BY <2>3, TopIn DEF HostInvariant
    <3>2. /\ f \in Frame /\ f.stage = "result" /\ f.plugin = Top(c).plugin
          /\ f.serial = Top(c).serial
      BY <3>1 DEF Frame, Stages
    <3>3. frames'[c] = Pushed(frames[c], f, g)
      BY <1>1, <2>3 DEF Pushed
    <3> HIDE DEF f
    <3>4. /\ Len(frames'[c]) = Len(frames[c]) + 1
          /\ DOMAIN frames'[c] = DOMAIN frames[c] \cup {Len(frames[c]) + 1}
          /\ frames'[c][Len(frames[c]) + 1] = g /\ frames'[c][Len(frames[c])] = f
          /\ Len(frames[c]) \in DOMAIN frames[c]
          /\ \A j \in DOMAIN frames[c] : j # Len(frames[c]) => frames'[c][j] = frames[c][j]
      <4>1. Grown(frames[c], f, g, frames'[c])
        BY <3>1, <3>2, <3>3, PushTop
      <4> QED
        BY <4>1 DEF Grown
    <3>5. \A j \in DOMAIN frames[c] :
              frames[c][j] \in Frame /\ (j # Len(frames[c]) => frames[c][j].stage = "result")
      BY <1>1 DEF HostInvariant, FramesOK
    <3>6. CASE i = Len(frames[c]) + 1
      BY <2>3, <3>4, <3>6
    <3>7. CASE i = Len(frames[c])
      BY <2>3, <3>1, <3>2, <3>4, <3>7 DEF Started
    <3>8. CASE i \in DOMAIN frames[c] /\ i # Len(frames[c])
      BY <2>3, <3>4, <3>5, <3>8
    <3> QED
      BY <1>2, <2>3, <3>4, <3>6, <3>7, <3>8
  <2> QED
    BY <2>1, <2>2, <2>3
<1>3. FramesOK'
  <2>1. ASSUME NEW k \in Callers, NEW i \in DOMAIN frames'[k]
        PROVE  FrameOK(k, frames[k][i])' /\ (i # Len(frames'[k]) => frames'[k][i].stage = "result")
    <3>1. CASE k = c /\ i = Len(frames'[c]) /\ frames'[k][i] = g
      BY <1>1, <3>1 DEF FrameOK, Started
    <3>2. CASE /\ i \in DOMAIN frames[k]
               /\ frames'[k][i].plugin = frames[k][i].plugin
               /\ frames'[k][i].serial = frames[k][i].serial
               /\ frames[k][i].stage # "queued" \/ frames'[k][i].stage = "queued"
               /\ frames[k][i].stage \in Started \/ frames'[k][i].stage \notin Started
               /\ i # Len(frames'[k]) => frames'[k][i].stage = "result"
      <4>1. FrameOK(k, frames[k][i])
        BY <3>2 DEF HostInvariant, FramesOK
      <4> QED
        BY <1>1, <3>2, <4>1 DEF FrameOK
    <3> QED
      BY <1>2, <2>1, <3>1, <3>2
  <2> QED
    BY <2>1 DEF FramesOK
<1>4. FramesApart'
  <2>1. ASSUME NEW k \in Callers, NEW i \in DOMAIN frames[k]
        PROVE  frames[k][i].serial # requests + 1
    BY <1>1, <2>1 DEF HostInvariant, FramesOK, FrameOK
  <2>2. ASSUME NEW k \in Callers, NEW l \in Callers, NEW i \in DOMAIN frames'[k],
               NEW j \in DOMAIN frames'[l], k # l \/ i # j
        PROVE  Apart(frames'[k][i], frames'[l][j])
    <3>1. CASE frames'[k][i] = g /\ k = c /\ i = Len(frames'[c])
      BY <1>2, <2>1, <2>2, <3>1 DEF Apart
    <3>2. CASE frames'[l][j] = g /\ l = c /\ j = Len(frames'[c])
      BY <1>2, <2>1, <2>2, <3>2 DEF Apart
    <3>3. CASE /\ i \in DOMAIN frames[k]
               /\ frames'[k][i].plugin = frames[k][i].plugin
               /\ frames'[k][i].serial = frames[k][i].serial
               /\ frames[k][i].stage # "queued" \/ frames'[k][i].stage = "queued"
               /\ j \in DOMAIN frames[l]
               /\ frames'[l][j].plugin = frames[l][j].plugin
               /\ frames'[l][j].serial = frames[l][j].serial
               /\ frames[l][j].stage # "queued" \/ frames'[l][j].stage = "queued"
      <4>1. Apart(frames[k][i], frames[l][j])
        BY <2>2, <3>3 DEF HostInvariant, FramesApart
      <4> QED
        BY <3>3, <4>1 DEF Apart
    <3> QED
      BY <1>2, <2>2, <3>1, <3>2, <3>3
  <2> QED
    BY <2>2 DEF FramesApart, Apart
<1> QED
  BY <1>3, <1>4 DEF HostInvariant

\* A process, a reader, the client or the clock moves: no dispatch does.
LEMMA AsideKeeps ==
    ASSUME HostInvariant, UNCHANGED <<frames, lock, requests>>,
           \A q \in Plugins : processes[q] # NoProcess => processes'[q] # NoProcess,
           HostTypeOK', BudgetHolds'
    PROVE  HostInvariant'
<1>1. FramesOK'
  <2>1. ASSUME NEW k \in Callers, NEW i \in DOMAIN frames[k] PROVE FrameOK(k, frames[k][i])'
    <3>1. FrameOK(k, frames[k][i])
      BY DEF HostInvariant, FramesOK
    <3>2. frames[k][i].plugin \in Plugins
      <4>1. frames[k] \in Seq(Frame)
        BY DEF HostInvariant, HostTypeOK
      <4>2. frames[k][i] \in Frame
        BY <4>1
      <4> QED
        BY <4>2 DEF Frame
    <3> QED
      BY <3>1, <3>2 DEF FrameOK
  <2> QED
    BY <2>1 DEF HostInvariant, FramesOK
<1>2. FramesApart'
  BY DEF HostInvariant, FramesApart, Apart
<1> QED
  BY <1>1, <1>2 DEF HostInvariant

-----------------------------------------------------------------------------
(* What the steps have in common *)

\* The process and the failures of one plugin change, within its budget.
Touched(p, v, n) ==
    /\ v \in Process \cup {NoProcess} /\ n \in Nat
    /\ n <= RestartBudget
    /\ v # NoProcess => n < RestartBudget
    /\ processes' = [processes EXCEPT ![p] = v]
    /\ failures' = [failures EXCEPT ![p] = n]

LEMMA TouchKeeps ==
    ASSUME HostInvariant, NEW p \in Plugins, NEW v, NEW n, Touched(p, v, n)
    PROVE  /\ processes' \in [Plugins -> Process \cup {NoProcess}]
           /\ failures' \in [Plugins -> Nat]
           /\ BudgetHolds'
           /\ \A q \in Plugins : q # p => processes'[q] = processes[q]
           /\ processes'[p] = v
<1>1. /\ processes \in [Plugins -> Process \cup {NoProcess}] /\ failures \in [Plugins -> Nat]
      /\ BudgetHolds
  BY DEF HostInvariant, HostTypeOK
<1>2. /\ \A q \in Plugins : q # p => processes'[q] = processes[q] /\ failures'[q] = failures[q]
      /\ processes'[p] = v /\ failures'[p] = n
      /\ processes' \in [Plugins -> Process \cup {NoProcess}]
      /\ failures' \in [Plugins -> Nat]
  BY <1>1 DEF Touched
<1>3. BudgetHolds'
  <2>1. ASSUME NEW q \in Plugins
        PROVE  /\ failures'[q] <= RestartBudget
               /\ processes'[q] # NoProcess => failures'[q] < RestartBudget
    <3>1. CASE q = p
      BY <1>2, <3>1 DEF Touched
    <3>2. CASE q # p
      BY <1>1, <1>2, <3>2 DEF BudgetHolds
    <3> QED
      BY <3>1, <3>2
  <2> QED
    BY <2>1 DEF BudgetHolds
<1> QED
  BY <1>2, <1>3

\* The frame on top moves to a stage.
Moved(c, stage, phase) ==
    frames' = [frames EXCEPT ![c] = [@ EXCEPT ![Len(@)] =
                  [Top(c) EXCEPT !.stage = stage, !.phase = phase]]]

LEMMA GotoMoves ==
    ASSUME HostInvariant, NEW c \in Callers, Busy(c), NEW stage \in Stages, Goto(c, stage)
    PROVE  Moved(c, stage, Top(c).phase)
<1>1. /\ frames[c] \in Seq(Frame) /\ frames[c] # <<>> /\ Len(frames[c]) \in DOMAIN frames[c]
      /\ Top(c) = frames[c][Len(frames[c])] /\ Top(c) \in Frame
  BY TopIn DEF HostInvariant
<1>2. frames \in [Callers -> Seq(Frame)]
  BY DEF HostInvariant, HostTypeOK
<1>3. PICK s \in Seq(Frame), n \in Nat, f \in Frame :
          /\ s = frames[c] /\ n = Len(frames[c]) /\ f = s[n] /\ f = Top(c) /\ n \in DOMAIN s
  BY <1>1
<1>4. [f EXCEPT !.stage = stage] = [f EXCEPT !.stage = stage, !.phase = f.phase]
  BY DEF Frame
<1>5. [s EXCEPT ![n].stage = stage] = [s EXCEPT ![n] = [f EXCEPT !.stage = stage]]
  BY <1>3
<1>6. [frames EXCEPT ![c][n].stage = stage] = [frames EXCEPT ![c] = [s EXCEPT ![n].stage = stage]]
  BY <1>2, <1>3
<1> QED
  BY <1>3, <1>4, <1>5, <1>6 DEF Moved, Goto

LEMMA RestartMoves ==
    ASSUME HostInvariant, NEW c \in Callers, Busy(c), NEW phase \in Phases, Restart(c, phase)
    PROVE  Moved(c, "ensure", phase)
<1>1. /\ frames[c] \in Seq(Frame) /\ frames[c] # <<>> /\ Len(frames[c]) \in DOMAIN frames[c]
      /\ Top(c) = frames[c][Len(frames[c])] /\ Top(c) \in Frame
      /\ frames \in [Callers -> Seq(Frame)]
  BY TopIn DEF HostInvariant, HostTypeOK
<1>2. frames' = [frames EXCEPT ![c][Len(frames[c])].stage = "ensure",
                               ![c][Len(frames[c])].phase = phase]
  BY DEF Restart
<1>3. PICK s \in Seq(Frame), n \in Nat, f \in Frame :
          /\ s = frames[c] /\ n = Len(frames[c]) /\ f = s[n] /\ f = Top(c) /\ n \in DOMAIN s
  BY <1>1
<1>4. [[s EXCEPT ![n].stage = "ensure"] EXCEPT ![n].phase = phase]
          = [s EXCEPT ![n] = [f EXCEPT !.stage = "ensure", !.phase = phase]]
  BY <1>3
<1>5. [frames EXCEPT ![c][n].stage = "ensure", ![c][n].phase = phase]
          = [frames EXCEPT ![c] = [[s EXCEPT ![n].stage = "ensure"] EXCEPT ![n].phase = phase]]
  BY <1>1, <1>3
<1> QED
  BY <1>2, <1>3, <1>4, <1>5 DEF Moved

\* A dispatch that has the lock goes on.
LEMMA GoesOn ==
    ASSUME HostInvariant, NEW c \in Callers, Busy(c), Top(c).stage # "queued",
           NEW stage \in Stages, NEW phase \in Phases, stage # "queued", Moved(c, stage, phase),
           NEW p \in Plugins, p = Top(c).plugin, NEW v, NEW n, Touched(p, v, n),
           stage \in Started => v # NoProcess,
           UNCHANGED <<lock, ended, panicked, history, requests>>,
           late' \in [Plugins -> Nat], faults' \in Nat
    PROVE  HostInvariant'
<1>1. /\ frames[c] \in Seq(Frame) /\ frames[c] # <<>> /\ Len(frames[c]) \in DOMAIN frames[c]
      /\ Top(c) = frames[c][Len(frames[c])] /\ Top(c) \in Frame
      /\ frames \in [Callers -> Seq(Frame)] /\ HostTypeOK
  BY TopIn DEF HostInvariant, HostTypeOK
<1>2. PICK f \in Frame :
          /\ f = [Top(c) EXCEPT !.stage = stage, !.phase = phase]
          /\ f.plugin = Top(c).plugin /\ f.serial = Top(c).serial /\ f.stage = stage
  <2> DEFINE f == [Top(c) EXCEPT !.stage = stage, !.phase = phase]
  <2>1. /\ f \in Frame /\ f.plugin = Top(c).plugin /\ f.serial = Top(c).serial
        /\ f.stage = stage
    BY <1>1 DEF Frame
  <2> QED
    BY <2>1
<1>3. frames' = [frames EXCEPT ![c] = [@ EXCEPT ![Len(@)] = f]]
  BY <1>2 DEF Moved
<1>4. frames' \in [Callers -> Seq(Frame)]
  <2>1. [frames[c] EXCEPT ![Len(frames[c])] = f] \in Seq(Frame)
    BY <1>1, <1>2, ChangeTop
  <2> QED
    BY <1>1, <1>3, <2>1
<1>5. /\ processes' \in [Plugins -> Process \cup {NoProcess}]
      /\ failures' \in [Plugins -> Nat]
      /\ BudgetHolds'
      /\ \A q \in Plugins : q # p => processes'[q] = processes[q]
      /\ processes'[p] = v
  BY TouchKeeps
<1>6. HostTypeOK'
  BY <1>1, <1>4, <1>5 DEF HostTypeOK, history
<1>7. /\ f.plugin = p /\ f.stage # "queued"
      /\ f.stage \in Started => processes'[f.plugin] # NoProcess
      /\ \A q \in Plugins : q # f.plugin => processes'[q] = processes[q]
  BY <1>2, <1>5
<1> QED
  BY <1>2, <1>3, <1>5, <1>6, <1>7, MoveKeeps

\* A dispatch that has the lock returns.
LEMMA GoesAway ==
    ASSUME HostInvariant, NEW c \in Callers, Busy(c), Top(c).stage # "queued",
           NEW ok \in BOOLEAN, NEW line \in Line, NEW noisy \in BOOLEAN,
           Return(c, ok, line, noisy),
           NEW p \in Plugins, p = Top(c).plugin, NEW v, NEW n, Touched(p, v, n),
           late' \in [Plugins -> Nat], faults' \in Nat
    PROVE  HostInvariant'
<1>1. /\ frames[c] \in Seq(Frame) /\ frames[c] # <<>> /\ Len(frames[c]) \in DOMAIN frames[c]
      /\ Top(c) = frames[c][Len(frames[c])] /\ Top(c) \in Frame
      /\ frames \in [Callers -> Seq(Frame)] /\ HostTypeOK
  BY TopIn DEF HostInvariant, HostTypeOK
<1>2. /\ frames' = [frames EXCEPT ![c] = SubSeq(@, 1, Len(@) - 1)]
      /\ lock' = [lock EXCEPT ![Route[p]] = Free]
      /\ ended' = IF Top(c).context = Top(c).serial THEN ended \cup {Top(c).serial} ELSE ended
      /\ returned' = returned \cup
             {[serial |-> Top(c).serial, ok |-> ok, answer |-> line.serial,
               status |-> line.status, phase |-> Top(c).phase, noisy |-> noisy]}
      /\ UNCHANGED <<panicked, taken, requests>>
  BY DEF Return, hostForPlugin
<1>3. frames' \in [Callers -> Seq(Frame)]
  <2>1. SubSeq(frames[c], 1, Len(frames[c]) - 1) \in Seq(Frame)
    BY <1>1, DropTop
  <2> QED
    BY <1>1, <1>2, <2>1
<1>4. /\ lock' \in [Hosts -> Callers \cup {Free}]
      /\ \A h \in Hosts : h # Route[p] => lock'[h] = lock[h]
  <2>1. Route[p] \in Hosts /\ lock \in [Hosts -> Callers \cup {Free}]
    BY <1>1, RouteAssumption DEF HostTypeOK
  <2> QED
    BY <1>2, <2>1
<1>5. ended' \in SUBSET Nat
  BY <1>1, <1>2 DEF HostTypeOK, Frame
<1>6. returned' \in SUBSET Outcome
  <2>1. [serial |-> Top(c).serial, ok |-> ok, answer |-> line.serial, status |-> line.status,
         phase |-> Top(c).phase, noisy |-> noisy] \in Outcome
    BY <1>1 DEF Outcome, Frame, Line
  <2> QED
    BY <1>1, <1>2, <2>1 DEF HostTypeOK
<1>7. /\ processes' \in [Plugins -> Process \cup {NoProcess}]
      /\ failures' \in [Plugins -> Nat]
      /\ BudgetHolds'
      /\ \A q \in Plugins : q # p => processes'[q] = processes[q]
  BY TouchKeeps
<1>8. HostTypeOK'
  BY <1>1, <1>2, <1>3, <1>4, <1>5, <1>6, <1>7 DEF HostTypeOK
<1> QED
  BY <1>2, <1>4, <1>7, <1>8, LeaveKeeps

LEMMA TopOK ==
    ASSUME HostInvariant, NEW c \in Callers, Busy(c)
    PROVE  /\ FrameOK(c, Top(c)) /\ Top(c).plugin \in Plugins
           /\ Top(c).phase \in Phases /\ Top(c).serial \in Nat
           /\ failures[Top(c).plugin] \in Nat /\ failures[Top(c).plugin] <= RestartBudget
           /\ processes[Top(c).plugin] \in Process \cup {NoProcess}
           /\ processes[Top(c).plugin] # NoProcess =>
                  failures[Top(c).plugin] < RestartBudget
           /\ Top(c).stage \in Started => /\ processes[Top(c).plugin] \in Process
                                          /\ processes[Top(c).plugin] # NoProcess
           /\ late \in [Plugins -> Nat] /\ faults \in Nat
<1>1. /\ Len(frames[c]) \in DOMAIN frames[c]
      /\ Top(c) = frames[c][Len(frames[c])] /\ Top(c) \in Frame /\ HostTypeOK
  BY TopIn DEF HostInvariant
<1>2. FrameOK(c, Top(c))
  BY <1>1 DEF HostInvariant, FramesOK
<1>3. Top(c).plugin \in Plugins /\ Top(c).phase \in Phases /\ Top(c).serial \in Nat
  BY <1>1 DEF Frame
<1>4. /\ failures[Top(c).plugin] \in Nat /\ processes[Top(c).plugin] \in Process \cup {NoProcess}
      /\ late \in [Plugins -> Nat] /\ faults \in Nat
  BY <1>1, <1>3 DEF HostTypeOK
<1>5. /\ failures[Top(c).plugin] <= RestartBudget
      /\ processes[Top(c).plugin] # NoProcess => failures[Top(c).plugin] < RestartBudget
  BY <1>3 DEF HostInvariant, BudgetHolds
<1>6. Top(c).stage \in Started => processes[Top(c).plugin] # NoProcess
  BY <1>2 DEF FrameOK
<1> QED
  BY <1>2, <1>3, <1>4, <1>5, <1>6

\* What is written and read leaves a process a process.
LEMMA LineTaken ==
    ASSUME NEW x \in Process, x.stdout # <<>>
    PROVE  Head(x.stdout) \in Line /\ [x EXCEPT !.stdout = Tail(@)] \in Process
<1>1. x.stdout \in Seq(Line)
  BY DEF Process
<1>2. Head(x.stdout) \in Line /\ Tail(x.stdout) \in Seq(Line)
  BY <1>1
<1> QED
  BY <1>2 DEF Process

LEMMA LineWritten ==
    ASSUME NEW x \in Process, NEW line \in Line
    PROVE  /\ [x EXCEPT !.stdout = Append(@, line)] \in Process
           /\ Append(x.stdout, line) \in Seq(Line)
<1>1. x.stdout \in Seq(Line)
  BY DEF Process
<1>2. Append(x.stdout, line) \in Seq(Line)
  BY <1>1
<1> QED
  BY <1>2 DEF Process

LEMMA InputWritten ==
    ASSUME NEW x \in Process, NEW line \in Input
    PROVE  [x EXCEPT !.stdin = Append(@, line)] \in Process
<1>1. x.stdin \in Seq(Input)
  BY DEF Process
<1>2. Append(x.stdin, line) \in Seq(Input)
  BY <1>1
<1> QED
  BY <1>2 DEF Process

LEMMA InputTaken ==
    ASSUME NEW x \in Process, x.stdin # <<>>
    PROVE  Head(x.stdin) \in Input /\ Tail(x.stdin) \in Seq(Input)
<1>1. x.stdin \in Seq(Input)
  BY DEF Process
<1> QED
  BY <1>1

LEMMA DeadIsProcess ==
    ASSUME NEW x \in Process
    PROVE  Dead(x) \in Process
<1>1. <<>> \in Seq(Input)
  OBVIOUS
<1> QED
  BY <1>1 DEF Process, Dead

\* What does not change, changes to what it is.
LEMMA SameTouched ==
    ASSUME HostInvariant, NEW p \in Plugins, UNCHANGED <<processes, failures>>
    PROVE  Touched(p, processes[p], failures[p])
BY DEF HostInvariant, HostTypeOK, Touched, BudgetHolds

-----------------------------------------------------------------------------
(* The steps of a dispatch *)

LEMMA ReuseKeeps ==
    ASSUME HostInvariant, NEW c \in Callers, Reuse(c)
    PROVE  HostInvariant'
<1> DEFINE p == Top(c).plugin
<1>1. /\ Busy(c) /\ Top(c).stage = "ensure" /\ processes[p] # NoProcess /\ Goto(c, "write")
      /\ UNCHANGED <<processes, failures, lock, late, ended, panicked, history, requests, faults>>
  BY DEF Reuse, At, Running
<1>2. Moved(c, "write", Top(c).phase)
  BY <1>1, GotoMoves DEF Stages
<1>3. Touched(p, processes[p], failures[p])
  BY <1>1, TopOK, SameTouched
<1>4. "write" \in Stages /\ Top(c).stage # "queued"
  BY <1>1 DEF Stages
<1> HIDE DEF p
<1>5. /\ p \in Plugins /\ p = Top(c).plugin /\ Top(c).phase \in Phases
      /\ late' \in [Plugins -> Nat] /\ faults' \in Nat
  BY <1>1, TopOK DEF p
<1> QED
  BY <1>1, <1>2, <1>3, <1>4, <1>5, GoesOn

\* The line a dispatch returns with that has read none.
LEMMA NoAnswerIsLine == NoAnswer \in Line
BY DEF NoAnswer, Line, Status

LEMMA StartFailsKeeps ==
    ASSUME HostInvariant, NEW c \in Callers, StartFails(c)
    PROVE  HostInvariant'
<1> DEFINE p == Top(c).plugin
<1>1. /\ Busy(c) /\ Top(c).stage = "ensure" /\ processes[p] = NoProcess
      /\ Return(c, FALSE, NoAnswer, FALSE) /\ UNCHANGED <<processes, late>>
      /\ \/ UNCHANGED failures
         \/ failures[p] < RestartBudget /\ failures' = Noted(p)
      /\ UNCHANGED faults \/ faults' = faults + 1
  BY DEF StartFails, At, Fail, Fault, NoFault, checkRestartBudgetLocked
<1>2. /\ p \in Plugins /\ p = Top(c).plugin /\ failures[p] \in Nat
      /\ failures[p] <= RestartBudget /\ late' \in [Plugins -> Nat] /\ faults' \in Nat
  BY <1>1, TopOK
<1>3. NoAnswer \in Line /\ FALSE \in BOOLEAN /\ Top(c).stage # "queued"
  BY <1>1, NoAnswerIsLine
<1> HIDE DEF p
<1>4. CASE UNCHANGED failures
  <2>1. Touched(p, processes[p], failures[p])
    BY <1>1, <1>2, <1>4, SameTouched
  <2> QED
    BY <1>1, <1>2, <1>3, <2>1, GoesAway
<1>5. CASE failures[p] < RestartBudget /\ failures' = Noted(p)
  <2>1. Touched(p, NoProcess, failures[p] + 1)
    <3>1. processes' = [processes EXCEPT ![p] = NoProcess]
      BY <1>1, <1>2 DEF HostInvariant, HostTypeOK
    <3>2. failures' = [failures EXCEPT ![p] = failures[p] + 1]
      BY <1>5 DEF Noted
    <3> QED
      BY <1>2, <1>5, <3>1, <3>2, HostBoundsAssumption DEF Touched
  <2> QED
    BY <1>1, <1>2, <1>3, <2>1, GoesAway
<1> QED
  BY <1>1, <1>4, <1>5

LEMMA StartKeeps ==
    ASSUME HostInvariant, NEW c \in Callers, Start(c)
    PROVE  HostInvariant'
<1> DEFINE p == Top(c).plugin
           v == [context |-> Top(c).context, alive |-> TRUE, greeted |-> FALSE, stdin |-> <<>>,
                 stdout |-> <<>>, serving |-> 0, waiting |-> FALSE, deaf |-> FALSE,
                 thieves |-> 0, noisy |-> FALSE]
<1>1. /\ Busy(c) /\ Top(c).stage = "ensure" /\ failures[p] < RestartBudget
      /\ processes' = [processes EXCEPT ![p] = v] /\ Goto(c, "handshake")
      /\ UNCHANGED <<failures, lock, late, ended, panicked, history, requests, faults>>
  BY DEF Start, At, checkRestartBudgetLocked
<1>2. Moved(c, "handshake", Top(c).phase)
  BY <1>1, GotoMoves DEF Stages
<1>3. v \in Process /\ v # NoProcess
  <2>1. Top(c).context \in Nat
    BY <1>1, TopIn DEF HostInvariant, Frame
  <2>2. <<>> \in Seq(Input) /\ <<>> \in Seq(Line)
    OBVIOUS
  <2>3. v \in Process
    BY <2>1, <2>2 DEF Process
  <2> QED
    BY <2>3, NoProcessAssumption
<1> HIDE DEF v
<1>4. "handshake" \in Stages /\ Top(c).stage # "queued"
  BY <1>1 DEF Stages
<1>5. /\ p \in Plugins /\ p = Top(c).plugin /\ Top(c).phase \in Phases
      /\ late' \in [Plugins -> Nat] /\ faults' \in Nat /\ failures[p] \in Nat
      /\ failures[p] <= RestartBudget
  BY <1>1, TopOK
<1> HIDE DEF p
<1>6. Touched(p, v, failures[p])
  <2>1. failures' = [failures EXCEPT ![p] = failures[p]]
    BY <1>1, <1>5 DEF HostInvariant, HostTypeOK
  <2> QED
    BY <1>1, <1>3, <1>5, <2>1 DEF Touched
<1> QED
  BY <1>1, <1>2, <1>3, <1>4, <1>5, <1>6, GoesOn

\* A line is read, and the dispatch goes on.
LEMMA LineReadKeeps ==
    ASSUME HostInvariant, NEW c \in Callers, Busy(c), Top(c).stage \in {"handshake", "read"},
           Lines(Top(c).plugin) # <<>>, NEW stage \in Stages \ {"queued"}, Goto(c, stage),
           processes' = [processes EXCEPT ![Top(c).plugin].stdout = Tail(@)],
           UNCHANGED <<failures, lock, late, ended, panicked, history, requests, faults>>
    PROVE  HostInvariant'
<1> DEFINE p == Top(c).plugin
           v == [processes[p] EXCEPT !.stdout = Tail(@)]
<1>1. /\ p \in Plugins /\ p = Top(c).plugin /\ Top(c).phase \in Phases
      /\ late' \in [Plugins -> Nat] /\ faults' \in Nat /\ failures[p] \in Nat
      /\ processes[p] \in Process /\ processes[p] # NoProcess
      /\ failures[p] < RestartBudget /\ failures[p] <= RestartBudget /\ Top(c).stage # "queued"
  BY TopOK DEF Started
<1>2. Moved(c, stage, Top(c).phase) /\ stage \in Stages /\ stage # "queued"
  BY GotoMoves
<1>3. v \in Process /\ v # NoProcess
  BY <1>1, LineTaken, NoProcessAssumption DEF Lines
<1>4. processes' = [processes EXCEPT ![p] = v]
  OBVIOUS
<1> HIDE DEF v
<1> HIDE DEF p
<1>5. Touched(p, v, failures[p])
  <2>1. failures' = [failures EXCEPT ![p] = failures[p]]
    BY <1>1 DEF HostInvariant, HostTypeOK
  <2> QED
    BY <1>1, <1>3, <1>4, <2>1 DEF Touched
<1> QED
  BY <1>1, <1>2, <1>3, <1>5, GoesOn

LEMMA performHandshakeKeeps ==
    ASSUME HostInvariant, NEW c \in Callers, performHandshake(c)
    PROVE  HostInvariant'
<1>1. /\ Busy(c) /\ Top(c).stage \in {"handshake", "read"} /\ Lines(Top(c).plugin) # <<>>
      /\ Goto(c, "write")
      /\ processes' = [processes EXCEPT ![Top(c).plugin].stdout = Tail(@)]
      /\ UNCHANGED <<failures, lock, late, ended, panicked, history, requests, faults>>
  BY DEF performHandshake, At
<1>2. "write" \in Stages \ {"queued"}
  BY DEF Stages
<1> QED
  BY <1>1, <1>2, LineReadKeeps

LEMMA ReadCallbackKeeps ==
    ASSUME HostInvariant, NEW c \in Callers, ReadCallback(c)
    PROVE  HostInvariant'
<1>1. /\ Busy(c) /\ Top(c).stage \in {"handshake", "read"} /\ Lines(Top(c).plugin) # <<>>
      /\ Goto(c, "callback")
      /\ processes' = [processes EXCEPT ![Top(c).plugin].stdout = Tail(@)]
      /\ UNCHANGED <<failures, lock, late, ended, panicked, history, requests, faults>>
  BY DEF ReadCallback, At
<1>2. "callback" \in Stages \ {"queued"}
  BY DEF Stages
<1> QED
  BY <1>1, <1>2, LineReadKeeps

LEMMA ReaderLeftTypes ==
    ASSUME late \in [Plugins -> Nat], faults \in Nat, NEW p \in Plugins,
           ReaderLeft(p) \/ (UNCHANGED late /\ NoFault)
    PROVE  late' \in [Plugins -> Nat] /\ faults' \in Nat
BY DEF ReaderLeft, NoFault, Fault

LEMMA HandshakeFailsKeeps ==
    ASSUME HostInvariant, NEW c \in Callers, HandshakeFails(c)
    PROVE  HostInvariant'
<1> DEFINE p == Top(c).plugin
<1>1. /\ Busy(c) /\ Top(c).stage = "handshake"
      /\ Return(c, FALSE, NoAnswer, FALSE)
      /\ processes' = [processes EXCEPT ![p] = NoProcess]
      /\ failures' = [failures EXCEPT ![p] = @ + 1]
      /\ ReaderLeft(p) \/ (UNCHANGED late /\ NoFault)
  <2>1. ReaderLeft(p) \/ (UNCHANGED late /\ NoFault)
    BY DEF HandshakeFails
  <2> QED
    BY <2>1 DEF HandshakeFails, At, Fail, Removed, Noted
<1>2. /\ p \in Plugins /\ p = Top(c).plugin /\ failures[p] \in Nat
      /\ failures[p] < RestartBudget /\ late \in [Plugins -> Nat] /\ faults \in Nat
  BY <1>1, TopOK DEF Started
<1>3. NoAnswer \in Line /\ FALSE \in BOOLEAN /\ Top(c).stage # "queued"
  BY <1>1, NoAnswerIsLine
<1>4. late' \in [Plugins -> Nat] /\ faults' \in Nat
  BY <1>1, <1>2, ReaderLeftTypes
<1> HIDE DEF p
<1>5. Touched(p, NoProcess, failures[p] + 1)
  BY <1>1, <1>2, HostBoundsAssumption DEF Touched
<1> QED
  BY <1>1, <1>2, <1>3, <1>4, <1>5, GoesAway

\* The process is killed, and the request is to be sent again.
LEMMA RestartKeeps ==
    ASSUME HostInvariant, NEW c \in Callers, Busy(c), Top(c).stage \in Started,
           NEW phase \in Phases, Restart(c, phase),
           UNCHANGED failures \/ failures' = Noted(Top(c).plugin), UNCHANGED faults
    PROVE  HostInvariant'
<1> DEFINE p == Top(c).plugin
<1>1. /\ processes' = [processes EXCEPT ![p] = NoProcess]
      /\ failures' = [failures EXCEPT ![p] = @ + 1] \/ UNCHANGED failures
      /\ UNCHANGED <<lock, late, ended, panicked, history, requests>>
  BY DEF Restart, Removed, Noted
<1>2. /\ p \in Plugins /\ p = Top(c).plugin /\ failures[p] \in Nat
      /\ failures[p] < RestartBudget /\ late' \in [Plugins -> Nat] /\ faults' \in Nat
      /\ failures \in [Plugins -> Nat]
  BY <1>1, TopOK DEF HostInvariant, HostTypeOK
<1>3. /\ Moved(c, "ensure", phase) /\ "ensure" \in Stages /\ Top(c).stage # "queued"
      /\ "ensure" \notin Started
  BY RestartMoves DEF Started, Stages
<1> HIDE DEF p
<1>4. PICK n \in Nat : Touched(p, NoProcess, n)
  <2>1. CASE UNCHANGED failures
    <3>1. Touched(p, NoProcess, failures[p])
      BY <1>1, <1>2, <2>1, HostBoundsAssumption DEF Touched
    <3> QED
      BY <1>2, <3>1
  <2>2. CASE failures' = [failures EXCEPT ![p] = @ + 1]
    <3>1. Touched(p, NoProcess, failures[p] + 1)
      BY <1>1, <1>2, <2>2, HostBoundsAssumption DEF Touched
    <3> QED
      BY <1>2, <3>1
  <2> QED
    BY <1>1, <2>1, <2>2
<1> QED
  BY <1>1, <1>2, <1>3, <1>4, GoesOn

\* The dispatch ends with an error; its process is left or killed.
LEMMA FailKeeps ==
    ASSUME HostInvariant, NEW c \in Callers, Busy(c), Top(c).stage # "queued", Fail(c),
           UNCHANGED failures, UNCHANGED processes \/ processes' = Removed(Top(c).plugin),
           late' \in [Plugins -> Nat], faults' \in Nat
    PROVE  HostInvariant'
<1> DEFINE p == Top(c).plugin
<1>1. /\ Return(c, FALSE, NoAnswer, FALSE) /\ UNCHANGED failures
      /\ UNCHANGED processes \/ processes' = [processes EXCEPT ![p] = NoProcess]
  BY DEF Fail, Removed
<1>2. /\ p \in Plugins /\ p = Top(c).plugin /\ failures[p] \in Nat
      /\ failures[p] <= RestartBudget /\ failures \in [Plugins -> Nat]
  BY TopOK DEF HostInvariant, HostTypeOK
<1>3. NoAnswer \in Line /\ FALSE \in BOOLEAN
  BY NoAnswerIsLine
<1> HIDE DEF p
<1>4. CASE UNCHANGED processes
  <2>1. Touched(p, processes[p], failures[p])
    BY <1>1, <1>2, <1>4, SameTouched
  <2> QED
    BY <1>1, <1>2, <1>3, <2>1, GoesAway
<1>5. CASE processes' = [processes EXCEPT ![p] = NoProcess]
  <2>1. Touched(p, NoProcess, failures[p])
    BY <1>1, <1>2, <1>5, HostBoundsAssumption DEF Touched
  <2> QED
    BY <1>1, <1>2, <1>3, <2>1, GoesAway
<1> QED
  BY <1>1, <1>4, <1>5

\* A line is written, and the dispatch goes on to read.
LEMMA LineSentKeeps ==
    ASSUME HostInvariant, NEW c \in Callers, Busy(c), Top(c).stage \in Started,
           NEW line \in Input, Goto(c, "read"),
           processes' = [processes EXCEPT ![Top(c).plugin].stdin = Append(@, line)],
           UNCHANGED <<failures, lock, late, ended, panicked, history, requests, faults>>
    PROVE  HostInvariant'
<1> DEFINE p == Top(c).plugin
           v == [processes[p] EXCEPT !.stdin = Append(@, line)]
<1>1. /\ p \in Plugins /\ p = Top(c).plugin /\ Top(c).phase \in Phases
      /\ late' \in [Plugins -> Nat] /\ faults' \in Nat /\ failures[p] \in Nat
      /\ processes[p] \in Process /\ processes[p] # NoProcess
      /\ failures[p] < RestartBudget /\ failures[p] <= RestartBudget /\ Top(c).stage # "queued"
  BY TopOK DEF Started
<1>2. Moved(c, "read", Top(c).phase) /\ "read" \in Stages
  BY GotoMoves DEF Stages
<1>3. v \in Process /\ v # NoProcess
  BY <1>1, InputWritten, NoProcessAssumption
<1>4. processes' = [processes EXCEPT ![p] = v]
  OBVIOUS
<1> HIDE DEF v
<1> HIDE DEF p
<1>5. Touched(p, v, failures[p])
  <2>1. failures' = [failures EXCEPT ![p] = failures[p]]
    BY <1>1 DEF HostInvariant, HostTypeOK
  <2> QED
    BY <1>1, <1>3, <1>4, <2>1 DEF Touched
<1> QED
  BY <1>1, <1>2, <1>3, <1>5, GoesOn

LEMMA WriteRequestKeeps ==
    ASSUME HostInvariant, NEW c \in Callers, WriteRequest(c)
    PROVE  HostInvariant'
<1> DEFINE line == [kind |-> "request", serial |-> Top(c).serial]
<1>1. /\ Busy(c) /\ Top(c).stage \in Started /\ Goto(c, "read")
      /\ processes' = [processes EXCEPT ![Top(c).plugin].stdin = Append(@, line)]
      /\ UNCHANGED <<failures, lock, late, ended, panicked, history, requests, faults>>
  BY DEF WriteRequest, At, Started
<1>2. line \in Input
  BY <1>1, TopOK DEF Input
<1> HIDE DEF line
<1> QED
  BY <1>1, <1>2, LineSentKeeps

LEMMA WriteFailsKeeps ==
    ASSUME HostInvariant, NEW c \in Callers, WriteFails(c)
    PROVE  HostInvariant'
<1>1. /\ Busy(c) /\ Top(c).stage \in Started /\ UNCHANGED <<failures, faults>>
      /\ \/ Restart(c, "afterWrite")
         \/ Fail(c) /\ UNCHANGED <<processes, late>>
  BY DEF WriteFails, At, Started
<1>2. "afterWrite" \in Phases /\ Top(c).stage # "queued"
  BY <1>1 DEF Phases, Started
<1>3. late \in [Plugins -> Nat] /\ faults \in Nat
  BY <1>1, TopOK
<1>4. CASE Restart(c, "afterWrite")
  BY <1>1, <1>2, <1>4, RestartKeeps
<1>5. CASE Fail(c) /\ UNCHANGED <<processes, late>>
  BY <1>1, <1>2, <1>3, <1>5, FailKeeps
<1> QED
  BY <1>1, <1>4, <1>5

LEMMA ReadAnswerKeeps ==
    ASSUME HostInvariant, NEW c \in Callers, ReadAnswer(c)
    PROVE  HostInvariant'
<1> DEFINE p == Top(c).plugin
           v == [processes[p] EXCEPT !.stdout = Tail(@)]
           line == Head(processes[p].stdout)
           noisy == processes[p].noisy
           ok == line.status = "ok" \/ Top(c).phase = "afterCrash"
<1>1. /\ Busy(c) /\ Top(c).stage = "read" /\ processes[p].stdout # <<>>
      /\ processes' = [processes EXCEPT ![p].stdout = Tail(@)]
      /\ failures' = IF ok THEN [failures EXCEPT ![p] = 0] ELSE failures
      /\ Return(c, ok, line, noisy)
      /\ UNCHANGED <<late, faults>>
  BY DEF ReadAnswer, At, Lines
<1>2. /\ p \in Plugins /\ p = Top(c).plugin /\ Top(c).stage # "queued"
      /\ late' \in [Plugins -> Nat] /\ faults' \in Nat /\ failures[p] \in Nat
      /\ processes[p] \in Process /\ processes[p] # NoProcess
      /\ failures[p] < RestartBudget /\ failures \in [Plugins -> Nat]
  BY <1>1, TopOK DEF Started, HostInvariant, HostTypeOK
<1>3. v \in Process /\ v # NoProcess /\ line \in Line /\ noisy \in BOOLEAN
  BY <1>1, <1>2, LineTaken, NoProcessAssumption DEF Process
<1>4. processes' = [processes EXCEPT ![p] = v]
  BY <1>1
<1>5. ok \in BOOLEAN
  OBVIOUS
<1>7. failures' = [failures EXCEPT ![p] = 0] \/ failures' = failures
  BY <1>1
<1> HIDE DEF ok
<1> HIDE DEF noisy
<1> HIDE DEF line
<1> HIDE DEF v
<1> HIDE DEF p
<1>6. PICK n \in Nat : Touched(p, v, n)
  <2>1. CASE failures' = [failures EXCEPT ![p] = 0]
    <3>1. Touched(p, v, 0)
      BY <1>2, <1>3, <1>4, <2>1, HostBoundsAssumption DEF Touched
    <3> QED
      BY <3>1
  <2>2. CASE failures' = failures
    <3>1. Touched(p, v, failures[p])
      BY <1>2, <1>3, <1>4, <2>2, HostBoundsAssumption DEF Touched
    <3> QED
      BY <1>2, <3>1
  <2> QED
    BY <1>7, <2>1, <2>2
<1> QED
  BY <1>1, <1>2, <1>3, <1>5, <1>6, GoesAway

LEMMA ReadEOFKeeps ==
    ASSUME HostInvariant, NEW c \in Callers, ReadEOF(c)
    PROVE  HostInvariant'
<1>1. /\ Busy(c) /\ Top(c).stage \in Started /\ UNCHANGED faults
      /\ \/ Restart(c, "afterCrash") /\ failures' = Noted(Top(c).plugin)
         \/ Fail(c) /\ UNCHANGED <<processes, failures, late>>
  BY DEF ReadEOF, At, Started, NoFault
<1>2. "afterCrash" \in Phases /\ Top(c).stage # "queued"
  BY <1>1 DEF Phases, Started
<1>3. late \in [Plugins -> Nat] /\ faults \in Nat
  BY <1>1, TopOK
<1>4. CASE Restart(c, "afterCrash") /\ failures' = Noted(Top(c).plugin)
  BY <1>1, <1>2, <1>4, RestartKeeps
<1>5. CASE Fail(c) /\ UNCHANGED <<processes, failures, late>>
  BY <1>1, <1>2, <1>3, <1>5, FailKeeps
<1> QED
  BY <1>1, <1>4, <1>5

LEMMA ReadNoiseKeeps ==
    ASSUME HostInvariant, NEW c \in Callers, ReadNoise(c)
    PROVE  HostInvariant'
<1> DEFINE p == Top(c).plugin
           v == [processes[p] EXCEPT !.stdout = Tail(@)]
<1>1. /\ Busy(c) /\ Top(c).stage \in Started /\ Top(c).stage # "queued"
      /\ processes[p].stdout # <<>> /\ UNCHANGED <<failures, faults>>
      /\ \/ Restart(c, "afterRead")
         \/ /\ processes' = [processes EXCEPT ![p].stdout = Tail(@)]
            /\ Return(c, FALSE, NoAnswer, FALSE) /\ UNCHANGED late
  BY DEF ReadNoise, At, Started, Fail, Lines
<1>2. CASE Restart(c, "afterRead")
  <2>1. "afterRead" \in Phases
    BY DEF Phases
  <2> QED
    BY <1>1, <1>2, <2>1, RestartKeeps
<1>3. CASE /\ processes' = [processes EXCEPT ![p].stdout = Tail(@)]
           /\ Return(c, FALSE, NoAnswer, FALSE) /\ UNCHANGED late
  <2>1. /\ p \in Plugins /\ p = Top(c).plugin
        /\ late' \in [Plugins -> Nat] /\ faults' \in Nat /\ failures[p] \in Nat
        /\ processes[p] \in Process /\ processes[p] # NoProcess
        /\ failures[p] < RestartBudget /\ failures \in [Plugins -> Nat]
    BY <1>1, <1>3, TopOK DEF HostInvariant, HostTypeOK
  <2>2. v \in Process /\ v # NoProcess
    BY <1>1, <2>1, LineTaken, NoProcessAssumption
  <2>3. processes' = [processes EXCEPT ![p] = v]
    BY <1>3
  <2>4. NoAnswer \in Line /\ FALSE \in BOOLEAN
    BY NoAnswerIsLine
  <2> HIDE DEF v
  <2> HIDE DEF p
  <2>5. Touched(p, v, failures[p])
    BY <1>1, <2>1, <2>2, <2>3, HostBoundsAssumption DEF Touched
  <2> QED
    BY <1>1, <1>3, <2>1, <2>4, <2>5, GoesAway
<1> QED
  BY <1>1, <1>2, <1>3

LEMMA ReadTimeoutKeeps ==
    ASSUME HostInvariant, NEW c \in Callers, ReadTimeout(c)
    PROVE  HostInvariant'
<1>1. /\ Busy(c) /\ Top(c).stage \in Started /\ Top(c).stage # "queued" /\ UNCHANGED failures
      /\ \/ Restart(c, "afterRead") /\ UNCHANGED faults
         \/ /\ processes' = Removed(Top(c).plugin) /\ ReaderLeft(Top(c).plugin) /\ Fail(c)
  BY DEF ReadTimeout, At, Started, NoFault
<1>2. "afterRead" \in Phases
  BY DEF Phases
<1>3. CASE Restart(c, "afterRead") /\ UNCHANGED faults
  BY <1>1, <1>2, <1>3, RestartKeeps
<1>4. CASE processes' = Removed(Top(c).plugin) /\ ReaderLeft(Top(c).plugin) /\ Fail(c)
  <2>1. late' \in [Plugins -> Nat] /\ faults' \in Nat
    BY <1>1, <1>4, TopOK, ReaderLeftTypes
  <2> QED
    BY <1>1, <1>4, <2>1, FailKeeps
<1> QED
  BY <1>1, <1>3, <1>4

LEMMA handleCallbackKeeps ==
    ASSUME HostInvariant, NEW c \in Callers, handleCallback(c)
    PROVE  HostInvariant'
<1> DEFINE p == Top(c).plugin
<1>1. /\ Busy(c) /\ Top(c).stage \in Started /\ Top(c).stage # "queued" /\ Goto(c, "result")
      /\ UNCHANGED <<processes, failures, lock, late, ended, panicked, history, requests, faults>>
  BY DEF handleCallback, At, Started
<1>2. Moved(c, "result", Top(c).phase) /\ "result" \in Stages
  BY <1>1, GotoMoves DEF Stages
<1>3. Touched(p, processes[p], failures[p])
  BY <1>1, TopOK, SameTouched
<1> HIDE DEF p
<1>4. /\ p \in Plugins /\ p = Top(c).plugin /\ Top(c).phase \in Phases
      /\ processes[p] # NoProcess /\ late' \in [Plugins -> Nat] /\ faults' \in Nat
  BY <1>1, TopOK DEF p
<1> QED
  BY <1>1, <1>2, <1>3, <1>4, GoesOn

LEMMA writeCallbackResultKeeps ==
    ASSUME HostInvariant, NEW c \in Callers, writeCallbackResult(c)
    PROVE  HostInvariant'
<1> DEFINE line == [kind |-> "result", serial |-> Top(c).serial]
<1>1. /\ Busy(c) /\ Top(c).stage \in Started /\ Top(c).stage # "queued"
      /\ UNCHANGED <<failures, faults>>
      /\ \/ /\ processes' = [processes EXCEPT ![Top(c).plugin].stdin = Append(@, line)]
            /\ Goto(c, "read")
            /\ UNCHANGED <<definition, lock, late, ended, panicked, history, requests>>
         \/ Restart(c, "afterRead")
         \/ Fail(c) /\ UNCHANGED <<processes, late>>
  BY DEF writeCallbackResult, At, Started
<1>2. line \in Input /\ "afterRead" \in Phases
  BY <1>1, TopOK DEF Input, Phases
<1>3. late \in [Plugins -> Nat] /\ faults \in Nat
  BY <1>1, TopOK
<1> HIDE DEF line
<1>4. CASE /\ processes' = [processes EXCEPT ![Top(c).plugin].stdin = Append(@, line)]
           /\ Goto(c, "read")
           /\ UNCHANGED <<definition, lock, late, ended, panicked, history, requests>>
  BY <1>1, <1>2, <1>4, LineSentKeeps
<1>5. CASE Restart(c, "afterRead")
  BY <1>1, <1>2, <1>5, RestartKeeps
<1>6. CASE Fail(c) /\ UNCHANGED <<processes, late>>
  BY <1>1, <1>3, <1>6, FailKeeps
<1> QED
  BY <1>1, <1>4, <1>5, <1>6

-----------------------------------------------------------------------------
(* New requests *)

LEMMA TakenGrows ==
    ASSUME HostInvariant, requests' = requests + 1, taken' = Append(taken, 0)
    PROVE  /\ taken' \in [1 .. requests' -> Nat] /\ requests' \in Nat
           /\ taken'[requests + 1] = 0 /\ \A i \in 1 .. requests : taken'[i] = taken[i]
<1>1. requests \in Nat /\ taken \in [1 .. requests -> Nat]
  BY DEF HostInvariant, HostTypeOK
<1>2. PICK n \in Nat, s \in Seq(Nat), t \in Seq(Nat) :
          /\ n = requests /\ s = taken /\ t = taken' /\ t = Append(s, 0) /\ Len(s) = n
  <2>1. taken \in Seq(Nat) /\ Len(taken) = requests
    BY <1>1
  <2>2. Append(taken, 0) \in Seq(Nat)
    BY <2>1
  <2> QED
    BY <1>1, <2>1, <2>2
<1>3. Len(t) = n + 1 /\ DOMAIN t = 1 .. n + 1 /\ t[n + 1] = 0 /\ \A i \in 1 .. n : t[i] = s[i]
  BY <1>2
<1>4. t \in [1 .. n + 1 -> Nat]
  <2>1. t \in [1 .. Len(t) -> Nat]
    BY LenProperties
  <2> QED
    BY <1>2, <1>3, <2>1
<1> QED
  BY <1>1, <1>2, <1>3, <1>4

LEMMA NewFrameIsFrame ==
    ASSUME HostTypeOK, NEW p \in Plugins, NEW context \in Nat
    PROVE  /\ NewFrame(p, context) \in Frame /\ NewFrame(p, context).serial = requests + 1
           /\ NewFrame(p, context).stage = "queued" /\ NewFrame(p, context).plugin = p
BY DEF NewFrame, Frame, Stages, Phases, HostTypeOK

LEMMA DispatchRequestKeeps ==
    ASSUME HostInvariant, NEW c \in Callers, NEW p \in Plugins, NEW context \in Nat,
           DispatchRequest(c, p, context)
    PROVE  HostInvariant'
<1>1. /\ frames[c] = <<>> /\ requests' = requests + 1 /\ taken' = Append(taken, 0)
      /\ frames' = [frames EXCEPT ![c] = <<NewFrame(p, context)>>]
      /\ UNCHANGED <<lock, processes, failures, late, ended, panicked, returned, faults>>
  BY DEF DispatchRequest, Busy
<1>2. PICK g \in Frame : /\ g = NewFrame(p, context) /\ g.serial = requests + 1
                         /\ g.stage = "queued" /\ <<g>> \in Seq(Frame)
  BY NewFrameIsFrame DEF HostInvariant
<1>3. HostTypeOK'
  <2>1. taken' \in [1 .. requests' -> Nat] /\ requests' \in Nat
    BY <1>1, TakenGrows DEF HostInvariant, HostTypeOK
  <2>2. frames' \in [Callers -> Seq(Frame)]
    BY <1>1, <1>2 DEF HostInvariant, HostTypeOK
  <2> QED
    BY <1>1, <2>1, <2>2 DEF HostInvariant, HostTypeOK
<1>4. BudgetHolds'
  BY <1>1 DEF HostInvariant, BudgetHolds
<1>5. UNCHANGED <<lock, processes>> /\ frames' = [frames EXCEPT ![c] = <<g>>]
  BY <1>1, <1>2
<1> QED
  BY <1>1, <1>2, <1>3, <1>4, <1>5, EnterKeeps

LEMMA RefuseRequestKeeps ==
    ASSUME HostInvariant, NEW c \in Callers, NEW p \in Plugins, NEW context \in Nat,
           RefuseRequest(c, p, context)
    PROVE  HostInvariant'
<1>1. /\ requests' = requests + 1 /\ taken' = Append(taken, 0)
      /\ returned' = returned \cup
           {[serial |-> requests + 1, ok |-> FALSE, answer |-> 0, status |-> "error",
             phase |-> "first", noisy |-> FALSE]}
      /\ ended' = ended \cup ({context} \ {Background})
      /\ UNCHANGED <<frames, lock, processes, failures, late, panicked, faults>>
  BY DEF RefuseRequest
<1>2. HostTypeOK'
  <2>1. taken' \in [1 .. requests' -> Nat] /\ requests' \in Nat
    BY <1>1, TakenGrows DEF HostInvariant, HostTypeOK
  <2>2. returned' \in SUBSET Outcome
    <3>1. [serial |-> requests + 1, ok |-> FALSE, answer |-> 0, status |-> "error",
           phase |-> "first", noisy |-> FALSE] \in Outcome
      BY DEF HostInvariant, HostTypeOK, Outcome, Status, Phases
    <3> QED
      BY <1>1, <3>1 DEF HostInvariant, HostTypeOK
  <2>3. ended' \in SUBSET Nat
    BY <1>1 DEF HostInvariant, HostTypeOK
  <2> QED
    BY <1>1, <2>1, <2>2, <2>3 DEF HostInvariant, HostTypeOK
<1>3. BudgetHolds'
  BY <1>1 DEF HostInvariant, BudgetHolds
<1>4. FramesOK'
  <2>1. \A k \in Callers : \A i \in DOMAIN frames[k] : FrameOK(k, frames[k][i])'
    BY <1>1 DEF HostInvariant, HostTypeOK, FramesOK, FrameOK
  <2> QED
    BY <1>1, <2>1 DEF HostInvariant, FramesOK
<1>5. FramesApart'
  BY <1>1 DEF HostInvariant, FramesApart, Apart
<1> QED
  BY <1>2, <1>3, <1>4, <1>5 DEF HostInvariant

LEMMA ReplayEventKeeps ==
    ASSUME HostInvariant, NEW c \in Callers, NEW p \in Plugins, ReplayEvent(c, p)
    PROVE  HostInvariant'
<1>1. /\ Busy(c) /\ Top(c).stage = "callback"
      /\ requests' = requests + 1 /\ taken' = Append(taken, 0)
      /\ frames' = [frames EXCEPT ![c] =
           Append(SubSeq(@, 1, Len(@) - 1) \o <<[Top(c) EXCEPT !.stage = "result"]>>,
                  NewFrame(p, Background))]
      /\ UNCHANGED <<lock, processes, failures, late, ended, panicked, returned, faults>>
  BY DEF ReplayEvent, At
<1>2. PICK g \in Frame : /\ g = NewFrame(p, Background) /\ g.serial = requests + 1
                         /\ g.stage = "queued"
  BY NewFrameIsFrame DEF HostInvariant, Background
<1>3. frames' \in [Callers -> Seq(Frame)]
  <2>1. /\ frames[c] \in Seq(Frame) /\ frames[c] # <<>> /\ Top(c) \in Frame
        /\ frames \in [Callers -> Seq(Frame)]
    BY <1>1, TopIn DEF HostInvariant, HostTypeOK
  <2>2. PICK f \in Frame : f = [Top(c) EXCEPT !.stage = "result"]
    BY <2>1 DEF Frame, Stages
  <2>3. Grown(frames[c], f, g, Pushed(frames[c], f, g))
    BY <2>1, PushTop
  <2>4. frames' = [frames EXCEPT ![c] = Pushed(frames[c], f, g)]
    BY <1>1, <1>2, <2>2 DEF Pushed
  <2> QED
    BY <2>1, <2>3, <2>4 DEF Grown
<1>4. HostTypeOK'
  <2>1. taken' \in [1 .. requests' -> Nat] /\ requests' \in Nat
    BY <1>1, TakenGrows DEF HostInvariant, HostTypeOK
  <2> QED
    BY <1>1, <1>3, <2>1 DEF HostInvariant, HostTypeOK
<1>5. BudgetHolds'
  BY <1>1 DEF HostInvariant, BudgetHolds
<1>6. /\ UNCHANGED <<lock, processes>>
      /\ frames' = [frames EXCEPT ![c] =
           Append(SubSeq(@, 1, Len(@) - 1) \o <<[Top(c) EXCEPT !.stage = "result"]>>, g)]
  BY <1>1, <1>2
<1> QED
  BY <1>1, <1>2, <1>4, <1>5, <1>6, EnterKeeps

-----------------------------------------------------------------------------
(* The process and the surroundings *)

\* A process changes and stays one; its dispatches do not move.
LEMMA ChangeKeeps ==
    ASSUME HostInvariant, NEW p \in Plugins, NEW v \in Process, processes[p] # NoProcess,
           processes' = [processes EXCEPT ![p] = v],
           UNCHANGED <<frames, lock, failures, ended, returned, requests>>,
           taken' \in [1 .. requests -> Nat], late' \in [Plugins -> Nat],
           panicked' \in BOOLEAN, faults' \in Nat
    PROVE  HostInvariant'
<1>1. v # NoProcess
  BY NoProcessAssumption
<1>2. Touched(p, v, failures[p])
  BY <1>1, HostBoundsAssumption DEF HostInvariant, HostTypeOK, BudgetHolds, Touched
<1>3. /\ processes' \in [Plugins -> Process \cup {NoProcess}] /\ failures' \in [Plugins -> Nat]
      /\ BudgetHolds' /\ processes'[p] = v
      /\ \A q \in Plugins : q # p => processes'[q] = processes[q]
  BY <1>2, TouchKeeps
<1>4. HostTypeOK'
  BY <1>3 DEF HostInvariant, HostTypeOK
<1>5. \A q \in Plugins : processes[q] # NoProcess => processes'[q] # NoProcess
  BY <1>1, <1>3
<1> QED
  BY <1>3, <1>4, <1>5, AsideKeeps

LEMMA BecomesKeeps ==
    ASSUME HostInvariant, NEW p \in Plugins, NEW v \in Process, processes[p] # NoProcess,
           Becomes(p, v), taken' \in [1 .. requests -> Nat], faults' \in Nat
    PROVE  HostInvariant'
<1>1. /\ processes' = [processes EXCEPT ![p] = v]
      /\ UNCHANGED <<frames, lock, failures, ended, returned, requests, late, panicked>>
  BY DEF Becomes
<1>2. late' \in [Plugins -> Nat] /\ panicked' \in BOOLEAN
  BY <1>1 DEF HostInvariant, HostTypeOK
<1> QED
  BY <1>1, <1>2, ChangeKeeps

LEMMA ProcessThere ==
    ASSUME HostInvariant, NEW p \in Plugins, processes[p] # NoProcess
    PROVE  /\ processes[p] \in Process /\ taken \in [1 .. requests -> Nat] /\ requests \in Nat
           /\ faults \in Nat /\ faults + 1 \in Nat /\ processes[p].stdin \in Seq(Input)
           /\ processes[p].stdout \in Seq(Line) /\ processes[p].serving \in Nat
<1>1. processes[p] \in Process
  BY DEF HostInvariant, HostTypeOK
<1> QED
  BY <1>1 DEF HostInvariant, HostTypeOK, Process

LEMMA ProcessStepKeeps ==
    ASSUME HostInvariant, NEW p \in Plugins, ProcessStep(p)
    PROVE  HostInvariant'
<1> DEFINE x == processes[p]
<1>1. CASE Greet(p)
  <2> DEFINE line == [kind |-> "handshake", serial |-> 0, status |-> "ok"]
             v == [x EXCEPT !.greeted = TRUE, !.stdout = Append(@, line)]
  <2>1. processes[p] # NoProcess /\ Becomes(p, v) /\ UNCHANGED <<taken, faults>>
    BY <1>1 DEF Greet, Alive
  <2>2. line \in Line
    BY DEF Line, Status
  <2>3. x \in Process /\ taken' \in [1 .. requests -> Nat] /\ faults' \in Nat
    BY <2>1, ProcessThere
  <2>4. v \in Process
    BY <2>2, <2>3, LineWritten DEF Process
  <2> QED
    BY <2>1, <2>3, <2>4, BecomesKeeps
<1>2. CASE Take(p)
  <2> DEFINE line == Head(x.stdin)
             serving == IF line.kind = "request" THEN line.serial ELSE 0
             v == [x EXCEPT !.stdin = Tail(@), !.serving = serving]
  <2>1. /\ processes[p] # NoProcess /\ Becomes(p, v) /\ UNCHANGED faults /\ x.stdin # <<>>
        /\ taken' = [n \in DOMAIN taken |-> taken[n] + IF n = serving THEN 1 ELSE 0]
    BY <1>2 DEF Take, Alive, NoFault
  <2>2. /\ x \in Process /\ faults' \in Nat /\ taken \in [1 .. requests -> Nat]
        /\ requests \in Nat
    BY <2>1, ProcessThere
  <2>3. line \in Input /\ Tail(x.stdin) \in Seq(Input)
    BY <2>1, <2>2, InputTaken
  <2>4. serving \in Nat
    BY <2>3 DEF Input
  <2> HIDE DEF serving
  <2>5. v \in Process
    BY <2>2, <2>3, <2>4 DEF Process
  <2>6. taken' \in [1 .. requests -> Nat]
    BY <2>1, <2>2
  <2> QED
    BY <2>1, <2>2, <2>5, <2>6, BecomesKeeps
<1>3. CASE AskBack(p)
  <2> DEFINE line == [kind |-> "callback", serial |-> x.serving, status |-> "ok"]
             v == [x EXCEPT !.waiting = TRUE, !.stdout = Append(@, line)]
  <2>1. processes[p] # NoProcess /\ Becomes(p, v) /\ UNCHANGED <<taken, faults>>
    BY <1>3 DEF AskBack, Alive
  <2>2. x \in Process /\ taken' \in [1 .. requests -> Nat] /\ faults' \in Nat /\ x.serving \in Nat
    BY <2>1, ProcessThere
  <2>3. line \in Line
    BY <2>2 DEF Line, Status
  <2>4. v \in Process
    <3>1. Append(x.stdout, line) \in Seq(Line)
      BY <2>2, <2>3, LineWritten
    <3> QED
      BY <2>2, <3>1 DEF Process
  <2> QED
    BY <2>1, <2>2, <2>4, BecomesKeeps
<1>4. CASE TakeResult(p)
  <2> DEFINE v == [x EXCEPT !.waiting = FALSE, !.stdin = Tail(@)]
  <2>1. processes[p] # NoProcess /\ Becomes(p, v) /\ UNCHANGED <<taken, faults>> /\ x.stdin # <<>>
    BY <1>4 DEF TakeResult, Alive
  <2>2. x \in Process /\ taken' \in [1 .. requests -> Nat] /\ faults' \in Nat
    BY <2>1, ProcessThere
  <2>3. Tail(x.stdin) \in Seq(Input)
    BY <2>1, <2>2, InputTaken
  <2>4. v \in Process
    BY <2>2, <2>3 DEF Process
  <2> QED
    BY <2>1, <2>2, <2>4, BecomesKeeps
<1>5. CASE \E status \in Status : Answer(p, status)
  <2>1. PICK status \in Status : Answer(p, status)
    BY <1>5
  <2> DEFINE line == [kind |-> "answer", serial |-> x.serving, status |-> status]
             v == [x EXCEPT !.serving = 0, !.stdout = Append(@, line)]
  <2>2. processes[p] # NoProcess /\ Becomes(p, v) /\ UNCHANGED <<taken, faults>>
    BY <2>1 DEF Answer, Alive
  <2>3. x \in Process /\ taken' \in [1 .. requests -> Nat] /\ faults' \in Nat /\ x.serving \in Nat
    BY <2>2, ProcessThere
  <2>4. line \in Line
    BY <2>3 DEF Line
  <2>5. v \in Process
    BY <2>3, <2>4, LineWritten DEF Process
  <2> QED
    BY <2>2, <2>3, <2>5, BecomesKeeps
<1>6. CASE Noise(p)
  <2> DEFINE line == [kind |-> "noise", serial |-> 0, status |-> "error"]
             v == [x EXCEPT !.noisy = TRUE, !.stdout = Append(@, line)]
  <2>1. processes[p] # NoProcess /\ Becomes(p, v) /\ UNCHANGED taken /\ faults' = faults + 1
    BY <1>6 DEF Noise, Alive, Fault
  <2>2. x \in Process /\ taken' \in [1 .. requests -> Nat] /\ faults' \in Nat
    BY <2>1, ProcessThere
  <2>3. line \in Line
    BY DEF Line, Status
  <2>4. v \in Process
    BY <2>2, <2>3, LineWritten DEF Process
  <2> QED
    BY <2>1, <2>2, <2>4, BecomesKeeps
<1>7. CASE Die(p) \/ KilledByContext(p)
  <2>1. /\ processes[p] # NoProcess /\ Becomes(p, Dead(x)) /\ UNCHANGED taken
        /\ faults' = faults + 1 \/ UNCHANGED faults
    BY <1>7 DEF Die, KilledByContext, Alive, Fault
  <2>2. x \in Process /\ taken' \in [1 .. requests -> Nat] /\ faults' \in Nat
    BY <2>1, ProcessThere
  <2>3. Dead(x) \in Process
    BY <2>2, DeadIsProcess
  <2> QED
    BY <2>1, <2>2, <2>3, BecomesKeeps
<1>8. CASE StopReading(p) \/ ReadAgain(p)
  <2>1. PICK deaf \in BOOLEAN : Becomes(p, [x EXCEPT !.deaf = deaf])
    BY <1>8 DEF StopReading, ReadAgain
  <2> DEFINE v == [x EXCEPT !.deaf = deaf]
  <2>2. /\ processes[p] # NoProcess /\ Becomes(p, v) /\ UNCHANGED taken
        /\ faults' = faults + 1 \/ UNCHANGED faults
    BY <1>8, <2>1 DEF StopReading, ReadAgain, Alive, Fault
  <2>3. x \in Process /\ taken' \in [1 .. requests -> Nat] /\ faults' \in Nat
    BY <2>2, ProcessThere
  <2>4. v \in Process
    BY <2>3 DEF Process
  <2> QED
    BY <2>2, <2>3, <2>4, BecomesKeeps
<1> QED
  BY <1>1, <1>2, <1>3, <1>4, <1>5, <1>6, <1>7, <1>8 DEF ProcessStep

LEMMA ClientLeavesKeeps ==
    ASSUME HostInvariant, NEW c \in Callers, ClientLeaves(c)
    PROVE  HostInvariant'
<1>1. /\ Busy(c) /\ ended' = ended \cup {frames[c][1].context} /\ faults' = faults + 1
      /\ UNCHANGED <<frames, lock, processes, failures, late, panicked, taken, returned, requests>>
  BY DEF ClientLeaves, Fault, history
<1>2. frames[c][1].context \in Nat
  <2>1. frames[c] \in Seq(Frame) /\ frames[c] # <<>>
    BY <1>1, TopIn DEF HostInvariant
  <2>2. frames[c][1] \in Frame
    BY <2>1
  <2> QED
    BY <2>2 DEF Frame
<1>3. HostTypeOK'
  <2>1. ended \in SUBSET Nat /\ faults \in Nat
    BY DEF HostInvariant, HostTypeOK
  <2>3. PICK n \in Nat : n = frames[c][1].context
    BY <1>2
  <2>4. ended' = ended \cup {n} /\ faults' = faults + 1
    BY <1>1, <2>3
  <2>2. ended' \in SUBSET Nat /\ faults' \in Nat
    BY <2>1, <2>4
  <2> QED
    BY <1>1, <2>2 DEF HostInvariant, HostTypeOK
<1>4. BudgetHolds'
  BY <1>1 DEF HostInvariant, BudgetHolds
<1>5. \A q \in Plugins : processes[q] # NoProcess => processes'[q] # NoProcess
  BY <1>1
<1> QED
  BY <1>1, <1>3, <1>4, <1>5, AsideKeeps

LEMMA WindowPassesKeeps ==
    ASSUME HostInvariant, NEW p \in Plugins, WindowPasses(p)
    PROVE  HostInvariant'
<1>1. /\ failures[p] > 0 /\ failures' = [failures EXCEPT ![p] = failures[p] - 1]
      /\ failures[p] \in Nat /\ failures \in [Plugins -> Nat]
      /\ UNCHANGED <<frames, lock, processes, late, ended, panicked, taken, returned, requests,
                     faults>>
  BY DEF WindowPasses, history, HostInvariant, HostTypeOK
<1>2. HostTypeOK'
  BY <1>1 DEF HostInvariant, HostTypeOK
<1>3. BudgetHolds'
  BY <1>1, HostBoundsAssumption DEF HostInvariant, BudgetHolds
<1>4. \A q \in Plugins : processes[q] # NoProcess => processes'[q] # NoProcess
  BY <1>1
<1> QED
  BY <1>1, <1>2, <1>3, <1>4, AsideKeeps

LEMMA LateReaderKeeps ==
    ASSUME HostInvariant, NEW p \in Plugins, LateReader(p)
    PROVE  HostInvariant'
<1>1. /\ late[p] > 0 /\ late' = [late EXCEPT ![p] = late[p] - 1] /\ late \in [Plugins -> Nat]
      /\ UNCHANGED <<frames, lock, failures, ended, taken, returned, requests, faults>>
      /\ HostTypeOK
  BY DEF LateReader, history, HostInvariant, HostTypeOK
<1>2. late' \in [Plugins -> Nat]
  BY <1>1
<1>3. CASE processes[p] = NoProcess
  <2>1. panicked' = TRUE /\ UNCHANGED processes
    BY <1>3 DEF LateReader
  <2>2. HostTypeOK'
    BY <1>1, <1>2, <2>1 DEF HostTypeOK
  <2>3. BudgetHolds'
    BY <1>1, <2>1 DEF HostInvariant, BudgetHolds
  <2>4. \A q \in Plugins : processes[q] # NoProcess => processes'[q] # NoProcess
    BY <2>1
  <2> QED
    BY <1>1, <2>2, <2>3, <2>4, AsideKeeps
<1>4. CASE processes[p] # NoProcess
  <2> DEFINE v == [processes[p] EXCEPT !.thieves = @ + 1]
  <2>1. processes' = [processes EXCEPT ![p] = v] /\ UNCHANGED panicked
    BY <1>4 DEF LateReader
  <2>2. v \in Process
    <3>1. processes[p] \in Process
      BY <1>4, ProcessThere
    <3>2. processes[p].thieves + 1 \in Nat
      BY <3>1 DEF Process
    <3> QED
      BY <3>1, <3>2 DEF Process
  <2>3. taken' \in [1 .. requests -> Nat] /\ panicked' \in BOOLEAN /\ faults' \in Nat
    BY <1>1, <2>1 DEF HostTypeOK
  <2> QED
    BY <1>1, <1>2, <1>4, <2>1, <2>2, <2>3, ChangeKeeps
<1> QED
  BY <1>3, <1>4

LEMMA StealKeeps ==
    ASSUME HostInvariant, NEW p \in Plugins, Steal(p)
    PROVE  HostInvariant'
<1> DEFINE x == processes[p]
           v == [x EXCEPT !.thieves = @ - 1, !.stdout = Tail(@)]
<1>1. /\ x # NoProcess /\ x.thieves > 0 /\ x.stdout # <<>> /\ Becomes(p, v)
      /\ UNCHANGED <<taken, faults>>
  BY DEF Steal, Lines
<1>2. x \in Process /\ taken' \in [1 .. requests -> Nat] /\ faults' \in Nat
  BY <1>1, ProcessThere
<1>3. v \in Process
  <2>1. x.thieves \in Nat /\ x.thieves - 1 \in Nat
    BY <1>1, <1>2 DEF Process
  <2>2. Tail(x.stdout) \in Seq(Line)
    <3>1. x.stdout \in Seq(Line)
      BY <1>2 DEF Process
    <3> QED
      BY <1>1, <3>1
  <2> QED
    BY <1>2, <2>1, <2>2 DEF Process
<1> QED
  BY <1>1, <1>2, <1>3, BecomesKeeps

\* No dispatch past the lock is on a host whose lock is free.
LEMMA CloseKeeps ==
    ASSUME HostInvariant, NEW h \in Hosts, Close(h)
    PROVE  HostInvariant'
<1>1. /\ lock[h] = Free /\ faults' = faults + 1
      /\ processes' = [p \in Plugins |-> IF Route[p] = h THEN NoProcess ELSE processes[p]]
      /\ UNCHANGED <<frames, lock, failures, late, ended, panicked, taken, returned, requests>>
  BY DEF Close, Fault, history, hostForPlugin
<1>2. HostTypeOK'
  <2>1. processes' \in [Plugins -> Process \cup {NoProcess}]
    BY <1>1 DEF HostInvariant, HostTypeOK
  <2> QED
    BY <1>1, <2>1 DEF HostInvariant, HostTypeOK
<1>3. BudgetHolds'
  BY <1>1 DEF HostInvariant, BudgetHolds
<1>4. FramesOK'
  <2>1. ASSUME NEW k \in Callers, NEW i \in DOMAIN frames[k] PROVE FrameOK(k, frames[k][i])'
    <3>1. FrameOK(k, frames[k][i])
      BY DEF HostInvariant, FramesOK
    <3>2. frames[k][i].plugin \in Plugins
      <4>1. frames[k] \in Seq(Frame)
        BY DEF HostInvariant, HostTypeOK
      <4>2. frames[k][i] \in Frame
        BY <4>1
      <4> QED
        BY <4>2 DEF Frame
    <3>3. frames[k][i].stage \in Started => Route[frames[k][i].plugin] # h
      BY <1>1, <3>1, HostNamesAssumption DEF FrameOK, Started
    <3> QED
      BY <1>1, <3>1, <3>2, <3>3 DEF FrameOK
  <2> QED
    BY <1>1, <2>1 DEF HostInvariant, FramesOK
<1>5. FramesApart'
  BY <1>1 DEF HostInvariant, FramesApart, Apart
<1> QED
  BY <1>2, <1>3, <1>4, <1>5 DEF HostInvariant

-----------------------------------------------------------------------------
(* The host's invariant *)

LEMMA HostInitially == HostInit => HostInvariant
<1> SUFFICES ASSUME HostInit PROVE HostInvariant
  OBVIOUS
<1>1. /\ frames = [c \in Callers |-> <<>>] /\ lock = [h \in Hosts |-> Free]
      /\ processes = [p \in Plugins |-> NoProcess] /\ failures = [p \in Plugins |-> 0]
      /\ late = [p \in Plugins |-> 0] /\ ended = {} /\ panicked = FALSE /\ taken = <<>>
      /\ returned = {} /\ requests = 0 /\ faults = 0
  BY DEF HostInit
<1>2. \A c \in Callers : frames[c] \in Seq(Frame) /\ DOMAIN frames[c] = {}
  BY <1>1
<1>3. HostTypeOK
  <2>1. frames \in [Callers -> Seq(Frame)]
    BY <1>1, <1>2
  <2>2. taken \in [1 .. requests -> Nat]
    BY <1>1
  <2> QED
    BY <1>1, <2>1, <2>2 DEF HostTypeOK
<1>4. FramesOK /\ FramesApart
  BY <1>2 DEF FramesOK, FramesApart
<1>5. BudgetHolds
  BY <1>1, HostBoundsAssumption DEF BudgetHolds
<1> QED
  BY <1>3, <1>4, <1>5 DEF HostInvariant

LEMMA HostStepKeeps ==
    ASSUME HostInvariant, NEW c \in Callers, HostStep(c)
    PROVE  HostInvariant'
BY ReuseKeeps, StartFailsKeeps, StartKeeps, performHandshakeKeeps, HandshakeFailsKeeps,
   WriteRequestKeeps, WriteFailsKeeps, ReadAnswerKeeps, ReadCallbackKeeps, ReadEOFKeeps,
   ReadNoiseKeeps, ReadTimeoutKeeps, ReplayEventKeeps, handleCallbackKeeps,
   writeCallbackResultKeeps DEF HostStep

LEMMA HostNextKeeps ==
    ASSUME HostInvariant, [HostNext]_hostVars
    PROVE  HostInvariant'
<1>1. CASE UNCHANGED hostVars
  BY <1>1 DEF hostVars, history, HostInvariant, HostTypeOK, FramesOK, FrameOK, FramesApart,
              Apart, BudgetHolds
<1>2. ASSUME NEW c \in Callers, NEW p \in Plugins, NEW context \in {Background, requests + 1},
             DispatchRequest(c, p, context) \/ RefuseRequest(c, p, context)
      PROVE  HostInvariant'
  <2>1. context \in Nat
    BY DEF HostInvariant, HostTypeOK, Background
  <2> QED
    BY <1>2, <2>1, DispatchRequestKeeps, RefuseRequestKeeps
<1>3. ASSUME NEW c \in Callers, Lock(c) \/ HostStep(c) \/ ClientLeaves(c)
      PROVE  HostInvariant'
  BY <1>3, LockKeeps, HostStepKeeps, ClientLeavesKeeps
<1>4. ASSUME NEW p \in Plugins,
             ProcessStep(p) \/ WindowPasses(p) \/ LateReader(p) \/ Steal(p)
      PROVE  HostInvariant'
  BY <1>4, ProcessStepKeeps, WindowPassesKeeps, LateReaderKeeps, StealKeeps
<1>5. ASSUME NEW h \in Hosts, Close(h)
      PROVE  HostInvariant'
  BY <1>5, CloseKeeps
<1> QED
  BY <1>1, <1>2, <1>3, <1>4, <1>5 DEF HostNext

\* The invariant of the mutex is inductive: past the lock of a host there is
\* one dispatch, and while it is there its process is registered.
THEOREM HostInvariantHolds == Host => []HostInvariant
<1>1. HostInvariant /\ [HostNext]_hostVars => HostInvariant'
  BY HostNextKeeps
<1> QED
  BY <1>1, HostInitially, PTL DEF Host

\* The state of the host has its types.
THEOREM HostTypeCorrect == Host => []HostTypeOK
<1>1. HostInvariant => HostTypeOK
  BY DEF HostInvariant
<1> QED
  BY <1>1, HostInvariantHolds, PTL

\* No plugin is started more often than its budget of failures allows.
THEOREM BudgetIsKept == Host => []BudgetHolds
<1>1. HostInvariant => BudgetHolds
  BY DEF HostInvariant
<1> QED
  BY <1>1, HostInvariantHolds, PTL

-----------------------------------------------------------------------------
(* The conversation of a host and a process *)

\* A dispatch of plugin p for request n is at this stage.
Speaks(p, stage, n) ==
    \E c \in Callers : \E i \in DOMAIN frames[c] :
        /\ frames[c][i].plugin = p
        /\ frames[c][i].stage = stage
        /\ frames[c][i].serial = n

Talking == {"handshake", "read", "callback", "result"}

Request(n) == [kind |-> "request", serial |-> n]
Result(n) == [kind |-> "result", serial |-> n]
HandshakeLine == [kind |-> "handshake", serial |-> 0, status |-> "ok"]

\* A process that works on nothing and has nothing to read.
Idle(x) == x.stdin = <<>> /\ x.serving = 0 /\ ~x.waiting

\* Its only line that has not been read.
Says(x, kind, n) ==
    /\ Len(x.stdout) = 1
    /\ x.stdout[1].kind = kind
    /\ x.stdout[1].serial = n

\* How far the two can be, by the stage of the dispatch.  A reader that was
\* left behind may have taken a line; it adds none.
Greeting(x) == Idle(x) /\ (x.stdout = <<>> \/ (x.greeted /\ x.stdout = <<HandshakeLine>>))

AtRest(x) == Idle(x) /\ x.stdout = <<>> /\ x.greeted

Reading(x, n) ==
    /\ x.greeted
    /\ \/ x.stdin = <<Request(n)>> /\ x.serving = 0 /\ ~x.waiting /\ x.stdout = <<>>
       \/ x.stdin = <<>> /\ x.serving = n /\ ~x.waiting /\ x.stdout = <<>>
       \/ /\ x.stdin = <<>> /\ x.serving = n /\ x.waiting
          /\ x.stdout = <<>> \/ Says(x, "callback", n)
       \/ x.stdin = <<Result(n)>> /\ x.serving = n /\ x.waiting /\ x.stdout = <<>>
       \/ Idle(x) /\ (x.stdout = <<>> \/ Says(x, "answer", n))
       \/ Idle(x) /\ ~x.alive /\ Says(x, "callback", n)

Called(x, n) ==
    /\ x.greeted /\ x.stdin = <<>> /\ x.stdout = <<>>
    /\ \/ x.serving = n /\ x.waiting
       \/ Idle(x) /\ ~x.alive

\* What holds of a process x when the dispatch of request n is at a stage.
Fits(x, stage, n) ==
    /\ ~x.alive => Idle(x)
    /\ stage = "handshake" => Greeting(x)
    /\ stage = "read" => Reading(x, n)
    /\ stage \in {"callback", "result"} => Called(x, n)
    /\ stage \notin Talking => AtRest(x)

Talk(p) ==
    /\ \A n \in Nat, stage \in Talking :
          Speaks(p, stage, n) => Fits(processes[p], stage, n)
    /\ (\A n \in Nat, stage \in Talking : ~Speaks(p, stage, n)) =>
          Fits(processes[p], "write", 0)

TalkInvariant ==
    \A p \in Plugins : processes[p] # NoProcess /\ ~processes[p].noisy => Talk(p)

\* No other dispatch past the lock is on the plugin of one, nor for its request.
LEMMA Alone ==
    ASSUME HostInvariant, NEW c \in Callers, Busy(c), Top(c).stage # "queued",
           NEW k \in Callers, NEW i \in DOMAIN frames[k], k # c \/ i # Len(frames[c])
    PROVE  /\ frames[k][i].serial # Top(c).serial
           /\ frames[k][i].stage # "queued" => frames[k][i].plugin # Top(c).plugin
<1>1. Len(frames[c]) \in DOMAIN frames[c] /\ Top(c) = frames[c][Len(frames[c])]
  BY TopIn DEF HostInvariant
<1>2. Apart(frames[k][i], Top(c))
  BY <1>1 DEF HostInvariant, FramesApart
<1> QED
  BY <1>2 DEF Apart

LEMMA TopSpeaks ==
    ASSUME HostInvariant, NEW c \in Callers, Busy(c), Top(c).stage # "queued"
    PROVE  \A stage \in Talking, n \in Nat :
               Speaks(Top(c).plugin, stage, n)
                   <=> stage = Top(c).stage /\ n = Top(c).serial
<1>1. Len(frames[c]) \in DOMAIN frames[c] /\ Top(c) = frames[c][Len(frames[c])]
  BY TopIn DEF HostInvariant
<1>2. ASSUME NEW stage \in Talking, NEW n \in Nat, Speaks(Top(c).plugin, stage, n)
      PROVE  stage = Top(c).stage /\ n = Top(c).serial
  <2>1. PICK k \in Callers : \E i \in DOMAIN frames[k] :
            /\ frames[k][i].plugin = Top(c).plugin /\ frames[k][i].stage = stage
            /\ frames[k][i].serial = n
    BY <1>2 DEF Speaks
  <2>2. PICK i \in DOMAIN frames[k] :
            /\ frames[k][i].plugin = Top(c).plugin /\ frames[k][i].stage = stage
            /\ frames[k][i].serial = n
    BY <2>1
  <2>3. k = c /\ i = Len(frames[c])
    BY <2>2, Alone DEF Talking
  <2> QED
    BY <1>1, <2>2, <2>3
<1>3. ASSUME NEW stage \in Talking, NEW n \in Nat, stage = Top(c).stage, n = Top(c).serial
      PROVE  Speaks(Top(c).plugin, stage, n)
  BY <1>1, <1>3 DEF Speaks
<1> QED
  BY <1>2, <1>3

\* The process of the dispatch on top is where its stage says.
LEMMA TopFits ==
    ASSUME HostInvariant, TalkInvariant, NEW c \in Callers, Busy(c), Top(c).stage # "queued",
           NEW p \in Plugins, p = Top(c).plugin, processes[p] # NoProcess, ~processes[p].noisy
    PROVE  Fits(processes[p], Top(c).stage, Top(c).serial)
<1>1. Talk(p)
  BY DEF TalkInvariant
<1>2. Top(c).serial \in Nat
  BY TopOK
<1>3. CASE Top(c).stage \in Talking
  <2>1. Speaks(p, Top(c).stage, Top(c).serial)
    BY <1>2, <1>3, TopSpeaks
  <2> QED
    BY <1>1, <1>2, <1>3, <2>1 DEF Talk
<1>4. CASE Top(c).stage \notin Talking
  <2>1. \A n \in Nat, stage \in Talking : ~Speaks(p, stage, n)
    BY <1>4, TopSpeaks
  <2>2. Fits(processes[p], "write", 0)
    BY <1>1, <2>1 DEF Talk
  <2> QED
    BY <1>4, <2>2 DEF Fits, Talking
<1> QED
  BY <1>3, <1>4

\* Where the frames are after a dispatch went on.
LEMMA MovedShape ==
    ASSUME HostInvariant, NEW c \in Callers, Busy(c), NEW stage \in Stages, NEW phase \in Phases,
           Moved(c, stage, phase)
    PROVE  /\ \A k \in Callers : DOMAIN frames'[k] = DOMAIN frames[k]
           /\ \A k \in Callers : \A i \in DOMAIN frames[k] :
                  k # c \/ i # Len(frames[c]) => frames'[k][i] = frames[k][i]
           /\ Len(frames[c]) \in DOMAIN frames[c]
           /\ frames'[c][Len(frames[c])].plugin = Top(c).plugin
           /\ frames'[c][Len(frames[c])].serial = Top(c).serial
           /\ frames'[c][Len(frames[c])].stage = stage
           /\ frames'[c][Len(frames[c])].phase = phase
<1>1. /\ frames[c] \in Seq(Frame) /\ frames[c] # <<>> /\ Len(frames[c]) \in DOMAIN frames[c]
      /\ Top(c) = frames[c][Len(frames[c])] /\ Top(c) \in Frame
      /\ frames \in [Callers -> Seq(Frame)]
  BY TopIn DEF HostInvariant, HostTypeOK
<1>2. PICK f \in Frame :
          /\ f = [Top(c) EXCEPT !.stage = stage, !.phase = phase]
          /\ f.plugin = Top(c).plugin /\ f.serial = Top(c).serial /\ f.stage = stage
          /\ f.phase = phase
  <2> DEFINE f == [Top(c) EXCEPT !.stage = stage, !.phase = phase]
  <2>1. /\ f \in Frame /\ f.plugin = Top(c).plugin /\ f.serial = Top(c).serial
        /\ f.stage = stage /\ f.phase = phase
    BY <1>1 DEF Frame
  <2> QED
    BY <2>1
<1>3. frames' = [frames EXCEPT ![c] = [@ EXCEPT ![Len(@)] = f]]
  BY <1>2 DEF Moved
<1>4. /\ frames'[c] = [frames[c] EXCEPT ![Len(frames[c])] = f]
      /\ \A k \in Callers : k # c => frames'[k] = frames[k]
  BY <1>1, <1>3
<1>5. /\ DOMAIN frames'[c] = DOMAIN frames[c] /\ Len(frames'[c]) = Len(frames[c])
      /\ frames'[c][Len(frames[c])] = f
      /\ \A i \in DOMAIN frames[c] : i # Len(frames[c]) => frames'[c][i] = frames[c][i]
  BY <1>1, <1>2, <1>4, ChangeTop
<1> QED
  BY <1>1, <1>2, <1>4, <1>5

LEMMA MovedSpeaks ==
    ASSUME HostInvariant, NEW c \in Callers, Busy(c), Top(c).stage # "queued",
           NEW stage \in Stages, NEW phase \in Phases, Moved(c, stage, phase),
           NEW q \in Plugins, NEW s \in Talking, NEW n \in Nat
    PROVE  /\ q = Top(c).plugin =>
                  (Speaks(q, s, n)' <=> s = stage /\ n = Top(c).serial)
           /\ q # Top(c).plugin => (Speaks(q, s, n)' <=> Speaks(q, s, n))
<1>1. /\ \A k \in Callers : DOMAIN frames'[k] = DOMAIN frames[k]
      /\ \A k \in Callers : \A i \in DOMAIN frames[k] :
             k # c \/ i # Len(frames[c]) => frames'[k][i] = frames[k][i]
      /\ Len(frames[c]) \in DOMAIN frames[c]
      /\ frames'[c][Len(frames[c])].plugin = Top(c).plugin
      /\ frames'[c][Len(frames[c])].serial = Top(c).serial
      /\ frames'[c][Len(frames[c])].stage = stage
  BY MovedShape
<1>2. Top(c) = frames[c][Len(frames[c])]
  BY DEF Top
<1>3. ASSUME Speaks(q, s, n)'
      PROVE  \/ q = Top(c).plugin /\ s = stage /\ n = Top(c).serial
             \/ q # Top(c).plugin /\ Speaks(q, s, n)
  <2>0. PICK k \in Callers : \E i \in DOMAIN frames'[k] :
            /\ frames'[k][i].plugin = q /\ frames'[k][i].stage = s /\ frames'[k][i].serial = n
    BY <1>3 DEF Speaks
  <2>1. PICK i \in DOMAIN frames'[k] :
            /\ frames'[k][i].plugin = q /\ frames'[k][i].stage = s /\ frames'[k][i].serial = n
    BY <2>0
  <2>2. CASE k = c /\ i = Len(frames[c])
    BY <1>1, <2>1, <2>2
  <2>3. CASE k # c \/ i # Len(frames[c])
    <3>1. i \in DOMAIN frames[k] /\ frames'[k][i] = frames[k][i]
      BY <1>1, <2>3
    <3>2. q # Top(c).plugin
      BY <2>1, <2>3, <3>1, Alone DEF Talking
    <3> QED
      BY <2>1, <3>1, <3>2 DEF Speaks
  <2> QED
    BY <2>2, <2>3
<1>4. ASSUME q = Top(c).plugin, s = stage, n = Top(c).serial
      PROVE  Speaks(q, s, n)'
  BY <1>1, <1>4 DEF Speaks
<1>5. ASSUME q # Top(c).plugin, Speaks(q, s, n)
      PROVE  Speaks(q, s, n)'
  <2>1. PICK k \in Callers : \E i \in DOMAIN frames[k] :
            /\ frames[k][i].plugin = q /\ frames[k][i].stage = s /\ frames[k][i].serial = n
    BY <1>5 DEF Speaks
  <2>2. PICK i \in DOMAIN frames[k] :
            /\ frames[k][i].plugin = q /\ frames[k][i].stage = s /\ frames[k][i].serial = n
    BY <2>1
  <2>3. k # c \/ i # Len(frames[c])
    BY <1>2, <1>5, <2>2
  <2>4. i \in DOMAIN frames'[k] /\ frames'[k][i] = frames[k][i]
    BY <1>1, <2>3
  <2> QED
    BY <2>2, <2>4 DEF Speaks
<1> QED
  BY <1>3, <1>4, <1>5

\* A dispatch goes on, and what its process is now fits where it is.
LEMMA TalkMoves ==
    ASSUME HostInvariant, TalkInvariant, NEW c \in Callers, Busy(c), Top(c).stage # "queued",
           NEW stage \in Stages, NEW phase \in Phases, Moved(c, stage, phase),
           NEW p \in Plugins, p = Top(c).plugin, NEW x, x = processes'[p],
           \A q \in Plugins : q # p => processes'[q] = processes[q],
           x # NoProcess /\ ~x.noisy => Fits(x, stage, Top(c).serial)
    PROVE  TalkInvariant'
<1>1. Top(c).serial \in Nat
  BY TopOK
<1>2. ASSUME NEW q \in Plugins, processes'[q] # NoProcess, ~processes'[q].noisy
      PROVE  Talk(q)'
  <2>1. CASE q # p
    <3>1. Talk(q) /\ processes'[q] = processes[q]
      BY <1>2, <2>1 DEF TalkInvariant
    <3>2. \A s \in Talking, n \in Nat : Speaks(q, s, n)' <=> Speaks(q, s, n)
      BY <2>1, MovedSpeaks
    <3> QED
      BY <3>1, <3>2 DEF Talk, Fits, Idle, Greeting, AtRest, Reading, Called, Says
  <2>2. CASE q = p
    <3>1. \A s \in Talking, n \in Nat : Speaks(q, s, n)' <=> s = stage /\ n = Top(c).serial
      BY <2>2, MovedSpeaks
    <3>2. Fits(x, stage, Top(c).serial)
      BY <1>2, <2>2
    <3>3. stage \notin Talking => Fits(x, "write", 0)
      BY <3>2 DEF Fits, Talking
    <3>4. \A s \in Talking, n \in Nat : Speaks(q, s, n)' => Fits(x, s, n)
      BY <3>1, <3>2
    <3>5. (\A n \in Nat, s \in Talking : ~Speaks(q, s, n)') => Fits(x, "write", 0)
      BY <1>1, <3>1, <3>3
    <3>6. processes'[q] = x
      BY <2>2
    <3> QED
      BY <3>4, <3>5, <3>6 DEF Talk, Fits, Idle, Greeting, AtRest, Reading, Called, Says
  <2> QED
    BY <2>1, <2>2
<1> QED
  BY <1>2 DEF TalkInvariant

\* Where the frames are after a dispatch returned.
Left(c) == frames' = [frames EXCEPT ![c] = SubSeq(@, 1, Len(@) - 1)]

LEMMA LeftShape ==
    ASSUME HostInvariant, NEW c \in Callers, Busy(c), Left(c)
    PROVE  /\ \A k \in Callers : \A i \in DOMAIN frames'[k] :
                  /\ i \in DOMAIN frames[k] /\ frames'[k][i] = frames[k][i]
                  /\ (k # c \/ i # Len(frames[c]))
           /\ \A k \in Callers : \A i \in DOMAIN frames[k] :
                  k # c \/ i # Len(frames[c]) => i \in DOMAIN frames'[k]
<1>1. /\ frames[c] \in Seq(Frame) /\ frames[c] # <<>> /\ Len(frames[c]) \in DOMAIN frames[c]
      /\ frames \in [Callers -> Seq(Frame)]
  BY TopIn DEF HostInvariant, HostTypeOK
<1>2. /\ frames'[c] = SubSeq(frames[c], 1, Len(frames[c]) - 1)
      /\ \A k \in Callers : k # c => frames'[k] = frames[k]
  BY <1>1 DEF Left
<1>3. /\ DOMAIN frames'[c] = DOMAIN frames[c] \ {Len(frames[c])}
      /\ \A i \in DOMAIN frames'[c] : frames'[c][i] = frames[c][i]
  BY <1>1, <1>2, DropTop
<1> QED
  BY <1>2, <1>3

LEMMA LeftSpeaks ==
    ASSUME HostInvariant, NEW c \in Callers, Busy(c), Top(c).stage # "queued", Left(c),
           NEW q \in Plugins, NEW s \in Talking, NEW n \in Nat
    PROVE  /\ q = Top(c).plugin => ~Speaks(q, s, n)'
           /\ q # Top(c).plugin => (Speaks(q, s, n)' <=> Speaks(q, s, n))
<1>1. /\ \A k \in Callers : \A i \in DOMAIN frames'[k] :
             /\ i \in DOMAIN frames[k] /\ frames'[k][i] = frames[k][i]
             /\ (k # c \/ i # Len(frames[c]))
      /\ \A k \in Callers : \A i \in DOMAIN frames[k] :
             k # c \/ i # Len(frames[c]) => i \in DOMAIN frames'[k]
  BY LeftShape
<1>2. Top(c) = frames[c][Len(frames[c])]
  BY DEF Top
<1>3. ASSUME Speaks(q, s, n)'
      PROVE  q # Top(c).plugin /\ Speaks(q, s, n)
  <2>1. PICK k \in Callers : \E i \in DOMAIN frames'[k] :
            /\ frames'[k][i].plugin = q /\ frames'[k][i].stage = s /\ frames'[k][i].serial = n
    BY <1>3 DEF Speaks
  <2>2. PICK i \in DOMAIN frames'[k] :
            /\ frames'[k][i].plugin = q /\ frames'[k][i].stage = s /\ frames'[k][i].serial = n
    BY <2>1
  <2>3. i \in DOMAIN frames[k] /\ frames'[k][i] = frames[k][i] /\ (k # c \/ i # Len(frames[c]))
    BY <1>1
  <2>4. q # Top(c).plugin
    BY <2>2, <2>3, Alone DEF Talking
  <2> QED
    BY <2>2, <2>3, <2>4 DEF Speaks
<1>4. ASSUME q # Top(c).plugin, Speaks(q, s, n)
      PROVE  Speaks(q, s, n)'
  <2>1. PICK k \in Callers : \E i \in DOMAIN frames[k] :
            /\ frames[k][i].plugin = q /\ frames[k][i].stage = s /\ frames[k][i].serial = n
    BY <1>4 DEF Speaks
  <2>2. PICK i \in DOMAIN frames[k] :
            /\ frames[k][i].plugin = q /\ frames[k][i].stage = s /\ frames[k][i].serial = n
    BY <2>1
  <2>3. k # c \/ i # Len(frames[c])
    BY <1>2, <1>4, <2>2
  <2>4. i \in DOMAIN frames'[k] /\ frames'[k][i] = frames[k][i]
    BY <1>1, <2>3
  <2> QED
    BY <2>2, <2>4 DEF Speaks
<1> QED
  BY <1>3, <1>4

\* A dispatch returns, and its process, if it is left, is at rest.
LEMMA TalkLeaves ==
    ASSUME HostInvariant, TalkInvariant, NEW c \in Callers, Busy(c), Top(c).stage # "queued",
           Left(c), NEW p \in Plugins, p = Top(c).plugin, NEW x, x = processes'[p],
           \A q \in Plugins : q # p => processes'[q] = processes[q],
           x # NoProcess /\ ~x.noisy => Fits(x, "write", 0)
    PROVE  TalkInvariant'
<1>2. ASSUME NEW q \in Plugins, processes'[q] # NoProcess, ~processes'[q].noisy
      PROVE  Talk(q)'
  <2>1. CASE q # p
    <3>1. Talk(q) /\ processes'[q] = processes[q]
      BY <1>2, <2>1 DEF TalkInvariant
    <3>2. \A s \in Talking, n \in Nat : Speaks(q, s, n)' <=> Speaks(q, s, n)
      BY <2>1, LeftSpeaks
    <3> QED
      BY <3>1, <3>2 DEF Talk, Fits, Idle, Greeting, AtRest, Reading, Called, Says
  <2>2. CASE q = p
    <3>1. \A s \in Talking, n \in Nat : ~Speaks(q, s, n)'
      BY <2>2, LeftSpeaks
    <3>2. Fits(x, "write", 0)
      BY <1>2, <2>2
    <3>3. processes'[q] = x
      BY <2>2
    <3> QED
      BY <3>1, <3>2, <3>3 DEF Talk, Fits, Idle, Greeting, AtRest, Reading, Called, Says
  <2> QED
    BY <2>1, <2>2
<1> QED
  BY <1>2 DEF TalkInvariant

\* Nothing is said by a dispatch: every process that changed still fits.
SameSpeakers ==
    \A q \in Plugins, s \in Talking, n \in Nat : Speaks(q, s, n)' <=> Speaks(q, s, n)

LEMMA TalkStays ==
    ASSUME HostInvariant, TalkInvariant, SameSpeakers,
           \A q \in Plugins : processes'[q] # NoProcess /\ ~processes'[q].noisy =>
               /\ processes[q] # NoProcess /\ ~processes[q].noisy
               /\ \A s \in Talking \cup {"write"}, n \in Nat :
                      Fits(processes[q], s, n) /\ (s = "write" \/ n # 0) =>
                          Fits(processes'[q], s, n)
    PROVE  TalkInvariant'
<1>1. ASSUME NEW q \in Plugins, processes'[q] # NoProcess, ~processes'[q].noisy
      PROVE  Talk(q)'
  <2>1. /\ Talk(q)
        /\ \A s \in Talking \cup {"write"}, n \in Nat :
               Fits(processes[q], s, n) /\ (s = "write" \/ n # 0) => Fits(processes'[q], s, n)
    BY <1>1 DEF TalkInvariant
  <2>2. \A s \in Talking, n \in Nat : Speaks(q, s, n)' <=> Speaks(q, s, n)
    BY DEF SameSpeakers
  <2>3. \A s \in Talking, n \in Nat : Speaks(q, s, n)' => Fits(processes'[q], s, n)
    <3>1. ASSUME NEW s \in Talking, NEW n \in Nat, Speaks(q, s, n)
          PROVE  n # 0
      BY <3>1 DEF Speaks, HostInvariant, FramesOK, FrameOK
    <3> QED
      BY <2>1, <2>2, <3>1 DEF Talk
  <2>4. (\A n \in Nat, s \in Talking : ~Speaks(q, s, n)') => Fits(processes'[q], "write", 0)
    BY <2>1, <2>2 DEF Talk
  <2> QED
    BY <2>3, <2>4 DEF Talk, Fits, Idle, Greeting, AtRest, Reading, Called, Says
<1> QED
  BY <1>1 DEF TalkInvariant

LEMMA SameFramesSpeak ==
    ASSUME UNCHANGED frames
    PROVE  SameSpeakers
BY DEF SameSpeakers, Speaks

\* Where the frames are after a replay was asked for.
LEMMA PushedShape ==
    ASSUME HostInvariant, NEW c \in Callers, Busy(c), NEW g \in Frame,
           frames' = [frames EXCEPT ![c] =
               Append(SubSeq(@, 1, Len(@) - 1) \o <<[Top(c) EXCEPT !.stage = "result"]>>, g)]
    PROVE  /\ \A k \in Callers : k # c => frames'[k] = frames[k]
           /\ \A i \in DOMAIN frames[c] :
                  i # Len(frames[c]) => frames'[c][i] = frames[c][i]
           /\ DOMAIN frames'[c] = DOMAIN frames[c] \cup {Len(frames[c]) + 1}
           /\ Len(frames[c]) \in DOMAIN frames[c]
           /\ Len(frames[c]) + 1 \notin DOMAIN frames[c]
           /\ frames'[c][Len(frames[c]) + 1] = g
           /\ frames'[c][Len(frames[c])].plugin = Top(c).plugin
           /\ frames'[c][Len(frames[c])].serial = Top(c).serial
           /\ frames'[c][Len(frames[c])].stage = "result"
           /\ frames'[c][Len(frames[c])].phase = Top(c).phase
<1>1. /\ frames[c] \in Seq(Frame) /\ frames[c] # <<>> /\ Top(c) \in Frame
      /\ frames \in [Callers -> Seq(Frame)]
  BY TopIn DEF HostInvariant, HostTypeOK
<1>2. PICK f \in Frame :
          /\ f = [Top(c) EXCEPT !.stage = "result"]
          /\ f.plugin = Top(c).plugin /\ f.serial = Top(c).serial /\ f.stage = "result"
          /\ f.phase = Top(c).phase
  <2> DEFINE f == [Top(c) EXCEPT !.stage = "result"]
  <2>1. /\ f \in Frame /\ f.plugin = Top(c).plugin /\ f.serial = Top(c).serial
        /\ f.stage = "result" /\ f.phase = Top(c).phase
    BY <1>1 DEF Frame, Stages
  <2> QED
    BY <2>1
<1>3. frames' = [frames EXCEPT ![c] = Pushed(frames[c], f, g)]
  BY <1>2 DEF Pushed
<1>4. frames'[c] = Pushed(frames[c], f, g) /\ \A k \in Callers : k # c => frames'[k] = frames[k]
  BY <1>1, <1>3
<1>5. Grown(frames[c], f, g, frames'[c])
  BY <1>1, <1>4, PushTop
<1>6. Len(frames[c]) + 1 \notin DOMAIN frames[c]
  BY <1>1
<1> QED
  BY <1>2, <1>4, <1>5, <1>6 DEF Grown

LEMMA LockSpeaks ==
    ASSUME HostInvariant, NEW c \in Callers, Lock(c)
    PROVE  SameSpeakers
<1>1. Busy(c) /\ Top(c).stage = "queued" /\ Goto(c, "ensure")
  BY DEF Lock, At
<1>2. "ensure" \in Stages /\ Top(c).phase \in Phases
  BY <1>1, TopOK DEF Stages
<1>3. Moved(c, "ensure", Top(c).phase)
  BY <1>1, <1>2, GotoMoves
<1>4. /\ \A k \in Callers : DOMAIN frames'[k] = DOMAIN frames[k]
      /\ \A k \in Callers : \A i \in DOMAIN frames[k] :
             k # c \/ i # Len(frames[c]) => frames'[k][i] = frames[k][i]
      /\ frames'[c][Len(frames[c])].stage = "ensure"
  BY <1>1, <1>2, <1>3, MovedShape
<1>5. frames[c][Len(frames[c])].stage = "queued"
  BY <1>1 DEF Top
<1>6. ASSUME NEW q \in Plugins, NEW s \in Talking, NEW n \in Nat, NEW k \in Callers,
             NEW i \in DOMAIN frames[k]
      PROVE  frames'[k][i].plugin = q /\ frames'[k][i].stage = s /\ frames'[k][i].serial = n
                 <=> frames[k][i].plugin = q /\ frames[k][i].stage = s /\ frames[k][i].serial = n
  BY <1>4, <1>5 DEF Talking
<1> QED
  BY <1>4, <1>6 DEF SameSpeakers, Speaks

LEMMA DispatchSpeaks ==
    ASSUME HostInvariant, NEW c \in Callers, NEW p \in Plugins, NEW context \in Nat,
           DispatchRequest(c, p, context)
    PROVE  SameSpeakers
<1>1. PICK g \in Frame : g.stage = "queued" /\ frames' = [frames EXCEPT ![c] = <<g>>]
  BY NewFrameIsFrame DEF HostInvariant, DispatchRequest
<1>2. frames[c] = <<>> /\ frames'[c] = <<g>> /\ \A k \in Callers : k # c => frames'[k] = frames[k]
  BY <1>1 DEF DispatchRequest, Busy, HostInvariant, HostTypeOK
<1>3. ASSUME NEW q \in Plugins, NEW s \in Talking, NEW n \in Nat, NEW k \in Callers
      PROVE  (\E i \in DOMAIN frames'[k] :
                  /\ frames'[k][i].plugin = q /\ frames'[k][i].stage = s
                  /\ frames'[k][i].serial = n)
             <=> (\E i \in DOMAIN frames[k] :
                  /\ frames[k][i].plugin = q /\ frames[k][i].stage = s
                  /\ frames[k][i].serial = n)
  <2>1. CASE k # c
    BY <1>2, <2>1
  <2>2. CASE k = c
    BY <1>1, <1>2, <2>2 DEF Talking
  <2> QED
    BY <2>1, <2>2
<1> QED
  BY <1>3 DEF SameSpeakers, Speaks

LEMMA ReplaySpeaks ==
    ASSUME HostInvariant, NEW c \in Callers, Busy(c), Top(c).stage = "callback",
           NEW g \in Frame, g.stage = "queued",
           frames' = [frames EXCEPT ![c] =
               Append(SubSeq(@, 1, Len(@) - 1) \o <<[Top(c) EXCEPT !.stage = "result"]>>, g)],
           NEW q \in Plugins, NEW s \in Talking, NEW n \in Nat
    PROVE  /\ q = Top(c).plugin =>
                  (Speaks(q, s, n)' <=> s = "result" /\ n = Top(c).serial)
           /\ q # Top(c).plugin => (Speaks(q, s, n)' <=> Speaks(q, s, n))
<1>1. /\ \A k \in Callers : k # c => frames'[k] = frames[k]
      /\ \A i \in DOMAIN frames[c] : i # Len(frames[c]) => frames'[c][i] = frames[c][i]
      /\ DOMAIN frames'[c] = DOMAIN frames[c] \cup {Len(frames[c]) + 1}
      /\ Len(frames[c]) \in DOMAIN frames[c]
      /\ frames'[c][Len(frames[c]) + 1] = g
      /\ frames'[c][Len(frames[c])].plugin = Top(c).plugin
      /\ frames'[c][Len(frames[c])].serial = Top(c).serial
      /\ frames'[c][Len(frames[c])].stage = "result"
  BY PushedShape
<1>2. Top(c) = frames[c][Len(frames[c])] /\ Top(c).stage # "queued"
  BY DEF Top
<1>3. ASSUME Speaks(q, s, n)'
      PROVE  \/ q = Top(c).plugin /\ s = "result" /\ n = Top(c).serial
             \/ q # Top(c).plugin /\ Speaks(q, s, n)
  <2>1. PICK k \in Callers : \E i \in DOMAIN frames'[k] :
            /\ frames'[k][i].plugin = q /\ frames'[k][i].stage = s /\ frames'[k][i].serial = n
    BY <1>3 DEF Speaks
  <2>2. PICK i \in DOMAIN frames'[k] :
            /\ frames'[k][i].plugin = q /\ frames'[k][i].stage = s /\ frames'[k][i].serial = n
    BY <2>1
  <2>3. CASE k = c /\ i = Len(frames[c])
    BY <1>1, <2>2, <2>3
  <2>4. CASE k = c /\ i = Len(frames[c]) + 1
    BY <1>1, <2>2, <2>4 DEF Talking
  <2>5. CASE i \in DOMAIN frames[k] /\ (k # c \/ i # Len(frames[c]))
    <3>1. frames'[k][i] = frames[k][i]
      BY <1>1, <2>5
    <3>2. q # Top(c).plugin
      BY <1>2, <2>2, <2>5, <3>1, Alone DEF Talking
    <3> QED
      BY <2>2, <2>5, <3>1, <3>2 DEF Speaks
  <2> QED
    BY <1>1, <2>3, <2>4, <2>5
<1>4. ASSUME q = Top(c).plugin, s = "result", n = Top(c).serial
      PROVE  Speaks(q, s, n)'
  BY <1>1, <1>4 DEF Speaks
<1>5. ASSUME q # Top(c).plugin, Speaks(q, s, n)
      PROVE  Speaks(q, s, n)'
  <2>1. PICK k \in Callers : \E i \in DOMAIN frames[k] :
            /\ frames[k][i].plugin = q /\ frames[k][i].stage = s /\ frames[k][i].serial = n
    BY <1>5 DEF Speaks
  <2>2. PICK i \in DOMAIN frames[k] :
            /\ frames[k][i].plugin = q /\ frames[k][i].stage = s /\ frames[k][i].serial = n
    BY <2>1
  <2>3. k # c \/ i # Len(frames[c])
    BY <1>2, <1>5, <2>2
  <2>4. i \in DOMAIN frames'[k] /\ frames'[k][i] = frames[k][i]
    BY <1>1, <2>2, <2>3
  <2> QED
    BY <2>2, <2>4 DEF Speaks
<1> QED
  BY <1>3, <1>4, <1>5

-----------------------------------------------------------------------------
(* What a line makes of the conversation *)

LEMMA OneLine ==
    ASSUME NEW x \in Process, NEW kind, NEW n, Says(x, kind, n)
    PROVE  /\ x.stdout # <<>> /\ Tail(x.stdout) = <<>>
           /\ Head(x.stdout).kind = kind /\ Head(x.stdout).serial = n
<1>1. x.stdout \in Seq(Line) /\ Len(x.stdout) = 1
  BY DEF Process, Says
<1>2. Head(x.stdout) = x.stdout[1] /\ Tail(x.stdout) = <<>> /\ x.stdout # <<>>
  <2>1. PICK s \in Seq(Line) : s = x.stdout /\ Len(s) = 1
    BY <1>1
  <2>2. s # <<>>
    <3>1. Len(<<>>) = 0 /\ 1 # 0
      OBVIOUS
    <3> QED
      BY <2>1, <3>1, Zenon
  <2>3. Head(s) = s[1]
    BY <2>2
  <2>4. Len(Tail(s)) = 0 /\ Tail(s) \in Seq(Line)
    BY <2>1, <2>2, HeadTailProperties
  <2>5. Tail(s) = <<>>
    BY <2>4, EmptySeq
  <2> QED
    BY <2>1, <2>2, <2>3, <2>5
<1> QED
  BY <1>2 DEF Says

\* A line has been read.
LEMMA TailFields ==
    ASSUME NEW x \in Process, NEW v, v = [x EXCEPT !.stdout = Tail(@)]
    PROVE  /\ v.stdout = Tail(x.stdout) /\ v.stdin = x.stdin /\ v.serving = x.serving
           /\ v.waiting = x.waiting /\ v.greeted = x.greeted /\ v.alive = x.alive
           /\ v.noisy = x.noisy
BY DEF Process

LEMMA HandshakeRead ==
    ASSUME NEW x \in Process, NEW n, NEW m, Fits(x, "handshake", n), x.stdout # <<>>,
           NEW v, v = [x EXCEPT !.stdout = Tail(@)]
    PROVE  Fits(v, "write", m)
<1>1. Idle(x) /\ x.greeted /\ x.stdout = <<HandshakeLine>>
  BY DEF Fits, Greeting
<1>2. Tail(x.stdout) = <<>>
  BY <1>1
<1>3. Idle(v) /\ v.greeted /\ v.stdout = <<>>
  BY <1>1, <1>2, TailFields DEF Idle
<1> QED
  BY <1>3 DEF Fits, AtRest, Talking

LEMMA RequestSent ==
    ASSUME NEW x \in Process, NEW n, NEW m, Fits(x, "write", m), x.alive,
           NEW v, v = [x EXCEPT !.stdin = Append(@, [kind |-> "request", serial |-> n])]
    PROVE  Fits(v, "read", n)
<1>1. Idle(x) /\ x.stdout = <<>> /\ x.greeted
  BY DEF Fits, AtRest, Talking
<1>2. /\ v.stdin = Append(x.stdin, Request(n)) /\ v.stdout = x.stdout /\ v.serving = x.serving
      /\ v.waiting = x.waiting /\ v.greeted = x.greeted /\ v.alive
  BY DEF Process, Request
<1>3. v.stdin = <<Request(n)>>
  BY <1>1, <1>2 DEF Idle
<1>4. Reading(v, n)
  BY <1>1, <1>2, <1>3 DEF Reading, Idle
<1> QED
  BY <1>2, <1>4 DEF Fits, Talking

LEMMA AnswerRead ==
    ASSUME NEW x \in Process, NEW n \in Nat, Fits(x, "read", n), x.stdout # <<>>,
           Head(x.stdout).kind = "answer",
           NEW v, v = [x EXCEPT !.stdout = Tail(@)]
    PROVE  Head(x.stdout).serial = n /\ Fits(v, "write", 0)
<1>1. Reading(x, n)
  BY DEF Fits
<1>2. ~Says(x, "callback", n)
  BY OneLine
<1>3. Says(x, "answer", n) /\ Idle(x) /\ x.greeted
  BY <1>1, <1>2 DEF Reading
<1>4. Head(x.stdout).serial = n /\ Tail(x.stdout) = <<>>
  BY <1>3, OneLine
<1>5. AtRest(v)
  BY <1>3, <1>4, TailFields DEF AtRest, Idle
<1> QED
  BY <1>4, <1>5 DEF Fits, AtRest, Talking

LEMMA CallbackRead ==
    ASSUME NEW x \in Process, NEW n \in Nat, Fits(x, "read", n), x.stdout # <<>>,
           Head(x.stdout).kind = "callback",
           NEW v, v = [x EXCEPT !.stdout = Tail(@)]
    PROVE  Fits(v, "callback", n)
<1>1. Reading(x, n) /\ (~x.alive => Idle(x))
  BY DEF Fits
<1>2. ~Says(x, "answer", n)
  BY OneLine
<1>3. /\ Says(x, "callback", n) /\ x.greeted /\ x.stdin = <<>>
      /\ (x.serving = n /\ x.waiting) \/ (Idle(x) /\ ~x.alive)
  BY <1>1, <1>2 DEF Reading, Idle
<1>4. Tail(x.stdout) = <<>>
  BY <1>3, OneLine
<1>5. Called(v, n)
  BY <1>3, <1>4, TailFields DEF Called, Idle
<1>6. ~v.alive => Idle(v)
  BY <1>1, TailFields DEF Idle
<1> QED
  BY <1>5, <1>6 DEF Fits, Talking

LEMMA NoNoiseRead ==
    ASSUME NEW x \in Process, NEW n \in Nat, Fits(x, "read", n), x.stdout # <<>>
    PROVE  Head(x.stdout).kind \in {"answer", "callback"}
<1>1. Says(x, "callback", n) \/ Says(x, "answer", n)
  BY DEF Fits, Reading
<1> QED
  BY <1>1, OneLine

LEMMA EOFRead ==
    ASSUME NEW x \in Process, NEW n \in Nat, Fits(x, "read", n), x.stdout = <<>>, ~x.alive
    PROVE  Fits(x, "write", 0)
BY DEF Fits, Reading, AtRest, Talking

LEMMA ResultSent ==
    ASSUME NEW x \in Process, NEW n \in Nat, Fits(x, "result", n), x.alive,
           NEW v, v = [x EXCEPT !.stdin = Append(@, [kind |-> "result", serial |-> n])]
    PROVE  Fits(v, "read", n)
<1>1. Called(x, n) /\ x.serving = n /\ x.waiting
  BY DEF Fits, Called
<1>2. /\ v.stdin = Append(x.stdin, Result(n)) /\ v.stdout = x.stdout /\ v.serving = x.serving
      /\ v.waiting = x.waiting /\ v.greeted = x.greeted /\ v.alive
  BY DEF Process, Result
<1>3. v.stdin = <<Result(n)>>
  BY <1>1, <1>2 DEF Called
<1>4. Reading(v, n)
  BY <1>1, <1>2, <1>3 DEF Reading, Called
<1> QED
  BY <1>2, <1>4 DEF Fits, Talking

LEMMA ResultNotSent ==
    ASSUME NEW x \in Process, NEW n \in Nat, Fits(x, "result", n), ~x.alive
    PROVE  Fits(x, "write", 0)
BY DEF Fits, Called, AtRest, Talking

\* What the process does fits as well, whatever the stage.
LEMMA GreetFits ==
    ASSUME NEW x \in Process, ~x.greeted, x.alive,
           NEW v, v = [x EXCEPT !.greeted = TRUE, !.stdout = Append(@, HandshakeLine)],
           NEW s \in Talking \cup {"write"}, NEW n \in Nat, Fits(x, s, n)
    PROVE  Fits(v, s, n)
<1>1. s = "handshake" /\ Idle(x) /\ x.stdout = <<>>
  BY DEF Fits, Talking, Greeting, Reading, Called, AtRest
<1>2. /\ v.stdin = x.stdin /\ v.serving = x.serving /\ v.waiting = x.waiting
      /\ v.greeted /\ v.alive = x.alive /\ v.stdout = Append(x.stdout, HandshakeLine)
  BY DEF Process
<1>3. v.stdout = <<HandshakeLine>>
  BY <1>1, <1>2
<1>4. Greeting(v)
  BY <1>1, <1>2, <1>3 DEF Greeting, Idle
<1> QED
  BY <1>1, <1>2, <1>4 DEF Fits, Talking

Served(x) == IF Head(x.stdin).kind = "request" THEN Head(x.stdin).serial ELSE 0
TakenBy(x) == [x EXCEPT !.stdin = Tail(@), !.serving = Served(x)]

LEMMA TakeFits ==
    ASSUME NEW x \in Process, x.alive, x.serving = 0, x.stdin # <<>>,
           NEW v, v = TakenBy(x),
           NEW s \in Talking \cup {"write"}, NEW n \in Nat,
           s = "write" \/ n # 0, Fits(x, s, n)
    PROVE  Fits(v, s, n)
<1>1. /\ s = "read" /\ x.greeted /\ ~x.waiting /\ x.stdout = <<>>
      /\ x.stdin = <<Request(n)>>
  BY DEF Fits, Talking, Greeting, Reading, Called, AtRest, Idle
<1>3. Head(x.stdin) = Request(n) /\ Tail(x.stdin) = <<>>
  BY <1>1
<1>4. Served(x) = n
  BY <1>3 DEF Request, Served
<1>5. /\ v.stdin = Tail(x.stdin) /\ v.serving = Served(x) /\ v.waiting = x.waiting
      /\ v.greeted = x.greeted /\ v.alive = x.alive /\ v.stdout = x.stdout
  BY DEF Process, TakenBy
<1>6. Reading(v, n)
  BY <1>1, <1>3, <1>4, <1>5 DEF Reading
<1> QED
  BY <1>1, <1>5, <1>6 DEF Fits, Talking

LEMMA OneSaid ==
    ASSUME NEW v, NEW line, v.stdout = <<line>>
    PROVE  Says(v, line.kind, line.serial)
BY DEF Says

Asking(x) ==
    [x EXCEPT !.waiting = TRUE, !.stdout =
        Append(@, [kind |-> "callback", serial |-> x.serving, status |-> "ok"])]

LEMMA AskFits ==
    ASSUME NEW x \in Process, x.alive, x.serving # 0, ~x.waiting,
           NEW v, v = Asking(x),
           NEW s \in Talking \cup {"write"}, NEW n \in Nat, Fits(x, s, n)
    PROVE  Fits(v, s, n)
<1>1. s = "read" /\ x.greeted /\ x.stdin = <<>> /\ x.serving = n /\ x.stdout = <<>>
  BY DEF Fits, Talking, Greeting, Reading, Called, AtRest, Idle
<1>2. /\ v.stdin = x.stdin /\ v.serving = x.serving /\ v.waiting
      /\ v.greeted = x.greeted /\ v.alive = x.alive
      /\ v.stdout = Append(x.stdout, [kind |-> "callback", serial |-> x.serving, status |-> "ok"])
  BY DEF Process, Asking
<1>3. PICK line : /\ line = [kind |-> "callback", serial |-> n, status |-> "ok"]
                  /\ v.stdout = <<line>>
  BY <1>1, <1>2
<1>4. Says(v, "callback", n)
  <2>1. line.kind = "callback" /\ line.serial = n
    BY <1>3
  <2>2. Says(v, line.kind, line.serial)
    BY <1>3, OneSaid
  <2> QED
    BY <2>1, <2>2
<1>5. Reading(v, n)
  BY <1>1, <1>2, <1>4 DEF Reading
<1> QED
  BY <1>1, <1>2, <1>5 DEF Fits, Talking

LEMMA TakeResultFits ==
    ASSUME NEW x \in Process, x.alive, x.waiting, x.stdin # <<>>,
           NEW v, v = [x EXCEPT !.waiting = FALSE, !.stdin = Tail(@)],
           NEW s \in Talking \cup {"write"}, NEW n \in Nat, Fits(x, s, n)
    PROVE  Fits(v, s, n)
<1>1. s = "read" /\ x.greeted /\ x.stdin = <<Result(n)>> /\ x.serving = n /\ x.stdout = <<>>
  BY DEF Fits, Talking, Greeting, Reading, Called, AtRest, Idle
<1>2. Tail(x.stdin) = <<>>
  BY <1>1
<1>3. /\ v.stdin = Tail(x.stdin) /\ v.serving = x.serving /\ ~v.waiting
      /\ v.greeted = x.greeted /\ v.alive = x.alive /\ v.stdout = x.stdout
  BY DEF Process
<1>4. Reading(v, n)
  BY <1>1, <1>2, <1>3 DEF Reading
<1> QED
  BY <1>1, <1>3, <1>4 DEF Fits, Talking

Answered(x, status) ==
    [x EXCEPT !.serving = 0, !.stdout =
        Append(@, [kind |-> "answer", serial |-> x.serving, status |-> status])]

LEMMA AnswerFits ==
    ASSUME NEW x \in Process, x.alive, x.serving # 0, ~x.waiting, NEW status,
           NEW v, v = Answered(x, status),
           NEW s \in Talking \cup {"write"}, NEW n \in Nat, Fits(x, s, n)
    PROVE  Fits(v, s, n)
<1>1. s = "read" /\ x.greeted /\ x.stdin = <<>> /\ x.serving = n /\ x.stdout = <<>>
  BY DEF Fits, Talking, Greeting, Reading, Called, AtRest, Idle
<1>2. /\ v.stdin = x.stdin /\ v.serving = 0 /\ v.waiting = x.waiting
      /\ v.greeted = x.greeted /\ v.alive = x.alive
      /\ v.stdout = Append(x.stdout, [kind |-> "answer", serial |-> x.serving, status |-> status])
  BY DEF Process, Answered
<1>3. PICK line : /\ line = [kind |-> "answer", serial |-> n, status |-> status]
                  /\ v.stdout = <<line>>
  BY <1>1, <1>2
<1>4. Says(v, "answer", n)
  <2>1. line.kind = "answer" /\ line.serial = n
    BY <1>3
  <2>2. Says(v, line.kind, line.serial)
    BY <1>3, OneSaid
  <2> QED
    BY <2>1, <2>2
<1>5. Reading(v, n)
  BY <1>1, <1>2, <1>4 DEF Reading, Idle
<1> QED
  BY <1>1, <1>2, <1>5 DEF Fits, Talking

LEMMA DeadFits ==
    ASSUME NEW x \in Process, NEW v, v = Dead(x),
           NEW s \in Talking \cup {"write"}, NEW n \in Nat, Fits(x, s, n)
    PROVE  Fits(v, s, n)
<1>1. /\ Idle(v) /\ ~v.alive /\ v.greeted = x.greeted /\ v.stdout = x.stdout
      /\ \A kind \in {"answer", "callback"} : Says(v, kind, n) = Says(x, kind, n)
  BY DEF Process, Dead, Idle, Says
<1>2. CASE s = "read"
  <2>1. x.greeted /\ (x.stdout = <<>> \/ Says(x, "callback", n) \/ Says(x, "answer", n))
    BY <1>2 DEF Fits, Reading
  <2>2. Reading(v, n)
    BY <1>1, <2>1 DEF Reading
  <2> QED
    BY <1>1, <1>2, <2>2 DEF Fits, Talking
<1>3. CASE s # "read"
  BY <1>1, <1>3 DEF Fits, Talking, Greeting, Called, AtRest, Idle
<1> QED
  BY <1>2, <1>3

LEMMA DeafFits ==
    ASSUME NEW x \in Process, NEW deaf \in BOOLEAN, NEW v, v = [x EXCEPT !.deaf = deaf],
           NEW s \in Talking \cup {"write"}, NEW n \in Nat, Fits(x, s, n)
    PROVE  Fits(v, s, n)
<1>1. /\ v.stdin = x.stdin /\ v.serving = x.serving /\ v.waiting = x.waiting
      /\ v.greeted = x.greeted /\ v.alive = x.alive /\ v.stdout = x.stdout
      /\ \A kind \in {"answer", "callback"} : Says(v, kind, n) = Says(x, kind, n)
  BY DEF Process, Says
<1>2. CASE s = "read"
  <2>1. Reading(x, n)
    BY <1>2 DEF Fits
  <2>2. Reading(v, n)
    BY <1>1, <2>1 DEF Reading, Idle
  <2>3. ~v.alive => Idle(v)
    BY <1>1 DEF Fits, Idle
  <2> QED
    BY <1>2, <2>2, <2>3 DEF Fits, Talking
<1>3. CASE s # "read"
  BY <1>1, <1>3 DEF Fits, Talking, Greeting, Called, AtRest, Idle
<1> QED
  BY <1>2, <1>3

StolenFrom(x) == [x EXCEPT !.thieves = @ - 1, !.stdout = Tail(@)]

LEMMA StealFits ==
    ASSUME NEW x \in Process, x.stdout # <<>>, NEW v, v = StolenFrom(x),
           NEW s \in Talking \cup {"write"}, NEW n \in Nat, Fits(x, s, n)
    PROVE  Fits(v, s, n)
<1>1. /\ v.stdin = x.stdin /\ v.serving = x.serving /\ v.waiting = x.waiting
      /\ v.greeted = x.greeted /\ v.alive = x.alive /\ v.stdout = Tail(x.stdout)
  BY DEF Process, StolenFrom
<1>2. CASE s = "handshake"
  <2>1. Idle(x) /\ x.stdout = <<HandshakeLine>>
    BY <1>2 DEF Fits, Greeting
  <2>2. Tail(x.stdout) = <<>>
    BY <2>1
  <2> QED
    BY <1>1, <1>2, <2>1, <2>2 DEF Fits, Greeting, Idle, Talking
<1>3. CASE s = "read"
  <2>1. /\ x.greeted /\ x.stdin = <<>> /\ (~x.alive => Idle(x))
        /\ \/ Says(x, "callback", n) /\ ((x.serving = n /\ x.waiting) \/ Idle(x))
           \/ Says(x, "answer", n) /\ Idle(x)
    BY <1>3 DEF Fits, Reading, Idle
  <2>2. Tail(x.stdout) = <<>>
    BY <2>1, OneLine
  <2>3. Reading(v, n)
    BY <1>1, <2>1, <2>2 DEF Reading, Idle
  <2>4. ~v.alive => Idle(v)
    BY <1>1, <2>1 DEF Idle
  <2> QED
    BY <1>3, <2>3, <2>4 DEF Fits, Talking
<1>4. CASE s \notin {"handshake", "read"}
  BY <1>4 DEF Fits, Talking, Called, AtRest
<1> QED
  BY <1>2, <1>3, <1>4

LEMMA ThiefFits ==
    ASSUME NEW x \in Process, NEW v, v = [x EXCEPT !.thieves = @ + 1],
           NEW s \in Talking \cup {"write"}, NEW n \in Nat, Fits(x, s, n)
    PROVE  Fits(v, s, n)
<1>1. /\ v.stdin = x.stdin /\ v.serving = x.serving /\ v.waiting = x.waiting
      /\ v.greeted = x.greeted /\ v.alive = x.alive /\ v.stdout = x.stdout
  BY DEF Process
<1> QED
  BY <1>1 DEF Fits, Idle, Greeting, AtRest, Reading, Called, Says

-----------------------------------------------------------------------------
(* The steps keep the conversation *)

LEMMA OneChanged ==
    ASSUME HostInvariant, NEW p \in Plugins, NEW v, processes' = [processes EXCEPT ![p] = v]
    PROVE  processes'[p] = v /\ \A q \in Plugins : q # p => processes'[q] = processes[q]
BY DEF HostInvariant, HostTypeOK

LEMMA RestartTalks ==
    ASSUME HostInvariant, TalkInvariant, NEW c \in Callers, Busy(c), Top(c).stage \in Started,
           NEW phase \in Phases, Restart(c, phase)
    PROVE  TalkInvariant'
<1>1. Moved(c, "ensure", phase) /\ "ensure" \in Stages /\ Top(c).stage # "queued"
  BY RestartMoves DEF Started, Stages
<1>2. PICK p \in Plugins : p = Top(c).plugin
  BY TopOK
<1>3. processes'[p] = NoProcess /\ \A q \in Plugins : q # p => processes'[q] = processes[q]
  BY <1>2, OneChanged DEF Restart, Removed
<1> QED
  BY <1>1, <1>2, <1>3, TalkMoves

\* A dispatch fails with its process killed, or at rest.
LEMMA FailTalks ==
    ASSUME HostInvariant, TalkInvariant, NEW c \in Callers, Busy(c), Top(c).stage # "queued",
           Fail(c), NEW p \in Plugins, p = Top(c).plugin,
           \/ processes' = Removed(p)
           \/ UNCHANGED processes
              /\ (processes[p] # NoProcess /\ ~processes[p].noisy => Fits(processes[p], "write", 0))
    PROVE  TalkInvariant'
<1>1. Left(c)
  BY DEF Fail, Return, Left
<1>2. CASE processes' = Removed(p)
  <2>1. processes'[p] = NoProcess /\ \A q \in Plugins : q # p => processes'[q] = processes[q]
    BY <1>2, OneChanged DEF Removed
  <2> QED
    BY <1>1, <2>1, TalkLeaves
<1>3. CASE UNCHANGED processes
           /\ (processes[p] # NoProcess /\ ~processes[p].noisy => Fits(processes[p], "write", 0))
  <2>1. PICK x : x = processes'[p] /\ x = processes[p]
    BY <1>3
  <2>2. x # NoProcess /\ ~x.noisy => Fits(x, "write", 0)
    BY <1>3, <2>1
  <2>3. \A q \in Plugins : q # p => processes'[q] = processes[q]
    BY <1>3
  <2> QED
    BY <1>1, <2>1, <2>2, <2>3, TalkLeaves
<1> QED
  BY <1>2, <1>3

\* A dispatch goes on, its process as it was.
LEMMA SameProcessTalks ==
    ASSUME HostInvariant, TalkInvariant, NEW c \in Callers, Busy(c), Top(c).stage # "queued",
           NEW stage \in Stages, Goto(c, stage), UNCHANGED processes,
           \A x \in Process, n \in Nat : Fits(x, Top(c).stage, n) => Fits(x, stage, n)
    PROVE  TalkInvariant'
<1>1. Moved(c, stage, Top(c).phase)
  BY GotoMoves
<1>2. PICK p \in Plugins : p = Top(c).plugin
  BY TopOK
<1>3. PICK x : x = processes'[p] /\ x = processes[p]
  OBVIOUS
<1>4. ASSUME x # NoProcess, ~x.noisy
      PROVE  Fits(x, stage, Top(c).serial)
  <2>1. Fits(x, Top(c).stage, Top(c).serial)
    BY <1>2, <1>3, <1>4, TopFits
  <2>2. x \in Process /\ Top(c).serial \in Nat
    BY <1>2, <1>3, <1>4, TopOK
  <2> QED
    BY <2>1, <2>2
<1>5. \A q \in Plugins : q # p => processes'[q] = processes[q]
  OBVIOUS
<1>6. Top(c).phase \in Phases
  BY TopOK
<1> QED
  BY <1>1, <1>2, <1>3, <1>4, <1>5, <1>6, TalkMoves

LEMMA ReuseTalks ==
    ASSUME HostInvariant, TalkInvariant, NEW c \in Callers, Reuse(c)
    PROVE  TalkInvariant'
<1>1. Busy(c) /\ Top(c).stage = "ensure" /\ Goto(c, "write") /\ UNCHANGED processes
  BY DEF Reuse, At
<1>2. "write" \in Stages /\ Top(c).stage # "queued"
  BY <1>1 DEF Stages
<1>3. \A x \in Process, n \in Nat : Fits(x, Top(c).stage, n) => Fits(x, "write", n)
  BY <1>1 DEF Fits, Talking
<1> QED
  BY <1>1, <1>2, <1>3, SameProcessTalks

LEMMA handleCallbackTalks ==
    ASSUME HostInvariant, TalkInvariant, NEW c \in Callers, handleCallback(c)
    PROVE  TalkInvariant'
<1>1. Busy(c) /\ Top(c).stage = "callback" /\ Goto(c, "result") /\ UNCHANGED processes
  BY DEF handleCallback, At
<1>2. "result" \in Stages /\ Top(c).stage # "queued"
  BY <1>1 DEF Stages
<1>3. \A x \in Process, n \in Nat : Fits(x, Top(c).stage, n) => Fits(x, "result", n)
  BY <1>1 DEF Fits, Talking
<1> QED
  BY <1>1, <1>2, <1>3, SameProcessTalks

LEMMA StartFailsTalks ==
    ASSUME HostInvariant, TalkInvariant, NEW c \in Callers, StartFails(c)
    PROVE  TalkInvariant'
<1>1. /\ Busy(c) /\ Top(c).stage # "queued" /\ Fail(c) /\ UNCHANGED processes
      /\ processes[Top(c).plugin] = NoProcess
  BY DEF StartFails, At
<1>2. PICK p \in Plugins : p = Top(c).plugin
  BY <1>1, TopOK
<1> QED
  BY <1>1, <1>2, FailTalks

LEMMA StartTalks ==
    ASSUME HostInvariant, TalkInvariant, NEW c \in Callers, Start(c)
    PROVE  TalkInvariant'
<1>1. PICK p \in Plugins : p = Top(c).plugin
  BY TopOK DEF Start, At
<1> DEFINE v == [context |-> Top(c).context, alive |-> TRUE, greeted |-> FALSE, stdin |-> <<>>,
                 stdout |-> <<>>, serving |-> 0, waiting |-> FALSE, deaf |-> FALSE,
                 thieves |-> 0, noisy |-> FALSE]
<1>2. /\ Busy(c) /\ Top(c).stage = "ensure" /\ Goto(c, "handshake")
      /\ processes' = [processes EXCEPT ![p] = v]
  BY <1>1 DEF Start, At
<1>3. Moved(c, "handshake", Top(c).phase) /\ "handshake" \in Stages /\ Top(c).phase \in Phases
  BY <1>2, GotoMoves, TopOK DEF Stages
<1>4. Fits(v, "handshake", Top(c).serial)
  BY DEF Fits, Greeting, Idle, Talking
<1> HIDE DEF v
<1>5. processes'[p] = v /\ \A q \in Plugins : q # p => processes'[q] = processes[q]
  BY <1>2, OneChanged
<1> QED
  BY <1>1, <1>2, <1>3, <1>4, <1>5, TalkMoves

LEMMA performHandshakeTalks ==
    ASSUME HostInvariant, TalkInvariant, NEW c \in Callers, performHandshake(c)
    PROVE  TalkInvariant'
<1>1. PICK p \in Plugins : p = Top(c).plugin
  BY TopOK DEF performHandshake, At
<1> DEFINE v == [processes[p] EXCEPT !.stdout = Tail(@)]
<1>2. /\ Busy(c) /\ Top(c).stage = "handshake" /\ Goto(c, "write")
      /\ processes[p].stdout # <<>> /\ processes' = [processes EXCEPT ![p] = v]
  BY <1>1 DEF performHandshake, At, Lines
<1>3. Moved(c, "write", Top(c).phase) /\ "write" \in Stages /\ Top(c).phase \in Phases
  BY <1>2, GotoMoves, TopOK DEF Stages
<1>4. PICK x \in Process : x = processes[p] /\ x # NoProcess /\ x.stdout # <<>>
  BY <1>1, <1>2, TopOK DEF Started
<1>5. v = [x EXCEPT !.stdout = Tail(@)]
  BY <1>4
<1> HIDE DEF v
<1>6. ASSUME ~v.noisy PROVE Fits(v, "write", Top(c).serial)
  <2>1. ~x.noisy
    BY <1>5, <1>6, TailFields
  <2>2. Fits(x, "handshake", Top(c).serial)
    BY <1>1, <1>2, <1>4, <2>1, TopFits
  <2> QED
    BY <1>4, <1>5, <2>2, HandshakeRead
<1>7. processes'[p] = v /\ \A q \in Plugins : q # p => processes'[q] = processes[q]
  BY <1>2, OneChanged
<1> QED
  BY <1>1, <1>2, <1>3, <1>6, <1>7, TalkMoves

LEMMA HandshakeFailsTalks ==
    ASSUME HostInvariant, TalkInvariant, NEW c \in Callers, HandshakeFails(c)
    PROVE  TalkInvariant'
<1>1. /\ Busy(c) /\ Top(c).stage # "queued" /\ Fail(c) /\ processes' = Removed(Top(c).plugin)
  BY DEF HandshakeFails, At
<1>2. PICK p \in Plugins : p = Top(c).plugin
  BY <1>1, TopOK
<1> QED
  BY <1>1, <1>2, FailTalks

LEMMA WriteRequestTalks ==
    ASSUME HostInvariant, TalkInvariant, NEW c \in Callers, WriteRequest(c)
    PROVE  TalkInvariant'
<1>1. PICK p \in Plugins : p = Top(c).plugin
  BY TopOK DEF WriteRequest, At
<1> DEFINE v == [processes[p] EXCEPT !.stdin =
                    Append(@, [kind |-> "request", serial |-> Top(c).serial])]
<1>2. /\ Busy(c) /\ Top(c).stage = "write" /\ Goto(c, "read") /\ processes[p].alive
      /\ processes' = [processes EXCEPT ![p] = v]
  BY <1>1 DEF WriteRequest, At
<1>3. Moved(c, "read", Top(c).phase) /\ "read" \in Stages /\ Top(c).phase \in Phases
  BY <1>2, GotoMoves, TopOK DEF Stages
<1>4. PICK x \in Process : x = processes[p] /\ x # NoProcess /\ x.alive
  BY <1>1, <1>2, TopOK DEF Started
<1>5. v = [x EXCEPT !.stdin = Append(@, [kind |-> "request", serial |-> Top(c).serial])]
  BY <1>4
<1> HIDE DEF v
<1>6. ASSUME ~v.noisy PROVE Fits(v, "read", Top(c).serial)
  <2>1. ~x.noisy
    BY <1>5, <1>6 DEF Process
  <2>2. Fits(x, "write", Top(c).serial)
    BY <1>1, <1>2, <1>4, <2>1, TopFits
  <2> QED
    BY <1>4, <1>5, <2>2, RequestSent
<1>7. processes'[p] = v /\ \A q \in Plugins : q # p => processes'[q] = processes[q]
  BY <1>2, OneChanged
<1> QED
  BY <1>1, <1>2, <1>3, <1>6, <1>7, TalkMoves

LEMMA WriteFailsTalks ==
    ASSUME HostInvariant, TalkInvariant, NEW c \in Callers, WriteFails(c)
    PROVE  TalkInvariant'
<1>1. /\ Busy(c) /\ Top(c).stage = "write" /\ ~Running(c).alive
      /\ Restart(c, "afterWrite") \/ (Fail(c) /\ UNCHANGED processes)
  BY DEF WriteFails, At
<1>2. "afterWrite" \in Phases /\ Top(c).stage # "queued" /\ Top(c).stage \in Started
  BY <1>1 DEF Phases, Started
<1>3. CASE Restart(c, "afterWrite")
  BY <1>1, <1>2, <1>3, RestartTalks
<1>4. CASE Fail(c) /\ UNCHANGED processes
  <2>1. PICK p \in Plugins : p = Top(c).plugin
    BY <1>1, TopOK
  <2>2. ASSUME processes[p] # NoProcess, ~processes[p].noisy
        PROVE  Fits(processes[p], "write", 0)
    <3>1. Fits(processes[p], "write", Top(c).serial)
      BY <1>1, <2>1, <2>2, TopFits
    <3> QED
      BY <3>1 DEF Fits, Talking
  <2> QED
    BY <1>1, <1>2, <1>4, <2>1, <2>2, FailTalks
<1> QED
  BY <1>1, <1>3, <1>4

LEMMA ReadAnswerTalks ==
    ASSUME HostInvariant, TalkInvariant, NEW c \in Callers, ReadAnswer(c)
    PROVE  TalkInvariant' /\ (~Running(c).noisy => Head(Lines(Top(c).plugin)).serial = Top(c).serial)
<1>1. PICK p \in Plugins : p = Top(c).plugin
  BY TopOK DEF ReadAnswer, At
<1> DEFINE v == [processes[p] EXCEPT !.stdout = Tail(@)]
<1>2. /\ Busy(c) /\ Top(c).stage = "read" /\ processes[p].stdout # <<>>
      /\ Head(processes[p].stdout).kind = "answer" /\ processes' = [processes EXCEPT ![p] = v]
  BY <1>1 DEF ReadAnswer, At, Lines
<1>3. Left(c)
  BY DEF ReadAnswer, Return, Left
<1>4. PICK x \in Process : /\ x = processes[p] /\ x # NoProcess /\ x.stdout # <<>>
                           /\ Head(x.stdout).kind = "answer"
  BY <1>1, <1>2, TopOK DEF Started
<1>5. v = [x EXCEPT !.stdout = Tail(@)]
  BY <1>4
<1> HIDE DEF v
<1>6. ASSUME ~x.noisy PROVE Head(x.stdout).serial = Top(c).serial /\ Fits(v, "write", 0)
  <2>1. Fits(x, "read", Top(c).serial)
    BY <1>1, <1>2, <1>4, <1>6, TopFits
  <2>2. Top(c).serial \in Nat
    BY <1>2, TopOK
  <2> QED
    BY <1>4, <1>5, <2>1, <2>2, AnswerRead
<1>7. processes'[p] = v /\ \A q \in Plugins : q # p => processes'[q] = processes[q]
  BY <1>2, OneChanged
<1>8. ~v.noisy => ~x.noisy
  BY <1>5, TailFields
<1>9. TalkInvariant'
  BY <1>1, <1>2, <1>3, <1>6, <1>7, <1>8, TalkLeaves
<1> QED
  BY <1>1, <1>4, <1>6, <1>9 DEF Running, Lines

LEMMA ReadCallbackTalks ==
    ASSUME HostInvariant, TalkInvariant, NEW c \in Callers, ReadCallback(c)
    PROVE  TalkInvariant'
<1>1. PICK p \in Plugins : p = Top(c).plugin
  BY TopOK DEF ReadCallback, At
<1> DEFINE v == [processes[p] EXCEPT !.stdout = Tail(@)]
<1>2. /\ Busy(c) /\ Top(c).stage = "read" /\ processes[p].stdout # <<>> /\ Goto(c, "callback")
      /\ Head(processes[p].stdout).kind = "callback" /\ processes' = [processes EXCEPT ![p] = v]
  BY <1>1 DEF ReadCallback, At, Lines
<1>3. Moved(c, "callback", Top(c).phase) /\ "callback" \in Stages /\ Top(c).phase \in Phases
  BY <1>2, GotoMoves, TopOK DEF Stages
<1>4. PICK x \in Process : /\ x = processes[p] /\ x # NoProcess /\ x.stdout # <<>>
                           /\ Head(x.stdout).kind = "callback"
  BY <1>1, <1>2, TopOK DEF Started
<1>5. v = [x EXCEPT !.stdout = Tail(@)]
  BY <1>4
<1> HIDE DEF v
<1>6. ASSUME ~v.noisy PROVE Fits(v, "callback", Top(c).serial)
  <2>1. ~x.noisy
    BY <1>5, <1>6, TailFields
  <2>2. Fits(x, "read", Top(c).serial)
    BY <1>1, <1>2, <1>4, <2>1, TopFits
  <2>3. Top(c).serial \in Nat
    BY <1>2, TopOK
  <2> QED
    BY <1>4, <1>5, <2>2, <2>3, CallbackRead
<1>7. processes'[p] = v /\ \A q \in Plugins : q # p => processes'[q] = processes[q]
  BY <1>2, OneChanged
<1> QED
  BY <1>1, <1>2, <1>3, <1>6, <1>7, TalkMoves

LEMMA ReadEOFTalks ==
    ASSUME HostInvariant, TalkInvariant, NEW c \in Callers, ReadEOF(c)
    PROVE  TalkInvariant'
<1>1. PICK p \in Plugins : p = Top(c).plugin
  BY TopOK DEF ReadEOF, At
<1>2. /\ Busy(c) /\ Top(c).stage = "read" /\ ~processes[p].alive /\ processes[p].stdout = <<>>
      /\ Restart(c, "afterCrash") \/ (Fail(c) /\ UNCHANGED processes)
  BY <1>1 DEF ReadEOF, At, Lines
<1>3. "afterCrash" \in Phases /\ Top(c).stage # "queued" /\ Top(c).stage \in Started
  BY <1>2 DEF Phases, Started
<1>4. CASE Restart(c, "afterCrash")
  BY <1>2, <1>3, <1>4, RestartTalks
<1>5. CASE Fail(c) /\ UNCHANGED processes
  <2>1. ASSUME processes[p] # NoProcess, ~processes[p].noisy
        PROVE  Fits(processes[p], "write", 0)
    <3>1. Fits(processes[p], "read", Top(c).serial)
      BY <1>1, <1>2, <2>1, TopFits
    <3>2. processes[p] \in Process /\ Top(c).serial \in Nat
      BY <1>1, <1>2, <1>3, TopOK
    <3> QED
      BY <1>2, <3>1, <3>2, EOFRead
  <2> QED
    BY <1>1, <1>2, <1>3, <1>5, <2>1, FailTalks
<1> QED
  BY <1>2, <1>4, <1>5

LEMMA ReadNoiseTalks ==
    ASSUME HostInvariant, TalkInvariant, NEW c \in Callers, ReadNoise(c)
    PROVE  TalkInvariant'
<1>1. PICK p \in Plugins : p = Top(c).plugin
  BY TopOK DEF ReadNoise, At
<1> DEFINE v == [processes[p] EXCEPT !.stdout = Tail(@)]
<1>2. /\ Busy(c) /\ Top(c).stage = "read" /\ processes[p].stdout # <<>>
      /\ Head(processes[p].stdout).kind \in {"noise", "handshake"}
      /\ \/ Restart(c, "afterRead")
         \/ processes' = [processes EXCEPT ![p] = v] /\ Left(c)
  BY <1>1 DEF ReadNoise, At, Lines, Fail, Return, Left
<1>3. "afterRead" \in Phases /\ Top(c).stage # "queued" /\ Top(c).stage \in Started
  BY <1>2 DEF Phases, Started
<1>4. CASE Restart(c, "afterRead")
  BY <1>2, <1>3, <1>4, RestartTalks
<1>5. CASE processes' = [processes EXCEPT ![p] = v] /\ Left(c)
  <2>1. PICK x \in Process : /\ x = processes[p] /\ x # NoProcess /\ x.stdout # <<>>
                             /\ Head(x.stdout).kind \in {"noise", "handshake"}
    BY <1>1, <1>2, <1>3, TopOK
  <2>2. v = [x EXCEPT !.stdout = Tail(@)]
    BY <2>1
  <2> HIDE DEF v
  <2>3. x.noisy
    <3>1. SUFFICES ASSUME ~x.noisy PROVE FALSE
      OBVIOUS
    <3>2. Fits(x, "read", Top(c).serial) /\ Top(c).serial \in Nat
      BY <1>1, <1>2, <2>1, <3>1, TopFits, TopOK
    <3> QED
      BY <2>1, <3>2, NoNoiseRead
  <2>4. v.noisy
    BY <2>2, <2>3, TailFields
  <2>5. processes'[p] = v /\ \A q \in Plugins : q # p => processes'[q] = processes[q]
    BY <1>5, OneChanged
  <2> QED
    BY <1>1, <1>2, <1>3, <1>5, <2>4, <2>5, TalkLeaves
<1> QED
  BY <1>2, <1>4, <1>5

LEMMA ReadTimeoutTalks ==
    ASSUME HostInvariant, TalkInvariant, NEW c \in Callers, ReadTimeout(c)
    PROVE  TalkInvariant'
<1>1. /\ Busy(c) /\ Top(c).stage \in Started /\ Top(c).stage # "queued"
      /\ Restart(c, "afterRead") \/ (processes' = Removed(Top(c).plugin) /\ Fail(c))
  BY DEF ReadTimeout, At, Started
<1>2. "afterRead" \in Phases
  BY DEF Phases
<1>3. CASE Restart(c, "afterRead")
  BY <1>1, <1>2, <1>3, RestartTalks
<1>4. CASE processes' = Removed(Top(c).plugin) /\ Fail(c)
  <2>1. PICK p \in Plugins : p = Top(c).plugin
    BY <1>1, TopOK
  <2> QED
    BY <1>1, <1>4, <2>1, FailTalks
<1> QED
  BY <1>1, <1>3, <1>4

LEMMA writeCallbackResultTalks ==
    ASSUME HostInvariant, TalkInvariant, NEW c \in Callers, writeCallbackResult(c)
    PROVE  TalkInvariant'
<1>1. PICK p \in Plugins : p = Top(c).plugin
  BY TopOK DEF writeCallbackResult, At
<1> DEFINE v == [processes[p] EXCEPT !.stdin =
                    Append(@, [kind |-> "result", serial |-> Top(c).serial])]
<1>2. /\ Busy(c) /\ Top(c).stage = "result"
      /\ \/ processes[p].alive /\ processes' = [processes EXCEPT ![p] = v] /\ Goto(c, "read")
         \/ Restart(c, "afterRead")
         \/ ~processes[p].alive /\ Fail(c) /\ UNCHANGED processes
  BY <1>1 DEF writeCallbackResult, At
<1>3. /\ "afterRead" \in Phases /\ Top(c).stage # "queued" /\ Top(c).stage \in Started
      /\ "read" \in Stages /\ Top(c).phase \in Phases /\ Top(c).serial \in Nat
  BY <1>2, TopOK DEF Phases, Started, Stages
<1>4. PICK x \in Process : x = processes[p] /\ x # NoProcess
  BY <1>1, <1>2, <1>3, TopOK
<1>5. ~x.noisy => Fits(x, "result", Top(c).serial)
  BY <1>1, <1>2, <1>3, <1>4, TopFits
<1>6. CASE processes[p].alive /\ processes' = [processes EXCEPT ![p] = v] /\ Goto(c, "read")
  <2>1. v = [x EXCEPT !.stdin = Append(@, [kind |-> "result", serial |-> Top(c).serial])]
    BY <1>4
  <2> HIDE DEF v
  <2>2. ~v.noisy => ~x.noisy
    BY <2>1 DEF Process
  <2>3. ~v.noisy => Fits(v, "read", Top(c).serial)
    BY <1>3, <1>4, <1>5, <1>6, <2>1, <2>2, ResultSent
  <2>4. processes'[p] = v /\ \A q \in Plugins : q # p => processes'[q] = processes[q]
    BY <1>6, OneChanged
  <2>5. Moved(c, "read", Top(c).phase)
    BY <1>2, <1>3, <1>6, GotoMoves
  <2> QED
    BY <1>1, <1>2, <1>3, <2>3, <2>4, <2>5, TalkMoves
<1>7. CASE Restart(c, "afterRead")
  BY <1>2, <1>3, <1>7, RestartTalks
<1>8. CASE ~processes[p].alive /\ Fail(c) /\ UNCHANGED processes
  <2>1. ~x.noisy => Fits(x, "write", 0)
    BY <1>3, <1>4, <1>5, <1>8, ResultNotSent
  <2>2. processes[p] # NoProcess /\ ~processes[p].noisy => Fits(processes[p], "write", 0)
    BY <1>4, <2>1
  <2> QED
    BY <1>1, <1>2, <1>3, <1>8, <2>2, FailTalks
<1> QED
  BY <1>2, <1>6, <1>7, <1>8

LEMMA ReplayEventTalks ==
    ASSUME HostInvariant, TalkInvariant, NEW c \in Callers, NEW r \in Plugins, ReplayEvent(c, r)
    PROVE  TalkInvariant'
<1>1. PICK g \in Frame : /\ g = NewFrame(r, Background) /\ g.stage = "queued"
  BY NewFrameIsFrame DEF HostInvariant, Background
<1>2. /\ Busy(c) /\ Top(c).stage = "callback" /\ UNCHANGED processes
      /\ frames' = [frames EXCEPT ![c] =
           Append(SubSeq(@, 1, Len(@) - 1) \o <<[Top(c) EXCEPT !.stage = "result"]>>, g)]
  BY <1>1 DEF ReplayEvent, At
<1>3. PICK p \in Plugins : p = Top(c).plugin
  BY <1>2, TopOK
<1>4. ASSUME NEW q \in Plugins, processes'[q] # NoProcess, ~processes'[q].noisy
      PROVE  Talk(q)'
  <2>1. Talk(q) /\ processes'[q] = processes[q]
    BY <1>2, <1>4 DEF TalkInvariant
  <2>2. CASE q # p
    <3>1. \A s \in Talking, n \in Nat : Speaks(q, s, n)' <=> Speaks(q, s, n)
      BY <1>1, <1>2, <1>3, <2>2, ReplaySpeaks
    <3> QED
      BY <2>1, <3>1 DEF Talk, Fits, Idle, Greeting, AtRest, Reading, Called, Says
  <2>3. CASE q = p
    <3>1. \A s \in Talking, n \in Nat :
              Speaks(q, s, n)' <=> s = "result" /\ n = Top(c).serial
      BY <1>1, <1>2, <1>3, <2>3, ReplaySpeaks
    <3>2. Fits(processes[q], "callback", Top(c).serial)
      BY <1>2, <1>3, <1>4, <2>1, <2>3, TopFits
    <3>3. Fits(processes[q], "result", Top(c).serial)
      BY <3>2 DEF Fits, Talking
    <3>4. \A s \in Talking, n \in Nat : Speaks(q, s, n)' => Fits(processes[q], s, n)
      BY <3>1, <3>3
    <3>5. PICK m \in Nat : m = Top(c).serial
      BY <1>2, TopOK
    <3>6. Speaks(q, "result", m)' /\ "result" \in Talking
      BY <3>1, <3>5 DEF Talking
    <3>7. ~(\A n \in Nat, s \in Talking : ~Speaks(q, s, n)')
      BY <3>6
    <3> QED
      BY <2>1, <3>4, <3>7 DEF Talk, Fits, Idle, Greeting, AtRest, Reading, Called, Says
  <2> QED
    BY <2>2, <2>3
<1> QED
  BY <1>4 DEF TalkInvariant

\* A process moves by itself, and still fits.
LEMMA OneStays ==
    ASSUME HostInvariant, TalkInvariant, UNCHANGED frames, NEW p \in Plugins,
           NEW x \in Process, x = processes[p], x # NoProcess, NEW v,
           processes' = [processes EXCEPT ![p] = v],
           ~v.noisy => /\ ~x.noisy
                       /\ \A s \in Talking \cup {"write"}, n \in Nat :
                              Fits(x, s, n) /\ (s = "write" \/ n # 0) => Fits(v, s, n)
    PROVE  TalkInvariant'
<1>1. SameSpeakers
  BY SameFramesSpeak
<1>2. processes'[p] = v /\ \A q \in Plugins : q # p => processes'[q] = processes[q]
  BY OneChanged
<1>3. ASSUME NEW q \in Plugins, processes'[q] # NoProcess, ~processes'[q].noisy
      PROVE  /\ processes[q] # NoProcess /\ ~processes[q].noisy
             /\ \A s \in Talking \cup {"write"}, n \in Nat :
                    Fits(processes[q], s, n) /\ (s = "write" \/ n # 0) =>
                        Fits(processes'[q], s, n)
  <2>1. CASE q = p
    BY <1>2, <1>3, <2>1
  <2>2. CASE q # p
    BY <1>2, <1>3, <2>2
  <2> QED
    BY <2>1, <2>2
<1> QED
  BY <1>1, <1>3, TalkStays

LEMMA ProcessStepTalks ==
    ASSUME HostInvariant, TalkInvariant, NEW p \in Plugins, ProcessStep(p)
    PROVE  TalkInvariant'
<1>1. PICK x \in Process : x = processes[p] /\ x # NoProcess /\ x.alive
  <2>1. processes[p] # NoProcess /\ processes[p].alive
    BY DEF ProcessStep, Greet, Take, AskBack, TakeResult, Answer, Noise, StopReading,
       ReadAgain, Die, KilledByContext, Alive
  <2> QED
    BY <2>1, ProcessThere
<1>2. UNCHANGED frames
  BY DEF ProcessStep, Greet, Take, AskBack, TakeResult, Answer, Noise, StopReading,
       ReadAgain, Die, KilledByContext, Becomes
<1>3. CASE Greet(p)
  <2>1. PICK v : v = [x EXCEPT !.greeted = TRUE, !.stdout = Append(@, HandshakeLine)]
    OBVIOUS
  <2>2. ~x.greeted /\ processes' = [processes EXCEPT ![p] = v]
    BY <1>1, <1>3, <2>1 DEF Greet, Becomes, HandshakeLine
  <2>3. v.noisy = x.noisy
    BY <2>1 DEF Process
  <2>5. \A s \in Talking \cup {"write"}, n \in Nat :
            Fits(x, s, n) /\ (s = "write" \/ n # 0) => Fits(v, s, n)
    BY <1>1, <1>2, <2>1, <2>2, <2>3, GreetFits
  <2> QED
    BY <1>1, <1>2, <2>1, <2>2, <2>3, <2>5, OneStays
<1>4. CASE Take(p)
  <2>1. PICK v : v = TakenBy(x)
    OBVIOUS
  <2>2. x.serving = 0 /\ x.stdin # <<>> /\ processes' = [processes EXCEPT ![p] = v]
    BY <1>1, <1>4, <2>1 DEF Take, Becomes, TakenBy, Served
  <2>3. v.noisy = x.noisy
    BY <2>1 DEF Process, TakenBy
  <2>5. \A s \in Talking \cup {"write"}, n \in Nat :
            Fits(x, s, n) /\ (s = "write" \/ n # 0) => Fits(v, s, n)
    <3>1. x.serving = 0 /\ x.stdin # <<>> /\ x.alive
      BY <1>1, <2>2
    <3> QED
      BY <2>1, <3>1, TakeFits
  <2> QED
    BY <1>1, <1>2, <2>2, <2>3, <2>5, OneStays
<1>5. CASE AskBack(p)
  <2>1. PICK v : v = Asking(x)
    OBVIOUS
  <2>2. x.serving # 0 /\ ~x.waiting /\ processes' = [processes EXCEPT ![p] = v]
    BY <1>1, <1>5, <2>1 DEF AskBack, Becomes, Asking
  <2>3. v.noisy = x.noisy
    BY <2>1 DEF Process, Asking
  <2>5. \A s \in Talking \cup {"write"}, n \in Nat :
            Fits(x, s, n) /\ (s = "write" \/ n # 0) => Fits(v, s, n)
    <3>1. x.serving # 0 /\ ~x.waiting /\ x.alive
      BY <1>1, <2>2
    <3> QED
      BY <2>1, <3>1, AskFits
  <2> QED
    BY <1>1, <1>2, <2>2, <2>3, <2>5, OneStays
<1>6. CASE TakeResult(p)
  <2>1. PICK v : v = [x EXCEPT !.waiting = FALSE, !.stdin = Tail(@)]
    OBVIOUS
  <2>2. x.waiting /\ x.stdin # <<>> /\ processes' = [processes EXCEPT ![p] = v]
    BY <1>1, <1>6, <2>1 DEF TakeResult, Becomes
  <2>3. v.noisy = x.noisy
    BY <2>1 DEF Process
  <2>5. \A s \in Talking \cup {"write"}, n \in Nat :
            Fits(x, s, n) /\ (s = "write" \/ n # 0) => Fits(v, s, n)
    BY <1>1, <1>2, <2>1, <2>2, <2>3, TakeResultFits
  <2> QED
    BY <1>1, <1>2, <2>1, <2>2, <2>3, <2>5, OneStays
<1>7. CASE \E status \in Status : Answer(p, status)
  <2>1. PICK status \in Status : Answer(p, status)
    BY <1>7
  <2>2. PICK v : v = Answered(x, status)
    OBVIOUS
  <2>3. x.serving # 0 /\ ~x.waiting /\ processes' = [processes EXCEPT ![p] = v]
    BY <1>1, <2>1, <2>2 DEF Answer, Becomes, Answered
  <2>4. v.noisy = x.noisy
    BY <2>2 DEF Process, Answered
  <2>5. \A s \in Talking \cup {"write"}, n \in Nat :
            Fits(x, s, n) /\ (s = "write" \/ n # 0) => Fits(v, s, n)
    <3>1. x.serving # 0 /\ ~x.waiting /\ x.alive
      BY <1>1, <2>3
    <3> QED
      BY <2>2, <3>1, AnswerFits
  <2> QED
    BY <1>1, <1>2, <2>2, <2>3, <2>4, <2>5, OneStays
<1>8. CASE Noise(p)
  <2>1. PICK v : v = [x EXCEPT !.noisy = TRUE, !.stdout =
            Append(@, [kind |-> "noise", serial |-> 0, status |-> "error"])]
    OBVIOUS
  <2>2. processes' = [processes EXCEPT ![p] = v]
    BY <1>1, <1>8, <2>1 DEF Noise, Becomes
  <2>3. v.noisy
    BY <2>1 DEF Process
  <2> QED
    BY <1>1, <1>2, <2>2, <2>3, OneStays
<1>9. CASE Die(p) \/ KilledByContext(p)
  <2>1. PICK v : v = Dead(x)
    OBVIOUS
  <2>2. processes' = [processes EXCEPT ![p] = v]
    BY <1>1, <1>9, <2>1 DEF Die, KilledByContext, Becomes
  <2>3. v.noisy = x.noisy
    BY <2>1 DEF Process, Dead
  <2>5. \A s \in Talking \cup {"write"}, n \in Nat :
            Fits(x, s, n) /\ (s = "write" \/ n # 0) => Fits(v, s, n)
    BY <1>1, <1>2, <2>1, <2>2, <2>3, DeadFits
  <2> QED
    BY <1>1, <1>2, <2>1, <2>2, <2>3, <2>5, OneStays
<1>10. CASE StopReading(p) \/ ReadAgain(p)
  <2>1. PICK deaf \in BOOLEAN : processes' = [processes EXCEPT ![p] = [x EXCEPT !.deaf = deaf]]
    BY <1>1, <1>10 DEF StopReading, ReadAgain, Becomes
  <2>4. PICK v : v = [x EXCEPT !.deaf = deaf]
    OBVIOUS
  <2>2. v.noisy = x.noisy
    BY <2>4 DEF Process
  <2>3. \A s \in Talking \cup {"write"}, n \in Nat :
            Fits(x, s, n) /\ (s = "write" \/ n # 0) => Fits(v, s, n)
    BY <2>4, DeafFits
  <2> QED
    BY <1>1, <1>2, <2>1, <2>2, <2>3, <2>4, OneStays
<1> QED
  BY <1>3, <1>4, <1>5, <1>6, <1>7, <1>8, <1>9, <1>10 DEF ProcessStep

LEMMA StealTalks ==
    ASSUME HostInvariant, TalkInvariant, NEW p \in Plugins, Steal(p)
    PROVE  TalkInvariant'
<1>1. PICK x \in Process : x = processes[p] /\ x # NoProcess /\ x.stdout # <<>>
  BY ProcessThere DEF Steal, Lines
<1>2. PICK v : v = StolenFrom(x)
  OBVIOUS
<1>3. UNCHANGED frames /\ processes' = [processes EXCEPT ![p] = v]
  BY <1>1, <1>2 DEF Steal, Becomes, StolenFrom
<1>4. v.noisy = x.noisy
  BY <1>2 DEF Process, StolenFrom
<1>5. \A s \in Talking \cup {"write"}, n \in Nat :
          Fits(x, s, n) /\ (s = "write" \/ n # 0) => Fits(v, s, n)
  BY <1>1, <1>2, StealFits
<1> QED
  BY <1>1, <1>2, <1>3, <1>4, <1>5, OneStays

LEMMA SameProcessesTalk ==
    ASSUME HostInvariant, TalkInvariant, SameSpeakers, UNCHANGED processes
    PROVE  TalkInvariant'
BY TalkStays DEF TalkInvariant

LEMMA LateReaderTalks ==
    ASSUME HostInvariant, TalkInvariant, NEW p \in Plugins, LateReader(p)
    PROVE  TalkInvariant'
<1>1. UNCHANGED frames
  BY DEF LateReader
<1>2. CASE processes[p] = NoProcess
  BY <1>1, <1>2, SameFramesSpeak, SameProcessesTalk DEF LateReader
<1>3. CASE processes[p] # NoProcess
  <2>1. PICK x \in Process : x = processes[p] /\ x # NoProcess
    BY <1>3, ProcessThere
  <2>2. PICK v : v = [x EXCEPT !.thieves = @ + 1]
    OBVIOUS
  <2>3. processes' = [processes EXCEPT ![p] = v]
    BY <1>3, <2>1, <2>2 DEF LateReader
  <2>4. v.noisy = x.noisy
    BY <2>2 DEF Process, Answered
  <2>5. \A s \in Talking \cup {"write"}, n \in Nat :
            Fits(x, s, n) /\ (s = "write" \/ n # 0) => Fits(v, s, n)
    BY <1>1, <2>1, <2>2, <2>3, <2>4, ThiefFits
  <2> QED
    BY <1>1, <2>1, <2>2, <2>3, <2>4, <2>5, OneStays
<1> QED
  BY <1>2, <1>3

LEMMA CloseTalks ==
    ASSUME HostInvariant, TalkInvariant, NEW h \in Hosts, Close(h)
    PROVE  TalkInvariant'
<1>1. /\ UNCHANGED frames
      /\ processes' = [p \in Plugins |-> IF Route[p] = h THEN NoProcess ELSE processes[p]]
  BY DEF Close, hostForPlugin
<1>2. ASSUME NEW q \in Plugins, processes'[q] # NoProcess
      PROVE  processes'[q] = processes[q]
  BY <1>1, <1>2
<1> QED
  BY <1>1, <1>2, SameFramesSpeak, TalkStays

LEMMA TalkInitially == HostInit => TalkInvariant
BY DEF HostInit, TalkInvariant

LEMMA HostStepTalks ==
    ASSUME HostInvariant, TalkInvariant, NEW c \in Callers, HostStep(c)
    PROVE  TalkInvariant'
BY ReuseTalks, StartFailsTalks, StartTalks, performHandshakeTalks, HandshakeFailsTalks,
   WriteRequestTalks, WriteFailsTalks, ReadAnswerTalks, ReadCallbackTalks, ReadEOFTalks,
   ReadNoiseTalks, ReadTimeoutTalks, ReplayEventTalks, handleCallbackTalks,
   writeCallbackResultTalks DEF HostStep

LEMMA HostNextTalks ==
    ASSUME HostInvariant, TalkInvariant, [HostNext]_hostVars
    PROVE  TalkInvariant'
<1>1. CASE UNCHANGED hostVars
  BY <1>1, SameFramesSpeak, SameProcessesTalk DEF hostVars
<1>2. ASSUME NEW c \in Callers, NEW p \in Plugins, NEW context \in {Background, requests + 1},
             DispatchRequest(c, p, context) \/ RefuseRequest(c, p, context)
      PROVE  TalkInvariant'
  <2>1. context \in Nat
    BY DEF HostInvariant, HostTypeOK, Background
  <2>2. UNCHANGED processes
    BY <1>2 DEF DispatchRequest, RefuseRequest
  <2>3. SameSpeakers
    BY <1>2, <2>1, DispatchSpeaks, SameFramesSpeak DEF RefuseRequest
  <2> QED
    BY <2>2, <2>3, SameProcessesTalk
<1>3. ASSUME NEW c \in Callers, Lock(c)
      PROVE  TalkInvariant'
  BY <1>3, LockSpeaks, SameProcessesTalk DEF Lock
<1>4. ASSUME NEW c \in Callers, ClientLeaves(c)
      PROVE  TalkInvariant'
  BY <1>4, SameFramesSpeak, SameProcessesTalk DEF ClientLeaves
<1>5. ASSUME NEW c \in Callers, HostStep(c)
      PROVE  TalkInvariant'
  BY <1>5, HostStepTalks
<1>6. ASSUME NEW p \in Plugins, WindowPasses(p)
      PROVE  TalkInvariant'
  BY <1>6, SameFramesSpeak, SameProcessesTalk DEF WindowPasses
<1>7. ASSUME NEW p \in Plugins, ProcessStep(p) \/ LateReader(p) \/ Steal(p)
      PROVE  TalkInvariant'
  BY <1>7, ProcessStepTalks, LateReaderTalks, StealTalks
<1>8. ASSUME NEW h \in Hosts, Close(h)
      PROVE  TalkInvariant'
  BY <1>8, CloseTalks
<1> QED
  BY <1>1, <1>2, <1>3, <1>4, <1>5, <1>6, <1>7, <1>8 DEF HostNext

\* A host and a process whose plugin writes nothing but answers and callbacks
\* are never more than one line apart, whichever of them dies or is given up.
THEOREM TalkInvariantHolds == Host => [](HostInvariant /\ TalkInvariant)
<1>1. HostInvariant /\ TalkInvariant /\ [HostNext]_hostVars => TalkInvariant'
  BY HostNextTalks
<1> QED
  BY <1>1, TalkInitially, HostInvariantHolds, PTL DEF Host

-----------------------------------------------------------------------------
(* The answers *)

LEMMA SameAnswers ==
    ASSUME AnswersMatch, UNCHANGED returned
    PROVE  AnswersMatch'
BY DEF AnswersMatch

LEMMA ReturnAnswers ==
    ASSUME AnswersMatch, NEW c \in Callers, NEW ok, NEW line, NEW noisy,
           Return(c, ok, line, noisy),
           line.serial # 0 /\ ~noisy =>
               /\ line.serial = Top(c).serial
               /\ ok => line.status = "ok" \/ Top(c).phase = "afterCrash"
    PROVE  AnswersMatch'
<1> DEFINE new == [serial |-> Top(c).serial, ok |-> ok, answer |-> line.serial,
                   status |-> line.status, phase |-> Top(c).phase, noisy |-> noisy]
<1>1. returned' = returned \cup {new}
  BY DEF Return
<1>2. /\ new.answer = line.serial /\ new.noisy = noisy /\ new.serial = Top(c).serial
      /\ new.ok = ok /\ new.status = line.status /\ new.phase = Top(c).phase
  OBVIOUS
<1> HIDE DEF new
<1> QED
  BY <1>1, <1>2 DEF AnswersMatch

LEMMA FailAnswers ==
    ASSUME AnswersMatch, NEW c \in Callers, Fail(c)
    PROVE  AnswersMatch'
<1>1. NoAnswer.serial = 0
  BY DEF NoAnswer
<1> QED
  BY <1>1, ReturnAnswers DEF Fail

\* The line that is read is the one the process wrote for this request.
LEMMA ReadAnswerAnswers ==
    ASSUME HostInvariant, TalkInvariant, AnswersMatch, NEW c \in Callers, ReadAnswer(c)
    PROVE  AnswersMatch'
<1>1. PICK line, noisy, ok :
          /\ line = Head(Lines(Top(c).plugin)) /\ noisy = Running(c).noisy
          /\ ok = (line.status = "ok" \/ Top(c).phase = "afterCrash")
  OBVIOUS
<1>2. Return(c, ok, line, noisy)
  BY <1>1 DEF ReadAnswer, Running
<1>3. ~noisy => line.serial = Top(c).serial
  BY <1>1, ReadAnswerTalks
<1> QED
  BY <1>1, <1>2, <1>3, ReturnAnswers

LEMMA HostStepAnswers ==
    ASSUME HostInvariant, TalkInvariant, AnswersMatch, NEW c \in Callers, HostStep(c)
    PROVE  AnswersMatch'
<1>1. CASE ReadAnswer(c)
  BY <1>1, ReadAnswerAnswers
<1>2. CASE Fail(c)
  BY <1>2, FailAnswers
<1>3. CASE UNCHANGED returned
  BY <1>3, SameAnswers
<1> QED
  BY <1>1, <1>2, <1>3 DEF HostStep, Reuse, StartFails, Start, performHandshake,
     HandshakeFails, WriteRequest, WriteFails, ReadCallback, ReadEOF, ReadNoise, ReadTimeout,
     ReplayEvent, handleCallback, writeCallbackResult, Restart, history

LEMMA HostNextAnswers ==
    ASSUME HostInvariant, TalkInvariant, AnswersMatch, [HostNext]_hostVars
    PROVE  AnswersMatch'
<1>1. ASSUME NEW c \in Callers, HostStep(c)
      PROVE  AnswersMatch'
  BY <1>1, HostStepAnswers
<1>2. ASSUME NEW c \in Callers, NEW p \in Plugins, NEW context, RefuseRequest(c, p, context)
      PROVE  AnswersMatch'
  <2> DEFINE new == [serial |-> requests + 1, ok |-> FALSE, answer |-> 0, status |-> "error",
                     phase |-> "first", noisy |-> FALSE]
  <2>1. returned' = returned \cup {new}
    BY <1>2 DEF RefuseRequest
  <2>2. new.answer = 0
    OBVIOUS
  <2> HIDE DEF new
  <2> QED
    BY <2>1, <2>2 DEF AnswersMatch
<1>3. CASE UNCHANGED returned
  BY <1>3, SameAnswers
<1>4. ASSUME NEW p \in Plugins,
             ProcessStep(p) \/ WindowPasses(p) \/ LateReader(p) \/ Steal(p)
      PROVE  UNCHANGED returned
  BY <1>4 DEF ProcessStep, Greet, Take, AskBack, TakeResult, Answer, Noise, StopReading,
     ReadAgain, Die, KilledByContext, Becomes, WindowPasses, LateReader, Steal, history
<1>5. ASSUME NEW h \in Hosts, Close(h)
      PROVE  UNCHANGED returned
  BY <1>5 DEF Close, history
<1>6. ASSUME NEW c \in Callers, NEW p \in Plugins, NEW context,
             DispatchRequest(c, p, context) \/ Lock(c) \/ ClientLeaves(c)
      PROVE  UNCHANGED returned
  BY <1>6 DEF DispatchRequest, Lock, ClientLeaves, history
<1>7. CASE UNCHANGED hostVars
  BY <1>3, <1>7 DEF hostVars, history
<1>8. CASE HostNext
  <2>1. CASE \E c \in Callers : \E p \in Plugins, context \in {Background, requests + 1} :
                 DispatchRequest(c, p, context) \/ RefuseRequest(c, p, context)
    BY <1>2, <1>3, <1>6, <2>1
  <2>2. CASE \E c \in Callers : Lock(c) \/ HostStep(c) \/ ClientLeaves(c)
    <3>1. PICK c \in Callers : Lock(c) \/ HostStep(c) \/ ClientLeaves(c)
      BY <2>2
    <3>2. CASE Lock(c) \/ ClientLeaves(c)
      BY <1>3, <3>2, SameAnswers DEF Lock, ClientLeaves, history
    <3> QED
      BY <1>1, <3>1, <3>2
  <2>3. CASE \E p \in Plugins : ProcessStep(p) \/ WindowPasses(p) \/ LateReader(p) \/ Steal(p)
    BY <1>3, <1>4, <2>3
  <2>4. CASE \E h \in Hosts : Close(h)
    BY <1>3, <1>5, <2>4
  <2> QED
    BY <1>8, <2>1, <2>2, <2>3, <2>4 DEF HostNext
<1> QED
  BY <1>7, <1>8

\* A dispatch takes no answer but that to its own request, and what it says of
\* it is what the answer said, but after a crash: whatever was started, killed
\* and started again, and however many goroutines dispatch.
THEOREM AnswersAreOwn == Host => []AnswersMatch
<1>1. HostInit => AnswersMatch
  BY DEF HostInit, AnswersMatch
<1>2. HostInvariant /\ TalkInvariant /\ AnswersMatch /\ [HostNext]_hostVars => AnswersMatch'
  BY HostNextAnswers
<1> QED
  BY <1>1, <1>2, TalkInvariantHolds, PTL DEF Host

-----------------------------------------------------------------------------
(* How often a request is sent *)

\* A line of stdin is request n; a stdin holds it; no stdin holds one twice.
IsRequest(line, n) == line.kind = "request" /\ line.serial = n
Has(s, n) == \E i \in DOMAIN s : IsRequest(s[i], n)
Once(s) == \A i, j \in DOMAIN s : \A n \in Nat : IsRequest(s[i], n) /\ IsRequest(s[j], n) => i = j

\* What lies unread on the stdin of plugin p.
Unread(x) == IF x = NoProcess THEN <<>> ELSE x.stdin
Queue(p) == Unread(processes[p])

\* Request n is handled b times at the most, the one that is unread included.
Within(n, b) ==
    /\ taken[n] <= b
    /\ \A p \in Plugins : Has(Queue(p), n) => taken[n] < b

\* The stages after the request is sent, and how often it may have been by then.
Sent == {"read", "callback", "result"}
AllowedAt(stage, phase) ==
    (IF phase \in {"first", "afterWrite"} THEN 0 ELSE 1) + (IF stage \in Sent THEN 1 ELSE 0)
Allowed(frame) == AllowedAt(frame.stage, frame.phase)

FrameSends(frame) ==
    /\ Within(frame.serial, Allowed(frame))
    /\ \A p \in Plugins : Has(Queue(p), frame.serial) =>
           p = frame.plugin /\ frame.stage \in Sent

QueuesOK ==
    /\ \A p \in Plugins : Once(Queue(p))
    /\ \A p, q \in Plugins : \A n \in Nat : Has(Queue(p), n) /\ Has(Queue(q), n) => p = q
    /\ \A p \in Plugins : \A n \in Nat : Has(Queue(p), n) => n \in 1 .. requests

SendInvariant ==
    /\ QueuesOK
    /\ \A n \in 1 .. requests : Within(n, 2)
    /\ \A c \in Callers : \A i \in DOMAIN frames[c] : FrameSends(frames[c][i])

\* A stdin with fewer requests, or as many.
Fewer(t, s) ==
    /\ Once(s) => Once(t)
    /\ \A n \in Nat : Has(t, n) => Has(s, n)

LEMMA SameFewer ==
    ASSUME NEW s
    PROVE  Fewer(s, s)
BY DEF Fewer

LEMMA EmptyHasNone ==
    /\ \A n \in Nat : ~Has(<<>>, n)
    /\ \A s : Fewer(<<>>, s)
BY DEF Fewer, Has, Once

LEMMA TailFewer ==
    ASSUME NEW s \in Seq(Input), s # <<>>, NEW t, t = Tail(s)
    PROVE  /\ Fewer(t, s)
           /\ \A n \in Nat : Once(s) /\ IsRequest(Head(s), n) => Has(s, n) /\ ~Has(t, n)
<1>1. /\ Len(s) \in Nat \ {0} /\ DOMAIN s = 1 .. Len(s) /\ t \in Seq(Input)
      /\ Len(t) = Len(s) - 1 /\ DOMAIN t = 1 .. Len(s) - 1 /\ Head(s) = s[1]
  OBVIOUS
<1>2. \A i \in DOMAIN t : t[i] = s[i + 1] /\ i + 1 \in DOMAIN s /\ i \in Nat \ {0}
  BY <1>1
<1>3. \A n \in Nat : Has(t, n) => Has(s, n)
  BY <1>2 DEF Has
<1>4. ASSUME Once(s) PROVE Once(t)
  <2>1. ASSUME NEW i \in DOMAIN t, NEW j \in DOMAIN t, NEW n \in Nat,
               IsRequest(t[i], n), IsRequest(t[j], n)
        PROVE  i = j
    <3>1. i + 1 = j + 1
      BY <1>2, <1>4, <2>1 DEF Once
    <3> QED
      BY <1>2, <2>1, <3>1
  <2> QED
    BY <2>1 DEF Once
<1>5. ASSUME NEW n \in Nat, Once(s), IsRequest(Head(s), n)
      PROVE  Has(s, n) /\ ~Has(t, n)
  <2>1. 1 \in DOMAIN s /\ IsRequest(s[1], n)
    BY <1>1, <1>5
  <2>2. ASSUME NEW i \in DOMAIN t, IsRequest(t[i], n)
        PROVE  FALSE
    <3>1. i + 1 = 1
      BY <1>2, <1>5, <2>1, <2>2 DEF Once
    <3> QED
      BY <1>2, <2>2, <3>1
  <2> QED
    BY <2>1, <2>2 DEF Has
<1> QED
  BY <1>3, <1>4, <1>5 DEF Fewer

LEMMA Appended ==
    ASSUME NEW s \in Seq(Input), NEW line \in Input, NEW t, t = Append(s, line)
    PROVE  /\ DOMAIN t = DOMAIN s \cup {Len(s) + 1} /\ Len(s) + 1 \notin DOMAIN s
           /\ t[Len(s) + 1] = line /\ \A i \in DOMAIN s : t[i] = s[i]
<1>1. Len(t) = Len(s) + 1 /\ t \in Seq(Input) /\ Len(s) \in Nat
  BY AppendProperties
<1>2. DOMAIN t = 1 .. Len(s) + 1 /\ DOMAIN s = 1 .. Len(s)
  BY <1>1, LenProperties
<1>3. t[Len(s) + 1] = line /\ \A i \in 1 .. Len(s) : t[i] = s[i]
  BY AppendProperties
<1> QED
  BY <1>1, <1>2, <1>3

LEMMA ResultFewer ==
    ASSUME NEW s \in Seq(Input), NEW n \in Nat, NEW t, t = Append(s, Result(n))
    PROVE  Fewer(t, s)
<1>1. PICK line \in Input : line = Result(n) /\ line.kind # "request"
  BY DEF Result, Input
<1>2. /\ DOMAIN t = DOMAIN s \cup {Len(s) + 1}
      /\ t[Len(s) + 1] = line /\ \A i \in DOMAIN s : t[i] = s[i]
  BY <1>1, Appended
<1>3. \A i \in DOMAIN t : \A m \in Nat : IsRequest(t[i], m) => i \in DOMAIN s /\ IsRequest(s[i], m)
  BY <1>1, <1>2 DEF IsRequest
<1> QED
  BY <1>3 DEF Fewer, Has, Once

LEMMA RequestMore ==
    ASSUME NEW s \in Seq(Input), NEW n \in Nat, NEW t, t = Append(s, Request(n)),
           Once(s), ~Has(s, n)
    PROVE  Once(t) /\ \A m \in Nat : Has(t, m) => Has(s, m) \/ m = n
<1>1. PICK line \in Input : line = Request(n) /\ line.kind = "request" /\ line.serial = n
  BY DEF Request, Input
<1>2. /\ DOMAIN t = DOMAIN s \cup {Len(s) + 1} /\ Len(s) + 1 \notin DOMAIN s
      /\ t[Len(s) + 1] = line /\ \A i \in DOMAIN s : t[i] = s[i]
  BY <1>1, Appended
<1>3. \A i \in DOMAIN t : \A m \in Nat : IsRequest(t[i], m) =>
          \/ i \in DOMAIN s /\ IsRequest(s[i], m)
          \/ i = Len(s) + 1 /\ m = n
  BY <1>1, <1>2 DEF IsRequest
<1>4. \A i \in DOMAIN s : ~IsRequest(s[i], n)
  BY DEF Has
<1>5. Once(t)
  <2>1. ASSUME NEW i \in DOMAIN t, NEW j \in DOMAIN t, NEW m \in Nat,
               IsRequest(t[i], m), IsRequest(t[j], m)
        PROVE  i = j
    BY <1>3, <1>4, <2>1 DEF Once
  <2> QED
    BY <2>1 DEF Once
<1>6. \A m \in Nat : Has(t, m) => Has(s, m) \/ m = n
  BY <1>3 DEF Has
<1> QED
  BY <1>5, <1>6

\* A frame goes on: it is allowed as much, and one that is no longer past the
\* sending has lost its process.
Follows(f, g) ==
    /\ g.serial = f.serial /\ g.plugin = f.plugin
    /\ Allowed(f) <= Allowed(g)
    /\ f.stage \in Sent /\ g.stage \notin Sent => Queue(f.plugin)' = <<>>

LEMMA AllowedIsSmall ==
    ASSUME NEW f
    PROVE  Allowed(f) \in 0 .. 2
BY DEF Allowed, AllowedAt

LEMMA StillWithin ==
    ASSUME NEW n \in 1 .. requests, NEW a \in Nat, NEW b \in Nat, Within(n, a), a <= b,
           taken \in [1 .. requests -> Nat], taken'[n] = taken[n],
           \A p \in Plugins : Has(Queue(p)', n) => Has(Queue(p), n)
    PROVE  Within(n, b)'
<1>1. taken[n] \in Nat /\ taken[n] <= a
  BY DEF Within
<1>2. ASSUME NEW p \in Plugins, Has(Queue(p)', n)
      PROVE  taken'[n] < b
  BY <1>1, <1>2 DEF Within
<1>3. taken'[n] <= b
  BY <1>1
<1> QED
  BY <1>2, <1>3 DEF Within

\* Nothing is sent, nothing begun.
LEMMA FrameStillSends ==
    ASSUME HostInvariant, NEW f \in Frame, NEW g, f.serial \in 1 .. requests,
           FrameSends(f), Follows(f, g), taken'[f.serial] = taken[f.serial],
           \A p \in Plugins : Has(Queue(p)', f.serial) => Has(Queue(p), f.serial)
    PROVE  FrameSends(g)'
<1>1. PICK n \in 1 .. requests, a \in Nat, b \in Nat :
          n = f.serial /\ a = Allowed(f) /\ b = Allowed(g) /\ a <= b /\ n \in Nat
  BY AllowedIsSmall DEF Follows, HostInvariant, HostTypeOK
<1>2. Within(n, b)'
  <2>1. taken \in [1 .. requests -> Nat]
    BY DEF HostInvariant, HostTypeOK
  <2>2. Within(n, a)
    BY <1>1 DEF FrameSends
  <2> QED
    BY <1>1, <2>1, <2>2, StillWithin
<1>3. ASSUME NEW p \in Plugins, Has(Queue(p)', n)
      PROVE  p = g.plugin /\ g.stage \in Sent
  <2>1. p = f.plugin /\ f.stage \in Sent
    BY <1>1, <1>3 DEF FrameSends
  <2>2. Queue(p)' # <<>>
    BY <1>1, <1>3, EmptyHasNone
  <2> QED
    BY <2>1, <2>2 DEF Follows
<1>4. g.serial = n
  BY <1>1 DEF Follows
<1>5. Within(n, b)' /\ \A p \in Plugins : Has(Queue(p)', n) => p = g.plugin /\ g.stage \in Sent
  BY <1>2, <1>3
<1> QED
  BY <1>1, <1>4, <1>5 DEF FrameSends, Within

LEMMA QueuesStay ==
    ASSUME QueuesOK, requests \in Nat, requests' \in Nat, requests' >= requests,
           \A p \in Plugins : Fewer(Queue(p)', Queue(p))
    PROVE  QueuesOK'
<1>1. \A p \in Plugins : Once(Queue(p)')
  BY DEF QueuesOK, Fewer
<1>2. \A p \in Plugins : \A n \in Nat : Has(Queue(p)', n) => Has(Queue(p), n)
  BY DEF Fewer
<1>3. \A p \in Plugins : \A n \in Nat : Has(Queue(p)', n) => n \in 1 .. requests'
  BY <1>2 DEF QueuesOK
<1>4. \A p, q \in Plugins : \A n \in Nat : Has(Queue(p)', n) /\ Has(Queue(q)', n) => p = q
  BY <1>2 DEF QueuesOK
<1> QED
  BY <1>1, <1>3, <1>4 DEF QueuesOK, Once, Has

\* Every dispatch there is was there before.
FramesFollow ==
    \A k \in Callers : \A i \in DOMAIN frames'[k] :
        i \in DOMAIN frames[k] /\ Follows(frames[k][i], frames'[k][i])

LEMMA SendStays ==
    ASSUME HostInvariant, SendInvariant, UNCHANGED <<taken, requests>>,
           \A p \in Plugins : Fewer(Queue(p)', Queue(p)), FramesFollow
    PROVE  SendInvariant'
<1>1. /\ requests \in Nat /\ taken \in [1 .. requests -> Nat]
      /\ \A k \in Callers : \A i \in DOMAIN frames[k] :
             frames[k][i] \in Frame /\ frames[k][i].serial \in 1 .. requests
  BY DEF HostInvariant, HostTypeOK, FramesOK, FrameOK
<1>2. \A p \in Plugins : \A n \in Nat : Has(Queue(p)', n) => Has(Queue(p), n)
  BY DEF Fewer
<1>3. QueuesOK'
  BY <1>1, QueuesStay DEF SendInvariant
<1>4. ASSUME NEW n \in 1 .. requests'
      PROVE  Within(n, 2)'
  <2>1. n \in 1 .. requests /\ n \in Nat /\ Within(n, 2)
    BY <1>1, <1>4 DEF SendInvariant
  <2> QED
    BY <1>1, <1>2, <2>1, StillWithin
<1>5. ASSUME NEW k \in Callers, NEW i \in DOMAIN frames'[k]
      PROVE  FrameSends(frames[k][i])'
  <2>1. i \in DOMAIN frames[k] /\ Follows(frames[k][i], frames'[k][i])
    BY <1>5 DEF FramesFollow
  <2>2. PICK g : g = frames'[k][i]
    OBVIOUS
  <2>3. PICK f \in Frame : f = frames[k][i]
    BY <1>1, <2>1
  <2>4. /\ f.serial \in 1 .. requests /\ f.serial \in Nat /\ FrameSends(f) /\ Follows(f, g)
    BY <1>1, <2>1, <2>2, <2>3 DEF SendInvariant
  <2>5. FrameSends(g)'
    BY <1>2, <2>4, FrameStillSends
  <2> QED
    BY <2>2, <2>5 DEF FrameSends, Within
<1> QED
  BY <1>3, <1>4, <1>5 DEF SendInvariant

LEMMA SameFollow ==
    ASSUME UNCHANGED frames
    PROVE  FramesFollow
<1>1. \A f : Follows(f, f)
  BY AllowedIsSmall DEF Follows
<1> QED
  BY <1>1 DEF FramesFollow

LEMMA MovedFollow ==
    ASSUME HostInvariant, NEW c \in Callers, Busy(c), NEW stage \in Stages, NEW phase \in Phases,
           Moved(c, stage, phase), AllowedAt(Top(c).stage, Top(c).phase) <= AllowedAt(stage, phase),
           NEW p, p = Top(c).plugin,
           Top(c).stage \in Sent /\ stage \notin Sent => Queue(p)' = <<>>
    PROVE  FramesFollow
<1>1. /\ \A k \in Callers : DOMAIN frames'[k] = DOMAIN frames[k]
      /\ \A k \in Callers : \A i \in DOMAIN frames[k] :
             k # c \/ i # Len(frames[c]) => frames'[k][i] = frames[k][i]
      /\ Len(frames[c]) \in DOMAIN frames[c]
      /\ frames'[c][Len(frames[c])].plugin = Top(c).plugin
      /\ frames'[c][Len(frames[c])].serial = Top(c).serial
      /\ frames'[c][Len(frames[c])].stage = stage
      /\ frames'[c][Len(frames[c])].phase = phase
  BY MovedShape
<1>2. \A f : Follows(f, f)
  BY AllowedIsSmall DEF Follows
<1>3. PICK f : f = Top(c) /\ f = frames[c][Len(frames[c])] /\ f.plugin = p
  BY DEF Top
<1>4. PICK g : g = frames'[c][Len(frames[c])]
  OBVIOUS
<1>5. Follows(f, g)
  <2>1. Allowed(f) <= Allowed(g)
    BY <1>1, <1>3, <1>4 DEF Allowed
  <2>2. f.stage \in Sent /\ stage \notin Sent => Queue(p)' = <<>>
    BY <1>3
  <2> QED
    BY <1>1, <1>3, <1>4, <2>1, <2>2 DEF Follows, Queue
<1>6. ASSUME NEW k \in Callers, NEW i \in DOMAIN frames'[k]
      PROVE  i \in DOMAIN frames[k] /\ Follows(frames[k][i], frames'[k][i])
  <2>1. i \in DOMAIN frames[k]
    BY <1>1, <1>6
  <2>2. PICK h, j : h = frames[k][i] /\ j = frames'[k][i]
    OBVIOUS
  <2>3. CASE k = c /\ i = Len(frames[c])
    <3>1. h = f /\ j = g
      BY <1>3, <1>4, <2>2, <2>3
    <3> QED
      BY <1>5, <2>1, <2>2, <3>1 DEF Follows
  <2>4. CASE k # c \/ i # Len(frames[c])
    <3>1. h = j
      BY <1>1, <2>1, <2>2, <2>4
    <3> QED
      BY <1>2, <2>1, <2>2, <3>1
  <2> QED
    BY <2>3, <2>4
<1> QED
  BY <1>6 DEF FramesFollow

LEMMA LeftFollow ==
    ASSUME HostInvariant, NEW c \in Callers, Busy(c), Left(c)
    PROVE  FramesFollow
<1>1. \A f : Follows(f, f)
  BY AllowedIsSmall DEF Follows
<1>2. \A k \in Callers : \A i \in DOMAIN frames'[k] :
          i \in DOMAIN frames[k] /\ frames'[k][i] = frames[k][i]
  BY LeftShape
<1> QED
  BY <1>1, <1>2 DEF FramesFollow

LEMMA QueueOne ==
    ASSUME HostInvariant, NEW p \in Plugins, NEW v, processes' = [processes EXCEPT ![p] = v],
           Fewer(Unread(v), Queue(p))
    PROVE  Queue(p)' = Unread(v) /\ \A q \in Plugins : Fewer(Queue(q)', Queue(q))
<1>1. processes'[p] = v /\ \A q \in Plugins : q # p => processes'[q] = processes[q]
  BY OneChanged
<1>2. Queue(p)' = Unread(v) /\ \A q \in Plugins : q # p => Queue(q)' = Queue(q)
  BY <1>1 DEF Queue
<1> QED
  BY <1>2, SameFewer

LEMMA SameQueues ==
    ASSUME UNCHANGED processes
    PROVE  \A q \in Plugins : Fewer(Queue(q)', Queue(q))
BY SameFewer DEF Queue

\* A dispatch goes on with a process that has no more to read than before.
LEMMA GotoSends ==
    ASSUME HostInvariant, SendInvariant, NEW c \in Callers, Busy(c), NEW stage \in Stages,
           Goto(c, stage), UNCHANGED <<history, requests>>,
           \A q \in Plugins : Fewer(Queue(q)', Queue(q)),
           (Top(c).stage \in Sent) = (stage \in Sent)
    PROVE  SendInvariant'
<1>1. Moved(c, stage, Top(c).phase) /\ Top(c).phase \in Phases
  BY GotoMoves, TopOK
<1>2. AllowedAt(Top(c).stage, Top(c).phase) <= AllowedAt(stage, Top(c).phase)
  BY DEF AllowedAt
<1>3. PICK p : p = Top(c).plugin
  OBVIOUS
<1>4. FramesFollow
  BY <1>1, <1>2, <1>3, MovedFollow
<1> QED
  BY <1>4, SendStays DEF history

\* The process is killed, and what lies on its stdin is lost with it.
LEMMA RestartSends ==
    ASSUME HostInvariant, SendInvariant, NEW c \in Callers, Busy(c), NEW phase \in Phases,
           Restart(c, phase),
           AllowedAt(Top(c).stage, Top(c).phase) <= AllowedAt("ensure", phase)
    PROVE  SendInvariant'
<1>1. Moved(c, "ensure", phase) /\ "ensure" \in Stages
  BY RestartMoves DEF Stages
<1>2. PICK p \in Plugins : p = Top(c).plugin
  BY TopOK
<1>3. processes' = [processes EXCEPT ![p] = NoProcess]
  BY <1>2 DEF Restart, Removed
<1>4. Unread(NoProcess) = <<>> /\ Fewer(Unread(NoProcess), Queue(p))
  BY EmptyHasNone DEF Unread
<1>5. Queue(p)' = <<>> /\ \A q \in Plugins : Fewer(Queue(q)', Queue(q))
  BY <1>3, <1>4, QueueOne
<1>6. FramesFollow
  BY <1>1, <1>2, <1>5, MovedFollow
<1> QED
  BY <1>5, <1>6, SendStays DEF Restart, history

LEMMA ReturnSends ==
    ASSUME HostInvariant, SendInvariant, NEW c \in Callers, Busy(c), Left(c),
           UNCHANGED <<taken, requests>>, \A q \in Plugins : Fewer(Queue(q)', Queue(q))
    PROVE  SendInvariant'
BY LeftFollow, SendStays

\* A dispatch fails, its process killed or not.
LEMMA FailSends ==
    ASSUME HostInvariant, SendInvariant, NEW c \in Callers, Busy(c), Fail(c),
           UNCHANGED processes \/ processes' = Removed(Top(c).plugin)
    PROVE  SendInvariant'
<1>1. Left(c) /\ UNCHANGED <<taken, requests>>
  BY DEF Fail, Return, Left
<1>2. PICK p \in Plugins : p = Top(c).plugin
  BY TopOK
<1>3. \A q \in Plugins : Fewer(Queue(q)', Queue(q))
  <2>1. CASE UNCHANGED processes
    BY <2>1, SameQueues
  <2>2. CASE processes' = Removed(p)
    <3>1. Fewer(Unread(NoProcess), Queue(p))
      BY EmptyHasNone DEF Unread
    <3> QED
      BY <2>2, <3>1, QueueOne DEF Removed
  <2> QED
    BY <1>2, <2>1, <2>2
<1> QED
  BY <1>1, <1>3, ReturnSends

\* The host takes a line off the stdout of its process.
LEMMA LineReadQueues ==
    ASSUME HostInvariant, NEW p \in Plugins, processes[p] # NoProcess,
           processes' = [processes EXCEPT ![p].stdout = Tail(@)]
    PROVE  \A q \in Plugins : Fewer(Queue(q)', Queue(q))
<1>1. PICK x \in Process : x = processes[p] /\ x # NoProcess
  BY ProcessThere
<1>2. PICK v : v = [x EXCEPT !.stdout = Tail(@)]
  OBVIOUS
<1>3. processes' = [processes EXCEPT ![p] = v] /\ v.stdin = x.stdin
  BY <1>1, <1>2, TailFields
<1>4. Fewer(Unread(v), Queue(p))
  BY <1>1, <1>3, SameFewer, EmptyHasNone DEF Unread, Queue
<1> QED
  BY <1>3, <1>4, QueueOne

LEMMA LockSends ==
    ASSUME HostInvariant, SendInvariant, NEW c \in Callers, Lock(c)
    PROVE  SendInvariant'
<1>1. Busy(c) /\ Top(c).stage = "queued" /\ Goto(c, "ensure") /\ "ensure" \in Stages
  BY DEF Lock, At, Stages
<1> QED
  BY <1>1, SameQueues, GotoSends DEF Lock, Sent

LEMMA ReuseSends ==
    ASSUME HostInvariant, SendInvariant, NEW c \in Callers, Reuse(c)
    PROVE  SendInvariant'
<1>1. Busy(c) /\ Top(c).stage = "ensure" /\ Goto(c, "write") /\ "write" \in Stages
  BY DEF Reuse, At, Stages
<1> QED
  BY <1>1, SameQueues, GotoSends DEF Reuse, Sent

LEMMA handleCallbackSends ==
    ASSUME HostInvariant, SendInvariant, NEW c \in Callers, handleCallback(c)
    PROVE  SendInvariant'
<1>1. Busy(c) /\ Top(c).stage = "callback" /\ Goto(c, "result") /\ "result" \in Stages
  BY DEF handleCallback, At, Stages
<1> QED
  BY <1>1, SameQueues, GotoSends DEF handleCallback, Sent

LEMMA StartSends ==
    ASSUME HostInvariant, SendInvariant, NEW c \in Callers, Start(c)
    PROVE  SendInvariant'
<1>1. /\ Busy(c) /\ Top(c).stage = "ensure" /\ Goto(c, "handshake") /\ "handshake" \in Stages
  BY DEF Start, At, Stages
<1>2. PICK p \in Plugins : p = Top(c).plugin
  BY <1>1, TopOK
<1> DEFINE v == [context |-> Top(c).context, alive |-> TRUE, greeted |-> FALSE, stdin |-> <<>>,
                 stdout |-> <<>>, serving |-> 0, waiting |-> FALSE, deaf |-> FALSE,
                 thieves |-> 0, noisy |-> FALSE]
<1>3. processes' = [processes EXCEPT ![p] = v] /\ v.stdin = <<>>
  BY <1>2 DEF Start
<1> HIDE DEF v
<1>4. Fewer(Unread(v), Queue(p))
  BY <1>3, EmptyHasNone DEF Unread
<1>5. \A q \in Plugins : Fewer(Queue(q)', Queue(q))
  BY <1>3, <1>4, QueueOne
<1> QED
  BY <1>1, <1>5, GotoSends DEF Start, Sent

LEMMA performHandshakeSends ==
    ASSUME HostInvariant, SendInvariant, NEW c \in Callers, performHandshake(c)
    PROVE  SendInvariant'
<1>1. /\ Busy(c) /\ Top(c).stage = "handshake" /\ Goto(c, "write") /\ "write" \in Stages
  BY DEF performHandshake, At, Stages
<1>2. PICK p \in Plugins : p = Top(c).plugin /\ processes[p] # NoProcess
  BY <1>1, TopOK DEF Started
<1>3. \A q \in Plugins : Fewer(Queue(q)', Queue(q))
  BY <1>2, LineReadQueues DEF performHandshake
<1> QED
  BY <1>1, <1>3, GotoSends DEF performHandshake, Sent

LEMMA ReadCallbackSends ==
    ASSUME HostInvariant, SendInvariant, NEW c \in Callers, ReadCallback(c)
    PROVE  SendInvariant'
<1>1. /\ Busy(c) /\ Top(c).stage = "read" /\ Goto(c, "callback") /\ "callback" \in Stages
  BY DEF ReadCallback, At, Stages
<1>2. PICK p \in Plugins : p = Top(c).plugin /\ processes[p] # NoProcess
  BY <1>1, TopOK DEF Started
<1>3. \A q \in Plugins : Fewer(Queue(q)', Queue(q))
  BY <1>2, LineReadQueues DEF ReadCallback
<1> QED
  BY <1>1, <1>3, GotoSends DEF ReadCallback, Sent

LEMMA ReadAnswerSends ==
    ASSUME HostInvariant, SendInvariant, NEW c \in Callers, ReadAnswer(c)
    PROVE  SendInvariant'
<1>1. /\ Busy(c) /\ Top(c).stage = "read" /\ Left(c) /\ UNCHANGED <<taken, requests>>
  BY DEF ReadAnswer, At, Return, Left
<1>2. PICK p \in Plugins : p = Top(c).plugin /\ processes[p] # NoProcess
  BY <1>1, TopOK DEF Started
<1>3. \A q \in Plugins : Fewer(Queue(q)', Queue(q))
  BY <1>2, LineReadQueues DEF ReadAnswer
<1> QED
  BY <1>1, <1>3, ReturnSends

LEMMA StartFailsSends ==
    ASSUME HostInvariant, SendInvariant, NEW c \in Callers, StartFails(c)
    PROVE  SendInvariant'
BY FailSends DEF StartFails, At

LEMMA HandshakeFailsSends ==
    ASSUME HostInvariant, SendInvariant, NEW c \in Callers, HandshakeFails(c)
    PROVE  SendInvariant'
BY FailSends DEF HandshakeFails, At

\* The plugin is started again after a request was sent the first time only.
LEMMA SentAgain ==
    ASSUME NEW c \in Callers, RestartsLeft(c), NEW phase \in {"afterRead", "afterCrash"}
    PROVE  AllowedAt(Top(c).stage, Top(c).phase) <= AllowedAt("ensure", phase)
BY DEF AllowedAt, RestartsLeft, Sent

LEMMA WriteFailsSends ==
    ASSUME HostInvariant, SendInvariant, NEW c \in Callers, WriteFails(c)
    PROVE  SendInvariant'
<1>1. Busy(c) /\ Top(c).stage = "write"
  BY DEF WriteFails, At
<1>2. CASE Top(c).phase = "first" /\ Restart(c, "afterWrite")
  <2>1. AllowedAt(Top(c).stage, Top(c).phase) <= AllowedAt("ensure", "afterWrite")
    BY <1>1, <1>2 DEF AllowedAt, Sent
  <2>2. "afterWrite" \in Phases
    BY DEF Phases
  <2> QED
    BY <1>1, <1>2, <2>1, <2>2, RestartSends
<1>3. CASE Fail(c) /\ UNCHANGED processes
  BY <1>1, <1>3, FailSends
<1> QED
  BY <1>2, <1>3 DEF WriteFails

LEMMA ReadEOFSends ==
    ASSUME HostInvariant, SendInvariant, NEW c \in Callers, ReadEOF(c)
    PROVE  SendInvariant'
<1>1. Busy(c) /\ "afterCrash" \in Phases
  BY DEF ReadEOF, At, Phases
<1>2. CASE RestartsLeft(c) /\ Restart(c, "afterCrash")
  BY <1>1, <1>2, SentAgain, RestartSends
<1>3. CASE Fail(c) /\ UNCHANGED processes
  BY <1>1, <1>3, FailSends
<1> QED
  BY <1>2, <1>3 DEF ReadEOF

LEMMA ReadNoiseSends ==
    ASSUME HostInvariant, SendInvariant, NEW c \in Callers, ReadNoise(c)
    PROVE  SendInvariant'
<1>1. Busy(c) /\ Top(c).stage = "read" /\ "afterRead" \in Phases
  BY DEF ReadNoise, At, Phases
<1>2. CASE RestartsLeft(c) /\ Restart(c, "afterRead")
  BY <1>1, <1>2, SentAgain, RestartSends
<1>3. CASE ~RestartsLeft(c)
  <2>1. Left(c) /\ UNCHANGED <<taken, requests>>
    BY <1>3 DEF ReadNoise, Fail, Return, Left
  <2>2. PICK p \in Plugins : p = Top(c).plugin /\ processes[p] # NoProcess
    BY <1>1, TopOK DEF Started
  <2>3. \A q \in Plugins : Fewer(Queue(q)', Queue(q))
    BY <1>3, <2>2, LineReadQueues DEF ReadNoise
  <2> QED
    BY <1>1, <2>1, <2>3, ReturnSends
<1> QED
  BY <1>2, <1>3 DEF ReadNoise

LEMMA ReadTimeoutSends ==
    ASSUME HostInvariant, SendInvariant, NEW c \in Callers, ReadTimeout(c)
    PROVE  SendInvariant'
<1>1. Busy(c) /\ "afterRead" \in Phases
  BY DEF ReadTimeout, At, Phases
<1>2. CASE RestartsLeft(c) /\ Restart(c, "afterRead")
  BY <1>1, <1>2, SentAgain, RestartSends
<1>3. CASE Fail(c) /\ processes' = Removed(Top(c).plugin)
  BY <1>1, <1>3, FailSends
<1> QED
  BY <1>2, <1>3 DEF ReadTimeout

LEMMA writeCallbackResultSends ==
    ASSUME HostInvariant, SendInvariant, NEW c \in Callers, writeCallbackResult(c)
    PROVE  SendInvariant'
<1>1. Busy(c) /\ Top(c).stage = "result" /\ "afterRead" \in Phases /\ "read" \in Stages
  BY DEF writeCallbackResult, At, Phases, Stages
<1>2. CASE RestartsLeft(c) /\ Restart(c, "afterRead")
  BY <1>1, <1>2, SentAgain, RestartSends
<1>3. CASE Fail(c) /\ UNCHANGED processes
  BY <1>1, <1>3, FailSends
<1>4. CASE Running(c).alive
  <2>1. PICK p \in Plugins : p = Top(c).plugin /\ processes[p] # NoProcess
    BY <1>1, TopOK DEF Started
  <2>2. PICK x \in Process : x = processes[p] /\ x # NoProcess
    BY <2>1, ProcessThere
  <2>3. PICK n \in Nat : n = Top(c).serial
    BY <1>1, TopOK
  <2>4. PICK v : v = [x EXCEPT !.stdin = Append(@, Result(n))]
    OBVIOUS
  <2>5. /\ processes' = [processes EXCEPT ![p] = v] /\ Goto(c, "read")
        /\ UNCHANGED <<history, requests>>
    BY <1>4, <2>1, <2>2, <2>3, <2>4 DEF writeCallbackResult, Running, Result
  <2>6. v.stdin = Append(x.stdin, Result(n)) /\ x.stdin \in Seq(Input)
    BY <2>4 DEF Process
  <2>7. Fewer(v.stdin, x.stdin)
    BY <2>6, ResultFewer
  <2>8. Fewer(Unread(v), Queue(p))
    BY <2>2, <2>7, EmptyHasNone DEF Unread, Queue
  <2>9. \A q \in Plugins : Fewer(Queue(q)', Queue(q))
    BY <2>5, <2>8, QueueOne
  <2> QED
    BY <1>1, <2>5, <2>9, GotoSends DEF Sent
<1> QED
  BY <1>2, <1>3, <1>4 DEF writeCallbackResult, Running

\* The one step that sends: nothing of the request is unread, and what there
\* was of it before is one less than what is allowed now.
LEMMA WriteRequestSends ==
    ASSUME HostInvariant, SendInvariant, NEW c \in Callers, WriteRequest(c)
    PROVE  SendInvariant'
<1>1. /\ Busy(c) /\ Top(c).stage = "write" /\ Top(c).stage # "queued" /\ Goto(c, "read")
      /\ "read" \in Stages /\ UNCHANGED <<taken, requests>>
  BY DEF WriteRequest, At, Stages, history
<1>2. PICK p \in Plugins : p = Top(c).plugin /\ processes[p] # NoProcess
  BY <1>1, TopOK DEF Started
<1>3. PICK x \in Process : x = processes[p] /\ x # NoProcess
  BY <1>2, ProcessThere
<1>4. PICK n \in 1 .. requests : n = Top(c).serial /\ n \in Nat
  BY <1>1, TopOK DEF FrameOK
<1>5. PICK v : v = [x EXCEPT !.stdin = Append(@, Request(n))]
  OBVIOUS
<1>6. /\ processes' = [processes EXCEPT ![p] = v] /\ v # NoProcess
      /\ v.stdin = Append(x.stdin, Request(n)) /\ x.stdin \in Seq(Input)
  <2>1. processes' = [processes EXCEPT ![p] = v]
    BY <1>2, <1>3, <1>4, <1>5 DEF WriteRequest, Request
  <2>2. v.stdin = Append(x.stdin, Request(n)) /\ x.stdin \in Seq(Input)
    BY <1>5 DEF Process
  <2>3. v \in Process
    <3>1. Append(x.stdin, Request(n)) \in Seq(Input)
      BY <1>4, <2>2 DEF Request, Input
    <3> QED
      BY <1>5, <3>1 DEF Process
  <2> QED
    BY <2>1, <2>2, <2>3, NoProcessAssumption
<1>7. /\ Len(frames[c]) \in DOMAIN frames[c] /\ Top(c) = frames[c][Len(frames[c])]
      /\ requests \in Nat /\ taken \in [1 .. requests -> Nat]
  BY <1>1, TopIn DEF HostInvariant, HostTypeOK
<1>8. FrameSends(Top(c)) /\ \A q \in Plugins : ~Has(Queue(q), n)
  <2>1. FrameSends(Top(c))
    BY <1>7 DEF SendInvariant
  <2> QED
    BY <1>1, <1>4, <2>1 DEF FrameSends, Sent
<1>9. /\ Once(Queue(p)') /\ \A m \in Nat : Has(Queue(p)', m) => Has(Queue(p), m) \/ m = n
      /\ \A q \in Plugins : q # p => Queue(q)' = Queue(q)
  <2>1. Queue(p) = x.stdin /\ Once(Queue(p)) /\ ~Has(Queue(p), n)
    BY <1>3, <1>8 DEF Queue, Unread, SendInvariant, QueuesOK
  <2>2. Once(v.stdin) /\ \A m \in Nat : Has(v.stdin, m) => Has(x.stdin, m) \/ m = n
    <3>1. PICK u, t : u = x.stdin /\ t = v.stdin /\ u \in Seq(Input)
      BY <1>6
    <3>2. t = Append(u, Request(n)) /\ Once(u) /\ ~Has(u, n)
      BY <1>6, <2>1, <3>1
    <3>3. Once(t) /\ \A m \in Nat : Has(t, m) => Has(u, m) \/ m = n
      BY <1>4, <3>1, <3>2, RequestMore, Zenon
    <3> QED
      BY <3>1, <3>3
  <2>3. processes'[p] = v /\ \A q \in Plugins : q # p => processes'[q] = processes[q]
    BY <1>6, OneChanged
  <2>4. Queue(p)' = v.stdin /\ \A q \in Plugins : q # p => Queue(q)' = Queue(q)
    BY <1>6, <2>3 DEF Queue, Unread
  <2> QED
    BY <2>1, <2>2, <2>4
<1>10. \A q \in Plugins : \A m \in Nat :
           Has(Queue(q)', m) => Has(Queue(q), m) \/ (m = n /\ q = p)
  BY <1>9
<1>11. QueuesOK'
  <2>1. \A q \in Plugins : Once(Queue(q)')
    BY <1>9 DEF SendInvariant, QueuesOK
  <2>2. \A q \in Plugins : \A m \in Nat : Has(Queue(q)', m) => m \in 1 .. requests'
    BY <1>1, <1>4, <1>10 DEF SendInvariant, QueuesOK
  <2>3. ASSUME NEW q \in Plugins, NEW r \in Plugins, NEW m \in Nat,
               Has(Queue(q)', m), Has(Queue(r)', m)
        PROVE  q = r
    BY <1>8, <1>10, <2>3 DEF SendInvariant, QueuesOK
  <2> QED
    BY <2>1, <2>2, <2>3 DEF QueuesOK, Once, Has
<1>12. PICK a \in 0 .. 1 :
           /\ Allowed(Top(c)) = a /\ AllowedAt("read", Top(c).phase) = a + 1
  <2>1. /\ Allowed(Top(c)) \in 0 .. 1
        /\ AllowedAt("read", Top(c).phase) = Allowed(Top(c)) + 1
    BY <1>1 DEF Allowed, AllowedAt, Sent
  <2> QED
    BY <2>1
<1>13. Within(n, a + 1)' /\ Within(n, 2)'
  <2>1. taken[n] <= a /\ taken[n] \in Nat /\ taken'[n] = taken[n]
    BY <1>1, <1>4, <1>7, <1>8, <1>12 DEF FrameSends, Within
  <2>2. taken'[n] < a + 1 /\ a + 1 <= 2
    BY <2>1
  <2> QED
    BY <2>1, <2>2 DEF Within
<1>14. ASSUME NEW m \in 1 .. requests', m # n
       PROVE  Within(m, 2)'
  <2>1. m \in 1 .. requests /\ m \in Nat /\ Within(m, 2)
    BY <1>1, <1>7, <1>14 DEF SendInvariant
  <2>2. \A q \in Plugins : Has(Queue(q)', m) => Has(Queue(q), m)
    BY <1>10, <1>14, <2>1
  <2> QED
    BY <1>1, <1>7, <2>1, <2>2, StillWithin
<1>15. Moved(c, "read", Top(c).phase) /\ Top(c).phase \in Phases
  BY <1>1, GotoMoves, TopOK
<1>16. /\ \A k \in Callers : DOMAIN frames'[k] = DOMAIN frames[k]
       /\ \A k \in Callers : \A i \in DOMAIN frames[k] :
              k # c \/ i # Len(frames[c]) => frames'[k][i] = frames[k][i]
       /\ frames'[c][Len(frames[c])].plugin = Top(c).plugin
       /\ frames'[c][Len(frames[c])].serial = Top(c).serial
       /\ frames'[c][Len(frames[c])].stage = "read"
       /\ frames'[c][Len(frames[c])].phase = Top(c).phase
  BY <1>1, <1>15, MovedShape
<1>17. ASSUME NEW g, g = frames'[c][Len(frames[c])]
       PROVE  FrameSends(g)'
  <2>1. g.serial = n /\ g.plugin = p /\ g.stage \in Sent /\ Allowed(g) = a + 1
    BY <1>2, <1>4, <1>12, <1>16, <1>17 DEF Allowed, Sent
  <2>2. \A q \in Plugins : Has(Queue(q)', n) => q = p
    BY <1>4, <1>8, <1>10
  <2> QED
    BY <1>13, <2>1, <2>2 DEF FrameSends, Within
<1>18. ASSUME NEW k \in Callers, NEW i \in DOMAIN frames[k], k # c \/ i # Len(frames[c]),
              NEW f \in Frame, f = frames[k][i]
       PROVE  FrameSends(f)'
  <2>1. f.serial \in 1 .. requests /\ f.serial \in Nat /\ f.serial # n /\ FrameSends(f)
    BY <1>1, <1>4, <1>7, <1>18, Alone DEF SendInvariant, HostInvariant, FramesOK, FrameOK
  <2>2. \A q \in Plugins : Has(Queue(q)', f.serial) => Has(Queue(q), f.serial)
    BY <1>10, <2>1
  <2>3. Follows(f, f)
    BY AllowedIsSmall DEF Follows
  <2> QED
    BY <1>1, <2>1, <2>2, <2>3, FrameStillSends
<1>19. ASSUME NEW k \in Callers, NEW i \in DOMAIN frames'[k]
       PROVE  FrameSends(frames[k][i])'
  <2>1. i \in DOMAIN frames[k] /\ frames[k][i] \in Frame
    BY <1>16, <1>19 DEF HostInvariant, HostTypeOK
  <2>2. PICK g : g = frames'[k][i]
    OBVIOUS
  <2>3. CASE k = c /\ i = Len(frames[c])
    <3>1. FrameSends(g)'
      BY <1>17, <2>2, <2>3
    <3> QED
      BY <2>2, <3>1 DEF FrameSends, Within
  <2>4. CASE k # c \/ i # Len(frames[c])
    <3>1. PICK f \in Frame : f = frames[k][i] /\ f = g
      BY <1>16, <2>1, <2>2, <2>4
    <3>2. FrameSends(f)'
      BY <1>18, <2>1, <2>4, <3>1
    <3> QED
      BY <2>2, <3>1, <3>2 DEF FrameSends, Within
  <2> QED
    BY <2>3, <2>4
<1>20. \A m \in 1 .. requests' : Within(m, 2)'
  BY <1>13, <1>14
<1> QED
  BY <1>11, <1>19, <1>20 DEF SendInvariant, Within

-----------------------------------------------------------------------------
(* New requests, and what is begun *)

\* A request that is new has not been sent.
LEMMA NewSends ==
    ASSUME HostInvariant, SendInvariant, requests' = requests + 1, taken' = Append(taken, 0),
           UNCHANGED processes,
           \A k \in Callers : \A i \in DOMAIN frames'[k] :
               \/ i \in DOMAIN frames[k] /\ Follows(frames[k][i], frames'[k][i])
               \/ frames'[k][i].serial = requests + 1 /\ Allowed(frames'[k][i]) = 0
    PROVE  SendInvariant'
<1>1. /\ requests \in Nat /\ taken \in [1 .. requests -> Nat]
      /\ \A k \in Callers : \A i \in DOMAIN frames[k] :
             frames[k][i] \in Frame /\ frames[k][i].serial \in 1 .. requests
  BY DEF HostInvariant, HostTypeOK, FramesOK, FrameOK
<1>2. taken'[requests + 1] = 0 /\ \A n \in 1 .. requests : taken'[n] = taken[n]
  BY TakenGrows
<1>3. \A p \in Plugins : Queue(p)' = Queue(p)
  BY DEF Queue
<1>4. PICK new \in Nat : new = requests + 1 /\ new \notin 1 .. requests
  BY <1>1
<1>5. \A p \in Plugins : ~Has(Queue(p)', new)
  BY <1>3, <1>4 DEF SendInvariant, QueuesOK
<1>6. QueuesOK'
  <2>1. \A p \in Plugins : Fewer(Queue(p)', Queue(p))
    BY <1>3, SameFewer
  <2> QED
    BY <1>1, <2>1, QueuesStay DEF SendInvariant
<1>7. ASSUME NEW b \in Nat
      PROVE  Within(new, b)'
  <2>1. PICK t : t = taken'
    OBVIOUS
  <2>2. t[new] = 0
    BY <1>2, <1>4, <2>1
  <2>3. t[new] <= b
    BY <2>2
  <2> QED
    BY <1>5, <2>1, <2>3 DEF Within
<1>8. ASSUME NEW n \in 1 .. requests'
      PROVE  Within(n, 2)'
  <2>1. CASE n = new
    BY <1>7, <2>1
  <2>2. CASE n # new
    <3>1. n \in 1 .. requests /\ Within(n, 2)
      BY <1>1, <1>4, <1>8, <2>2 DEF SendInvariant
    <3>2. taken'[n] = taken[n] /\ taken[n] <= 2
      BY <1>2, <3>1 DEF Within
    <3>3. \A p \in Plugins : Has(Queue(p)', n) => taken'[n] < 2
      BY <1>3, <3>1, <3>2 DEF Within
    <3> QED
      BY <3>2, <3>3 DEF Within
  <2> QED
    BY <2>1, <2>2
<1>9. ASSUME NEW k \in Callers, NEW i \in DOMAIN frames'[k]
      PROVE  FrameSends(frames[k][i])'
  <2>1. PICK g : g = frames'[k][i]
    OBVIOUS
  <2>2. CASE g.serial = requests + 1 /\ Allowed(g) = 0
    <3>1. Within(new, 0)' /\ g.serial = new /\ Allowed(g) = 0
      BY <1>4, <1>7, <2>2
    <3>2. Within(g.serial, Allowed(g))'
      BY <3>1 DEF Within
    <3>3. FrameSends(g)'
      BY <1>5, <3>1, <3>2 DEF FrameSends, Within
    <3> QED
      BY <2>1, <3>3 DEF FrameSends, Within
  <2>3. CASE i \in DOMAIN frames[k] /\ Follows(frames[k][i], g)
    <3>1. PICK f \in Frame : f = frames[k][i] /\ f.serial \in 1 .. requests /\ FrameSends(f)
      BY <1>1, <2>3 DEF SendInvariant
    <3>2. /\ Follows(f, g) /\ taken'[f.serial] = taken[f.serial]
          /\ \A p \in Plugins : Has(Queue(p)', f.serial) => Has(Queue(p), f.serial)
      BY <1>2, <1>3, <2>3, <3>1
    <3>3. FrameSends(g)'
      BY <3>1, <3>2, FrameStillSends
    <3> QED
      BY <2>1, <3>3 DEF FrameSends, Within
  <2> QED
    BY <1>9, <2>1, <2>2, <2>3
<1>10. \A n \in 1 .. requests' : Within(n, 2)'
  BY <1>8
<1> QED
  BY <1>6, <1>9, <1>10 DEF SendInvariant, Within

LEMMA NewFrameSends ==
    ASSUME NEW p \in Plugins, NEW context \in Nat
    PROVE  NewFrame(p, context).serial = requests + 1 /\ Allowed(NewFrame(p, context)) = 0
BY DEF NewFrame, Allowed, AllowedAt, Sent

LEMMA DispatchRequestSends ==
    ASSUME HostInvariant, SendInvariant, NEW c \in Callers, NEW p \in Plugins,
           NEW context \in Nat, DispatchRequest(c, p, context)
    PROVE  SendInvariant'
<1>1. PICK g : /\ g = NewFrame(p, context) /\ g.serial = requests + 1 /\ Allowed(g) = 0
  BY NewFrameSends
<1>2. /\ frames' = [frames EXCEPT ![c] = <<g>>] /\ frames \in [Callers -> Seq(Frame)]
      /\ requests' = requests + 1 /\ taken' = Append(taken, 0) /\ UNCHANGED processes
  BY <1>1 DEF DispatchRequest, HostInvariant, HostTypeOK
<1>3. frames'[c] = <<g>> /\ \A k \in Callers : k # c => frames'[k] = frames[k]
  BY <1>2
<1>4. \A f : Follows(f, f)
  BY AllowedIsSmall DEF Follows
<1>5. ASSUME NEW k \in Callers, NEW i \in DOMAIN frames'[k]
      PROVE  \/ i \in DOMAIN frames[k] /\ Follows(frames[k][i], frames'[k][i])
             \/ frames'[k][i].serial = requests + 1 /\ Allowed(frames'[k][i]) = 0
  <2>1. CASE k = c
    <3>1. frames'[k][i] = g
      BY <1>3, <1>5, <2>1
    <3> QED
      BY <1>1, <3>1
  <2>2. CASE k # c
    <3>1. frames'[k] = frames[k]
      BY <1>3, <2>2
    <3> QED
      BY <1>4, <1>5, <3>1
  <2> QED
    BY <2>1, <2>2
<1> QED
  BY <1>2, <1>5, NewSends

LEMMA RefuseRequestSends ==
    ASSUME HostInvariant, SendInvariant, NEW c \in Callers, NEW p \in Plugins,
           NEW context, RefuseRequest(c, p, context)
    PROVE  SendInvariant'
<1>1. /\ requests' = requests + 1 /\ taken' = Append(taken, 0) /\ UNCHANGED <<frames, processes>>
  BY DEF RefuseRequest
<1>2. \A k \in Callers : \A i \in DOMAIN frames'[k] :
          i \in DOMAIN frames[k] /\ Follows(frames[k][i], frames'[k][i])
  BY <1>1, SameFollow DEF FramesFollow
<1> QED
  BY <1>1, <1>2, NewSends

LEMMA ReplayEventSends ==
    ASSUME HostInvariant, SendInvariant, NEW c \in Callers, NEW p \in Plugins, ReplayEvent(c, p)
    PROVE  SendInvariant'
<1>1. PICK g \in Frame : /\ g = NewFrame(p, Background) /\ g.serial = requests + 1
                         /\ Allowed(g) = 0
  BY NewFrameSends, NewFrameIsFrame DEF HostInvariant, Background
<1>2. /\ Busy(c) /\ Top(c).stage = "callback"
      /\ frames' = [frames EXCEPT ![c] =
             Append(SubSeq(@, 1, Len(@) - 1) \o <<[Top(c) EXCEPT !.stage = "result"]>>, g)]
      /\ requests' = requests + 1 /\ taken' = Append(taken, 0) /\ UNCHANGED processes
  BY <1>1 DEF ReplayEvent, At
<1>3. /\ \A k \in Callers : k # c => frames'[k] = frames[k]
      /\ \A i \in DOMAIN frames[c] :
             i # Len(frames[c]) => frames'[c][i] = frames[c][i]
      /\ DOMAIN frames'[c] = DOMAIN frames[c] \cup {Len(frames[c]) + 1}
      /\ Len(frames[c]) \in DOMAIN frames[c]
      /\ frames'[c][Len(frames[c]) + 1] = g
      /\ frames'[c][Len(frames[c])].plugin = Top(c).plugin
      /\ frames'[c][Len(frames[c])].serial = Top(c).serial
      /\ frames'[c][Len(frames[c])].stage = "result"
      /\ frames'[c][Len(frames[c])].phase = Top(c).phase
  BY <1>2, PushedShape
<1>4. \A f : Follows(f, f)
  BY AllowedIsSmall DEF Follows
<1>5. PICK f, h : f = Top(c) /\ f = frames[c][Len(frames[c])] /\ h = frames'[c][Len(frames[c])]
  BY DEF Top
<1>6. Follows(f, h)
  <2>1. f.stage = "callback" /\ h.stage = "result" /\ h.phase = f.phase
    BY <1>2, <1>3, <1>5
  <2>2. Allowed(f) <= Allowed(h) /\ h.stage \in Sent
    BY <2>1 DEF Allowed, AllowedAt, Sent
  <2> QED
    BY <1>3, <1>5, <2>2 DEF Follows
<1>7. ASSUME NEW k \in Callers, NEW i \in DOMAIN frames'[k]
      PROVE  \/ i \in DOMAIN frames[k] /\ Follows(frames[k][i], frames'[k][i])
             \/ frames'[k][i].serial = requests + 1 /\ Allowed(frames'[k][i]) = 0
  <2>1. CASE k = c /\ i = Len(frames[c]) + 1
    <3>1. frames'[k][i] = g
      BY <1>3, <2>1
    <3> QED
      BY <1>1, <3>1
  <2>2. CASE k = c /\ i = Len(frames[c])
    <3>1. i \in DOMAIN frames[k] /\ frames[k][i] = f /\ frames'[k][i] = h
      BY <1>3, <1>5, <2>2
    <3> QED
      BY <1>6, <3>1
  <2>3. CASE k # c \/ (i # Len(frames[c]) /\ i # Len(frames[c]) + 1)
    <3>1. i \in DOMAIN frames[k] /\ frames'[k][i] = frames[k][i]
      BY <1>3, <1>7, <2>3
    <3> QED
      BY <1>4, <3>1
  <2> QED
    BY <2>1, <2>2, <2>3
<1> QED
  BY <1>2, <1>7, NewSends

\* The process begins with a request: one less is unread, one more begun.
LEMMA TakeSends ==
    ASSUME HostInvariant, SendInvariant, NEW p \in Plugins, Take(p)
    PROVE  SendInvariant'
<1>1. PICK x \in Process : x = processes[p] /\ x # NoProcess
  BY ProcessThere DEF Take, Alive
<1>2. PICK serving : serving = Served(x)
  OBVIOUS
<1>3. PICK v : v = TakenBy(x)
  OBVIOUS
<1>4. /\ x.stdin # <<>> /\ processes' = [processes EXCEPT ![p] = v]
      /\ taken' = [n \in DOMAIN taken |-> taken[n] + IF n = serving THEN 1 ELSE 0]
      /\ UNCHANGED <<frames, requests>>
  BY <1>1, <1>2, <1>3 DEF Take, Becomes, TakenBy, Served
<1>5. PICK s, t :
          s \in Seq(Input) /\ s = x.stdin /\ t = v.stdin /\ t = Tail(s) /\ s # <<>>
  BY <1>3, <1>4 DEF Process, TakenBy
<1>6. /\ requests \in Nat /\ taken \in [1 .. requests -> Nat]
      /\ \A k \in Callers : \A i \in DOMAIN frames[k] :
             frames[k][i] \in Frame /\ frames[k][i].serial \in 1 .. requests
  BY DEF HostInvariant, HostTypeOK, FramesOK, FrameOK
<1>7. \A n \in 1 .. requests : /\ n # serving => taken'[n] = taken[n]
                               /\ n = serving => taken'[n] = taken[n] + 1
  BY <1>4, <1>6
<1>8. Queue(p) = s /\ Once(s)
  BY <1>1, <1>5 DEF Queue, Unread, SendInvariant, QueuesOK
<1>9. Queue(p)' = Unread(v) /\ \A q \in Plugins : Fewer(Queue(q)', Queue(q))
  <2>1. Fewer(Unread(v), Queue(p))
    BY <1>5, <1>8, TailFewer, EmptyHasNone DEF Unread
  <2> QED
    BY <1>4, <2>1, QueueOne
<1>10. \A q \in Plugins : \A n \in Nat : Has(Queue(q)', n) => Has(Queue(q), n)
  BY <1>9 DEF Fewer
<1>11. QueuesOK'
  BY <1>4, <1>6, <1>9, QueuesStay DEF SendInvariant
<1>12. CASE Head(s).kind # "request"
  <2>1. serving = 0
    BY <1>2, <1>5, <1>12 DEF Served
  <2>2. taken' = taken
    <3>1. \A n \in DOMAIN taken : taken[n] + (IF n = serving THEN 1 ELSE 0) = taken[n]
      BY <1>6, <2>1
    <3> QED
      BY <1>4, <1>6, <3>1
  <2> QED
    BY <1>4, <1>9, <2>2, SameFollow, SendStays
<1>13. CASE Head(s).kind = "request"
  <2>1. serving \in Nat /\ IsRequest(Head(s), serving)
    <3>1. Head(s) \in Input
      BY <1>5
    <3> QED
      BY <1>2, <1>5, <1>13, <3>1 DEF Served, Input, IsRequest
  <2>2. Has(s, serving) /\ ~Has(Tail(s), serving)
    BY <1>5, <1>8, <2>1, TailFewer
  <2>3. ~Has(Queue(p)', serving)
    BY <1>5, <1>9, <2>1, <2>2, EmptyHasNone DEF Unread
  <2>4. \A q \in Plugins : ~Has(Queue(q)', serving)
    BY <1>8, <1>10, <2>1, <2>2, <2>3 DEF SendInvariant, QueuesOK
  <2>5. ASSUME NEW b \in Nat, Within(serving, b), serving \in 1 .. requests
        PROVE  Within(serving, b)'
    <3>1. taken[serving] < b /\ taken[serving] \in Nat
      BY <1>6, <1>8, <2>2, <2>5 DEF Within
    <3>2. taken'[serving] <= b
      BY <1>7, <2>5, <3>1
    <3> QED
      BY <2>4, <3>2 DEF Within
  <2>6. ASSUME NEW n \in 1 .. requests'
        PROVE  Within(n, 2)'
    <3>1. n \in 1 .. requests /\ n \in Nat /\ Within(n, 2)
      BY <1>4, <1>6, <2>6 DEF SendInvariant
    <3>2. CASE n = serving
      BY <2>5, <3>1, <3>2
    <3>3. CASE n # serving
      BY <1>6, <1>7, <1>10, <3>1, <3>3, StillWithin
    <3> QED
      BY <3>2, <3>3
  <2>7. ASSUME NEW k \in Callers, NEW i \in DOMAIN frames[k]
        PROVE  FrameSends(frames[k][i])'
    <3>1. PICK f \in Frame : f = frames[k][i] /\ f.serial \in 1 .. requests /\ FrameSends(f)
      BY <1>6, <2>7 DEF SendInvariant
    <3>2. CASE f.serial = serving
      <4>1. PICK b \in Nat : b = Allowed(f)
        BY AllowedIsSmall
      <4>2. Within(serving, b)'
        BY <2>5, <3>1, <3>2, <4>1 DEF FrameSends
      <4>3. Within(f.serial, Allowed(f))'
        BY <3>2, <4>1, <4>2 DEF Within
      <4> QED
        BY <1>4, <2>4, <3>1, <3>2, <4>3 DEF FrameSends, Within
    <3>3. CASE f.serial # serving
      <4>1. Follows(f, f)
        BY AllowedIsSmall DEF Follows
      <4>2. f.serial \in Nat /\ taken'[f.serial] = taken[f.serial]
        BY <1>6, <1>7, <3>1, <3>3
      <4>3. \A q \in Plugins : Has(Queue(q)', f.serial) => Has(Queue(q), f.serial)
        BY <1>10, <4>2
      <4>4. FrameSends(f)'
        BY <3>1, <4>1, <4>2, <4>3, FrameStillSends
      <4> QED
        BY <1>4, <3>1, <4>4 DEF FrameSends, Within
    <3> QED
      BY <3>2, <3>3
  <2>8. /\ \A n \in 1 .. requests' : Within(n, 2)'
        /\ \A k \in Callers : \A i \in DOMAIN frames'[k] : FrameSends(frames[k][i])'
    BY <1>4, <2>6, <2>7
  <2> QED
    BY <1>11, <2>8 DEF SendInvariant, Within
<1> QED
  BY <1>12, <1>13

\* Any other change of one process leaves it as many requests at the most.
LEMMA ChangedSends ==
    ASSUME HostInvariant, SendInvariant, NEW p \in Plugins, NEW x, x = processes[p],
           x # NoProcess, NEW v, processes' = [processes EXCEPT ![p] = v],
           Fewer(v.stdin, x.stdin), UNCHANGED <<frames, taken, requests>>
    PROVE  SendInvariant'
<1>1. Fewer(Unread(v), Queue(p))
  BY EmptyHasNone DEF Unread, Queue
<1> QED
  BY <1>1, QueueOne, SameFollow, SendStays

LEMMA ProcessStepSends ==
    ASSUME HostInvariant, SendInvariant, NEW p \in Plugins, ProcessStep(p)
    PROVE  SendInvariant'
<1>1. PICK x \in Process : x = processes[p] /\ x # NoProcess
  <2>1. processes[p] # NoProcess
    BY DEF ProcessStep, Greet, Take, AskBack, TakeResult, Answer, Noise, StopReading,
       ReadAgain, Die, KilledByContext, Alive
  <2> QED
    BY <2>1, ProcessThere
<1>2. CASE Take(p)
  BY <1>2, TakeSends
<1>3. CASE \/ Greet(p) \/ AskBack(p) \/ (\E status \in Status : Answer(p, status)) \/ Noise(p)
           \/ StopReading(p) \/ ReadAgain(p)
  <2>1. PICK v : /\ processes' = [processes EXCEPT ![p] = v] /\ v.stdin = x.stdin
                 /\ UNCHANGED <<frames, taken, requests>>
    <3>1. CASE Greet(p)
      BY <1>1, <3>1 DEF Greet, Becomes, Process
    <3>2. CASE AskBack(p)
      BY <1>1, <3>2 DEF AskBack, Becomes, Process
    <3>3. CASE \E status \in Status : Answer(p, status)
      BY <1>1, <3>3 DEF Answer, Becomes, Process
    <3>4. CASE Noise(p)
      BY <1>1, <3>4 DEF Noise, Becomes, Process
    <3>5. CASE StopReading(p) \/ ReadAgain(p)
      BY <1>1, <3>5 DEF StopReading, ReadAgain, Becomes, Process
    <3> QED
      BY <1>3, <3>1, <3>2, <3>3, <3>4, <3>5
  <2> QED
    BY <1>1, <2>1, SameFewer, ChangedSends
<1>4. CASE TakeResult(p)
  <2>1. PICK v : v = [x EXCEPT !.waiting = FALSE, !.stdin = Tail(@)]
    OBVIOUS
  <2>2. /\ x.stdin # <<>> /\ processes' = [processes EXCEPT ![p] = v]
        /\ UNCHANGED <<frames, taken, requests>>
    BY <1>1, <1>4, <2>1 DEF TakeResult, Becomes
  <2>3. v.stdin = Tail(x.stdin) /\ x.stdin \in Seq(Input)
    BY <2>1 DEF Process
  <2>4. Fewer(v.stdin, x.stdin)
    BY <2>2, <2>3, TailFewer
  <2> QED
    BY <1>1, <2>2, <2>4, ChangedSends
<1>5. CASE Die(p) \/ KilledByContext(p)
  <2>1. PICK v : v = Dead(x)
    OBVIOUS
  <2>2. /\ processes' = [processes EXCEPT ![p] = v] /\ UNCHANGED <<frames, taken, requests>>
    BY <1>1, <1>5, <2>1 DEF Die, KilledByContext, Becomes
  <2>3. v.stdin = <<>>
    BY <2>1 DEF Process, Dead
  <2> QED
    BY <1>1, <2>2, <2>3, EmptyHasNone, ChangedSends
<1> QED
  BY <1>2, <1>3, <1>4, <1>5 DEF ProcessStep

LEMMA StealSends ==
    ASSUME HostInvariant, SendInvariant, NEW p \in Plugins, Steal(p)
    PROVE  SendInvariant'
<1>1. PICK x \in Process : x = processes[p] /\ x # NoProcess
  BY ProcessThere DEF Steal
<1>2. PICK v : v = [x EXCEPT !.thieves = @ - 1, !.stdout = Tail(@)]
  OBVIOUS
<1>3. /\ processes' = [processes EXCEPT ![p] = v] /\ UNCHANGED <<frames, taken, requests>>
  BY <1>1, <1>2 DEF Steal, Becomes
<1>4. v.stdin = x.stdin
  BY <1>2 DEF Process
<1> QED
  BY <1>1, <1>3, <1>4, SameFewer, ChangedSends

LEMMA LateReaderSends ==
    ASSUME HostInvariant, SendInvariant, NEW p \in Plugins, LateReader(p)
    PROVE  SendInvariant'
<1>1. UNCHANGED <<frames, taken, requests>>
  BY DEF LateReader, history
<1>2. CASE processes[p] = NoProcess
  BY <1>1, <1>2, SameQueues, SameFollow, SendStays DEF LateReader
<1>3. CASE processes[p] # NoProcess
  <2>1. PICK x \in Process : x = processes[p] /\ x # NoProcess
    BY <1>3, ProcessThere
  <2>2. PICK v : v = [x EXCEPT !.thieves = @ + 1]
    OBVIOUS
  <2>3. processes' = [processes EXCEPT ![p] = v] /\ v.stdin = x.stdin
    BY <1>3, <2>1, <2>2 DEF LateReader, Process
  <2> QED
    BY <1>1, <2>1, <2>3, SameFewer, ChangedSends
<1> QED
  BY <1>2, <1>3

LEMMA CloseSends ==
    ASSUME HostInvariant, SendInvariant, NEW h \in Hosts, Close(h)
    PROVE  SendInvariant'
<1>1. /\ UNCHANGED <<frames, taken, requests>>
      /\ processes' = [p \in Plugins |-> IF Route[p] = h THEN NoProcess ELSE processes[p]]
  BY DEF Close, hostForPlugin, history
<1>2. ASSUME NEW q \in Plugins
      PROVE  Fewer(Queue(q)', Queue(q))
  <2>1. CASE Route[q] = h
    <3>1. Queue(q)' = <<>>
      BY <1>1, <2>1 DEF Queue, Unread
    <3> QED
      BY <3>1, EmptyHasNone
  <2>2. CASE Route[q] # h
    <3>1. Queue(q)' = Queue(q)
      BY <1>1, <2>2 DEF Queue
    <3> QED
      BY <3>1, SameFewer
  <2> QED
    BY <2>1, <2>2
<1> QED
  BY <1>1, <1>2, SameFollow, SendStays

LEMMA SendInitially == HostInit => SendInvariant
<1> SUFFICES ASSUME HostInit PROVE SendInvariant
  OBVIOUS
<1>1. \A p \in Plugins : Queue(p) = <<>>
  BY DEF HostInit, Queue, Unread
<1>2. Once(<<>>)
  BY DEF Once
<1>3. QueuesOK
  BY <1>1, <1>2, EmptyHasNone DEF QueuesOK
<1>4. 1 .. requests = {} /\ \A c \in Callers : DOMAIN frames[c] = {}
  BY DEF HostInit
<1> QED
  BY <1>3, <1>4 DEF SendInvariant

LEMMA SameSends ==
    ASSUME HostInvariant, SendInvariant, UNCHANGED <<frames, processes, taken, requests>>
    PROVE  SendInvariant'
BY SameQueues, SameFollow, SendStays

LEMMA HostStepSends ==
    ASSUME HostInvariant, SendInvariant, NEW c \in Callers, HostStep(c)
    PROVE  SendInvariant'
BY ReuseSends, StartFailsSends, StartSends, performHandshakeSends, HandshakeFailsSends,
   WriteRequestSends, WriteFailsSends, ReadAnswerSends, ReadCallbackSends, ReadEOFSends,
   ReadNoiseSends, ReadTimeoutSends, ReplayEventSends, handleCallbackSends,
   writeCallbackResultSends DEF HostStep

LEMMA HostNextSends ==
    ASSUME HostInvariant, SendInvariant, [HostNext]_hostVars
    PROVE  SendInvariant'
<1>1. CASE UNCHANGED hostVars
  BY <1>1, SameSends DEF hostVars, history
<1>2. ASSUME NEW c \in Callers, NEW p \in Plugins, NEW context \in {Background, requests + 1},
             DispatchRequest(c, p, context) \/ RefuseRequest(c, p, context)
      PROVE  SendInvariant'
  <2>1. context \in Nat
    BY DEF HostInvariant, HostTypeOK, Background
  <2> QED
    BY <1>2, <2>1, DispatchRequestSends, RefuseRequestSends
<1>3. ASSUME NEW c \in Callers, Lock(c) \/ HostStep(c)
      PROVE  SendInvariant'
  BY <1>3, LockSends, HostStepSends
<1>4. ASSUME NEW c \in Callers, ClientLeaves(c)
      PROVE  SendInvariant'
  BY <1>4, SameSends DEF ClientLeaves, history
<1>5. ASSUME NEW p \in Plugins, WindowPasses(p)
      PROVE  SendInvariant'
  BY <1>5, SameSends DEF WindowPasses, history
<1>6. ASSUME NEW p \in Plugins, ProcessStep(p) \/ LateReader(p) \/ Steal(p)
      PROVE  SendInvariant'
  BY <1>6, ProcessStepSends, LateReaderSends, StealSends
<1>7. ASSUME NEW h \in Hosts, Close(h)
      PROVE  SendInvariant'
  BY <1>7, CloseSends
<1> QED
  BY <1>1, <1>2, <1>3, <1>4, <1>5, <1>6, <1>7 DEF HostNext

\* Whatever the plugins write: no request is in two stdins, or twice in one,
\* and with what was begun of it there are two at the most, one before the
\* plugin was started again for it.
THEOREM SendInvariantHolds == Host => []SendInvariant
<1>1. HostInvariant /\ SendInvariant /\ [HostNext]_hostVars => SendInvariant'
  BY HostNextSends
<1> QED
  BY <1>1, SendInitially, HostInvariantHolds, PTL DEF Host

\* What a process works on, if its plugin writes no other lines, is the
\* request of a dispatch that waits for it.
LEMMA ServedIsWaitedFor ==
    ASSUME TalkInvariant, NEW p \in Plugins, NEW x \in Process, x = processes[p],
           x # NoProcess, x.serving # 0, ~x.noisy
    PROVE  \E stage \in Talking : Speaks(p, stage, x.serving)
<1>1. Talk(p) /\ x.serving \in Nat
  BY DEF TalkInvariant, Process
<1>2. ~Fits(x, "write", 0)
  BY DEF Fits, Talking, AtRest, Idle
<1>3. PICK n \in Nat, stage \in Talking : Speaks(p, stage, n)
  BY <1>1, <1>2 DEF Talk
<1>4. Fits(x, stage, n)
  BY <1>1, <1>3 DEF Talk
<1>5. CASE stage = "handshake"
  BY <1>4, <1>5 DEF Fits, Greeting, Idle
<1>6. CASE stage = "read"
  <2>1. x.serving = n
    BY <1>4, <1>6 DEF Fits, Reading, Idle
  <2> QED
    BY <1>3, <2>1
<1>7. CASE stage \in {"callback", "result"}
  <2>1. x.serving = n
    BY <1>4, <1>7 DEF Fits, Called, Idle
  <2> QED
    BY <1>3, <2>1
<1> QED
  BY <1>3, <1>5, <1>6, <1>7 DEF Talking

LEMMA TwiceAtMost ==
    ASSUME HostInvariant, TalkInvariant, SendInvariant
    PROVE  HandledAtMostTwice
<1>1. \A n \in DOMAIN taken : taken[n] <= 2
  <2>1. DOMAIN taken = 1 .. requests
    BY DEF HostInvariant, HostTypeOK
  <2> QED
    BY <2>1 DEF SendInvariant, Within
<1>2. ASSUME NEW p \in Plugins, processes[p] # NoProcess, processes[p].serving # 0,
             ~processes[p].noisy
      PROVE  \E c \in Callers : \E i \in DOMAIN frames[c] :
                 frames[c][i].plugin = p /\ frames[c][i].serial = processes[p].serving
  <2>1. PICK x \in Process : x = processes[p]
    BY <1>2, ProcessThere
  <2>2. \E stage \in Talking : Speaks(p, stage, x.serving)
    BY <1>2, <2>1, ServedIsWaitedFor
  <2> QED
    BY <2>1, <2>2 DEF Speaks
<1> QED
  BY <1>1, <1>2 DEF HandledAtMostTwice

\* However a request is sent again, it is begun twice at the most, and only a
\* process that a dispatch waits for works on it.
THEOREM RequestsHandledTwice == Host => []HandledAtMostTwice
<1>1. HostInvariant /\ TalkInvariant /\ SendInvariant => HandledAtMostTwice
  BY TwiceAtMost
<1> QED
  BY <1>1, TalkInvariantHolds, SendInvariantHolds, PTL

-----------------------------------------------------------------------------
(* The configs *)

\* What the normalisation adds to a config: the objects it makes, and the defaults.
MadeIn(schema, config) == {p \in Reached(schema, config) : Made(schema, config, p)}
FilledIn(schema, config) == {p \in Reached(schema, config) : Filled(schema, config, p)}

Completed(schema, config, sent) ==
    /\ sent = [p \in DOMAIN sent |-> sent[p]]
    /\ DOMAIN sent = DOMAIN config \cup MadeIn(schema, config) \cup FilledIn(schema, config)
    /\ \A p \in DOMAIN config : sent[p] = config[p]
    /\ \A p \in MadeIn(schema, config) : p \notin DOMAIN config /\ sent[p] = Object
    /\ \A p \in FilledIn(schema, config) :
           p \notin DOMAIN config /\ sent[p] \in subprocessConfigLeafDefaultValue(schema[p])

LEMMA WithDefaultsGives ==
    ASSUME NEW schema, NEW config, NEW sent, sent = WithDefaults(schema, config)
    PROVE  Completed(schema, config, sent)
<1> DEFINE M == MadeIn(schema, config)
           F == FilledIn(schema, config)
<1>1. sent = [p \in DOMAIN config \cup M \cup F |->
                 IF p \in DOMAIN config THEN config[p]
                 ELSE IF p \in M THEN Object
                 ELSE CHOOSE v \in subprocessConfigLeafDefaultValue(schema[p]) : TRUE]
  BY DEF WithDefaults, MadeIn, FilledIn
<1>2. \A p \in M : p \notin DOMAIN config /\ Len(p) = 3
  BY DEF MadeIn, Made
<1>3. \A p \in F : /\ p \notin DOMAIN config /\ Len(p) >= 4
                   /\ subprocessConfigLeafDefaultValue(schema[p]) # {}
  BY DEF FilledIn, Filled
<1> HIDE DEF M, F
<1>4. ASSUME NEW p \in F, p \in M
      PROVE  FALSE
  <2>1. Len(p) = 3 /\ Len(p) >= 4
    BY <1>2, <1>3, <1>4
  <2> QED
    BY <2>1
<1>5. DOMAIN sent = DOMAIN config \cup M \cup F /\ sent = [p \in DOMAIN sent |-> sent[p]]
  BY <1>1
<1>6. \A p \in DOMAIN config : sent[p] = config[p]
  BY <1>1
<1>7. \A p \in M : sent[p] = Object
  BY <1>1, <1>2
<1>8. ASSUME NEW p \in F
      PROVE  sent[p] \in subprocessConfigLeafDefaultValue(schema[p])
  <2>1. sent[p] = CHOOSE v \in subprocessConfigLeafDefaultValue(schema[p]) : TRUE
    BY <1>1, <1>3, <1>4
  <2>2. subprocessConfigLeafDefaultValue(schema[p]) # {}
    BY <1>3
  <2> HIDE DEF subprocessConfigLeafDefaultValue
  <2> QED
    BY <2>1, <2>2
<1> QED
  BY <1>2, <1>3, <1>5, <1>6, <1>7, <1>8 DEF M, F, Completed

\* What is added opens no object that was not entered before, and closes none.
LEMMA EnteredSame ==
    ASSUME NEW schema, NEW config, NEW sent, sent = WithDefaults(schema, config), NEW q
    PROVE  Entered(schema, sent, q) <=> Entered(schema, config, q)
<1> DEFINE M == MadeIn(schema, config)
           F == FilledIn(schema, config)
           There(c, r) == r \in DOMAIN c /\ c[r] = Object
<1>1. /\ DOMAIN sent = DOMAIN config \cup M \cup F
      /\ \A p \in DOMAIN config : sent[p] = config[p]
      /\ \A p \in M : p \notin DOMAIN config /\ sent[p] = Object
      /\ \A p \in F : p \notin DOMAIN config
  <2>1. Completed(schema, config, sent)
    BY WithDefaultsGives
  <2> QED
    BY <2>1 DEF Completed
<1>2. \A p \in M : Made(schema, config, p)
  BY DEF MadeIn
<1>3. \A p \in F : Len(p) >= 4 /\ ~IsObjectSchema(schema[p])
  BY DEF FilledIn, Filled, subprocessConfigLeafDefaultValue
<1> HIDE DEF M, F
<1>4. ASSUME NEW r, IsObjectSchema(schema[r])
      PROVE  There(sent, r) \/ Made(schema, sent, r) <=> There(config, r) \/ Made(schema, config, r)
  <2>1. CASE r \in DOMAIN config
    <3>1. ~Made(schema, sent, r) /\ ~Made(schema, config, r)
      BY <1>1, <2>1 DEF Made
    <3> QED
      BY <1>1, <2>1, <3>1
  <2>2. CASE r \notin DOMAIN config /\ r \in M
    BY <1>1, <1>2, <2>2
  <2>3. CASE r \notin DOMAIN config /\ r \notin M
    <3>1. r \notin DOMAIN sent
      BY <1>1, <1>3, <1>4, <2>3
    <3> QED
      BY <1>4, <2>3, <3>1 DEF Made
  <2> QED
    BY <2>1, <2>2, <2>3
<1> HIDE DEF There
<1>5. \A c : Entered(schema, c, q) <=>
          \A i \in 1 .. Len(q) : /\ IsObjectSchema(schema[SubSeq(q, 1, i)])
                                 /\ There(c, SubSeq(q, 1, i)) \/ Made(schema, c, SubSeq(q, 1, i))
  BY Zenon DEF Entered, There
<1> QED
  BY <1>4, <1>5, Zenon

LEMMA ReachedSame ==
    ASSUME NEW schema, NEW config
    PROVE  Reached(schema, WithDefaults(schema, config)) = Reached(schema, config)
BY EnteredSame, Zenon DEF Reached

\* Whatever could be added has been.
LEMMA NothingToAdd ==
    ASSUME NEW schema, NEW config, NEW sent, sent = WithDefaults(schema, config)
    PROVE  MadeIn(schema, sent) = {} /\ FilledIn(schema, sent) = {}
<1>1. DOMAIN sent = DOMAIN config \cup MadeIn(schema, config) \cup FilledIn(schema, config)
  <2>1. Completed(schema, config, sent)
    BY WithDefaultsGives
  <2> QED
    BY <2>1 DEF Completed
<1>2. Reached(schema, sent) = Reached(schema, config)
  BY ReachedSame
<1>3. ASSUME NEW p \in Reached(schema, sent)
      PROVE  ~Made(schema, sent, p)
  BY <1>1, <1>2, <1>3 DEF Made, MadeIn
<1>4. ASSUME NEW p \in Reached(schema, sent)
      PROVE  ~Filled(schema, sent, p)
  BY <1>1, <1>2, <1>4 DEF Filled, FilledIn
<1> QED
  BY <1>3, <1>4 DEF MadeIn, FilledIn

\* To normalise a config that has been normalised changes nothing.
LEMMA NormalisedOnce ==
    ASSUME NEW schema, NEW config
    PROVE  WithDefaults(schema, WithDefaults(schema, config)) = WithDefaults(schema, config)
<1>1. PICK sent : sent = WithDefaults(schema, config)
  OBVIOUS
<1>2. PICK again : again = WithDefaults(schema, sent)
  OBVIOUS
<1>3. MadeIn(schema, sent) = {} /\ FilledIn(schema, sent) = {}
  BY <1>1, NothingToAdd
<1>4. Completed(schema, config, sent) /\ Completed(schema, sent, again)
  BY <1>1, <1>2, WithDefaultsGives
<1>5. /\ sent = [p \in DOMAIN sent |-> sent[p]]
      /\ again = [p \in DOMAIN again |-> again[p]]
      /\ DOMAIN again = DOMAIN sent
      /\ \A p \in DOMAIN sent : again[p] = sent[p]
  BY <1>3, <1>4 DEF Completed
<1>6. again = sent
  BY <1>5
<1> QED
  BY <1>1, <1>2, <1>6

\* A config that fits still does when it is complete.
LEMMA CompletedFits ==
    ASSUME NEW schema, NEW config, InstanceConfigFits(schema, config),
           NEW sent, sent = WithDefaults(schema, config)
    PROVE  InstanceConfigFits(schema, sent)
<1>1. /\ DOMAIN sent = DOMAIN config \cup MadeIn(schema, config) \cup FilledIn(schema, config)
      /\ \A p \in DOMAIN config : sent[p] = config[p]
      /\ \A p \in MadeIn(schema, config) : sent[p] = Object
      /\ \A p \in FilledIn(schema, config) :
             sent[p] \in subprocessConfigLeafDefaultValue(schema[p])
  <2>1. Completed(schema, config, sent)
    BY WithDefaultsGives
  <2> QED
    BY <2>1 DEF Completed
<1>2. Reached(schema, sent) = Reached(schema, config)
  BY ReachedSame
<1>3. ASSUME NEW p \in Reached(schema, sent)
      PROVE  /\ ~InstanceConfigMissing(schema, sent, p)
             /\ ~InstanceConfigMistyped(schema, sent, p)
             /\ ~InstanceConfigOutOfEnum(schema, sent, p)
  <2>1. /\ ~InstanceConfigMissing(schema, config, p)
        /\ ~InstanceConfigMistyped(schema, config, p)
        /\ ~InstanceConfigOutOfEnum(schema, config, p)
        /\ p \in Reached(schema, config)
    BY <1>2, <1>3 DEF InstanceConfigFits
  <2>2. CASE p \in DOMAIN config
    <3>1. p \in DOMAIN sent /\ sent[p] = config[p]
      BY <1>1, <2>2
    <3> QED
      BY <2>1, <2>2, <3>1 DEF InstanceConfigMissing, InstanceConfigMistyped,
         InstanceConfigOutOfEnum
  <2>3. CASE p \in MadeIn(schema, config)
    <3>1. p \in DOMAIN sent /\ sent[p] = Object /\ IsObjectSchema(schema[p])
      BY <1>1, <2>3 DEF MadeIn, Made
    <3> QED
      BY <3>1 DEF InstanceConfigMissing, InstanceConfigMistyped, InstanceConfigOutOfEnum
  <2>4. CASE p \in FilledIn(schema, config)
    <3>1. p \in DOMAIN sent /\ sent[p] \in subprocessConfigLeafDefaultValue(schema[p])
      BY <1>1, <2>4
    <3>2. PICK v : v = sent[p]
      OBVIOUS
    <3>3. /\ ~IsObjectSchema(schema[p])
          /\ subprocessConfigValueMatchesDeclaredType(schema[p].type, v)
          /\ schema[p].enum # <<>> => subprocessConfigEnumContainsDefault(schema[p], v)
      BY <3>1, <3>2, Zenon DEF subprocessConfigLeafDefaultValue
    <3> QED
      BY <3>1, <3>2, <3>3, Zenon DEF InstanceConfigMissing, InstanceConfigMistyped,
         InstanceConfigOutOfEnum
  <2>5. CASE p \notin DOMAIN sent
    <3>1. p \notin DOMAIN config /\ ~Filled(schema, config, p)
      BY <1>1, <2>1, <2>5 DEF FilledIn
    <3>2. ~InstanceConfigMissing(schema, sent, p)
      BY <2>1, <3>1 DEF InstanceConfigMissing
    <3> QED
      BY <2>5, <3>2 DEF InstanceConfigMistyped, InstanceConfigOutOfEnum
  <2> QED
    BY <1>1, <2>2, <2>3, <2>4, <2>5
<1> QED
  BY <1>3 DEF InstanceConfigFits

\* What ConfigsSound says of a property.
AsDeclared(schema, sent, p) ==
    /\ Len(p) > 2 \/ ~IsObjectSchema(schema[p]) => TypeDeclared(schema, sent, p)
    /\ Len(p) > 2 /\ ~IsObjectSchema(schema[p]) /\ schema[p].enum # <<{}>> =>
           EnumDeclared(schema, sent, p)
    /\ Len(p) \in {1, 3} \/ (Len(p) > 3 /\ ~IsObjectSchema(schema[p])) =>
           RequiredPresent(schema, sent, p)

\* What a config that fits, and is complete, has of what the schema declares.
LEMMA FitsDeclared ==
    ASSUME NEW schema, IsConfigSchema(schema), NEW sent, InstanceConfigFits(schema, sent),
           FilledIn(schema, sent) = {}, NEW p \in Reached(schema, sent)
    PROVE  AsDeclared(schema, sent, p)
<1>1. /\ ~InstanceConfigMissing(schema, sent, p)
      /\ ~InstanceConfigMistyped(schema, sent, p)
      /\ ~InstanceConfigOutOfEnum(schema, sent, p)
  BY DEF InstanceConfigFits
<1>2. p \in DOMAIN schema /\ p \in Seq(STRING) /\ Len(p) \in Nat
  BY DEF Reached, IsConfigSchema
<1>3. ~Filled(schema, sent, p)
  BY DEF FilledIn
<1>4. Len(p) > 2 \/ ~IsObjectSchema(schema[p]) => TypeDeclared(schema, sent, p)
  BY <1>1, <1>2 DEF InstanceConfigMistyped, TypeDeclared, Present
<1>5. ASSUME Len(p) > 2, ~IsObjectSchema(schema[p]), schema[p].enum # <<{}>>,
             Present(sent, p), schema[p].enum # <<>>
      PROVE  \E e \in schema[p].enum[1] :
                 subprocessConfigValuesEqual(schema[p].type, e, sent[p])
  <2>1. schema[p].enum[1] # {}
    BY <1>2, <1>5 DEF IsConfigSchema
  <2>2. Len(p) >= 3
    BY <1>2, <1>5
  <2>3. subprocessConfigEnumContainsDefault(schema[p], sent[p])
    BY <1>1, <1>5, <2>1, <2>2, Zenon DEF InstanceConfigOutOfEnum, Present
  <2> QED
    BY <2>3, Zenon DEF subprocessConfigEnumContainsDefault
<1>6. Len(p) \in {1, 3} \/ (Len(p) > 3 /\ ~IsObjectSchema(schema[p])) =>
          RequiredPresent(schema, sent, p)
  BY <1>1, <1>2, <1>3 DEF InstanceConfigMissing, RequiredPresent, Present
<1>7. Len(p) > 2 /\ ~IsObjectSchema(schema[p]) /\ schema[p].enum # <<{}>> =>
          EnumDeclared(schema, sent, p)
  BY <1>5, Zenon DEF EnumDeclared
<1> QED
  BY <1>4, <1>6, <1>7 DEF AsDeclared

\* What is asked of a host is asked for a plugin that passes.
Passes(p) == p \in Plugins /\ evaluatePluginCompatibilityPreflight(definition[p])

ConfigInvariant ==
    /\ definition \in Definitions
    /\ \A c \in Callers : \A i \in DOMAIN frames[c] : Passes(frames[c][i].plugin)

\* No dispatch there is goes to another plugin than before, or is new and passes.
PluginsStay ==
    \A k \in Callers : \A i \in DOMAIN frames'[k] :
        \/ i \in DOMAIN frames[k] /\ frames'[k][i].plugin = frames[k][i].plugin
        \/ Passes(frames'[k][i].plugin)

LEMMA ConfigsStay ==
    ASSUME ConfigInvariant, PluginsStay, UNCHANGED definition
    PROVE  ConfigInvariant'
BY DEF ConfigInvariant, PluginsStay, Passes

LEMMA SamePlugins ==
    ASSUME UNCHANGED frames
    PROVE  PluginsStay
BY DEF PluginsStay

LEMMA MovedPlugins ==
    ASSUME HostInvariant, NEW c \in Callers, Busy(c), NEW stage \in Stages, NEW phase \in Phases,
           Moved(c, stage, phase)
    PROVE  PluginsStay
<1>1. /\ \A k \in Callers : DOMAIN frames'[k] = DOMAIN frames[k]
      /\ \A k \in Callers : \A i \in DOMAIN frames[k] :
             k # c \/ i # Len(frames[c]) => frames'[k][i] = frames[k][i]
      /\ frames'[c][Len(frames[c])].plugin = Top(c).plugin
  BY MovedShape
<1>2. Top(c).plugin = frames[c][Len(frames[c])].plugin
  BY DEF Top
<1>3. ASSUME NEW k \in Callers, NEW i \in DOMAIN frames'[k]
      PROVE  i \in DOMAIN frames[k] /\ frames'[k][i].plugin = frames[k][i].plugin
  <2>1. i \in DOMAIN frames[k]
    BY <1>1, <1>3
  <2>2. CASE k = c /\ i = Len(frames[c])
    BY <1>1, <1>2, <2>1, <2>2
  <2>3. CASE k # c \/ i # Len(frames[c])
    BY <1>1, <2>1, <2>3
  <2> QED
    BY <2>2, <2>3
<1> QED
  BY <1>3 DEF PluginsStay

LEMMA GotoPlugins ==
    ASSUME HostInvariant, NEW c \in Callers, Busy(c), NEW stage \in Stages, Goto(c, stage)
    PROVE  PluginsStay
<1>1. Top(c).phase \in Phases
  BY TopIn DEF HostInvariant, Frame
<1> QED
  BY <1>1, GotoMoves, MovedPlugins

LEMMA RestartPlugins ==
    ASSUME HostInvariant, NEW c \in Callers, Busy(c), NEW phase \in Phases, Restart(c, phase)
    PROVE  PluginsStay
<1>1. Moved(c, "ensure", phase) /\ "ensure" \in Stages
  BY RestartMoves DEF Stages
<1> QED
  BY <1>1, MovedPlugins

LEMMA ReturnPlugins ==
    ASSUME HostInvariant, NEW c \in Callers, Busy(c), NEW ok, NEW line, NEW noisy,
           Return(c, ok, line, noisy)
    PROVE  PluginsStay
<1>1. Left(c)
  BY DEF Return, Left
<1>2. \A k \in Callers : \A i \in DOMAIN frames'[k] :
          i \in DOMAIN frames[k] /\ frames'[k][i] = frames[k][i]
  BY <1>1, LeftShape
<1> QED
  BY <1>2 DEF PluginsStay

LEMMA FailPlugins ==
    ASSUME HostInvariant, NEW c \in Callers, Busy(c), Fail(c)
    PROVE  PluginsStay
BY ReturnPlugins DEF Fail

\* A replay is asked of the host of a plugin that passes.
LEMMA ReplayPlugins ==
    ASSUME HostInvariant, NEW c \in Callers, NEW p \in Plugins, ReplayEvent(c, p)
    PROVE  PluginsStay
<1>1. Busy(c) /\ Passes(p)
  BY DEF ReplayEvent, At, Passes
<1>2. PICK g \in Frame : g = NewFrame(p, Background) /\ g.plugin = p
  <2>1. Background \in Nat
    BY DEF Background
  <2>2. NewFrame(p, Background) \in Frame /\ NewFrame(p, Background).plugin = p
    BY <2>1, NewFrameIsFrame DEF HostInvariant, NewFrame
  <2> QED
    BY <2>2
<1>3. /\ \A k \in Callers : k # c => frames'[k] = frames[k]
      /\ \A i \in DOMAIN frames[c] : i # Len(frames[c]) => frames'[c][i] = frames[c][i]
      /\ DOMAIN frames'[c] = DOMAIN frames[c] \cup {Len(frames[c]) + 1}
      /\ frames'[c][Len(frames[c]) + 1] = g
      /\ frames'[c][Len(frames[c])].plugin = Top(c).plugin
  <2>1. frames' = [frames EXCEPT ![c] =
               Append(SubSeq(@, 1, Len(@) - 1) \o <<[Top(c) EXCEPT !.stage = "result"]>>, g)]
    BY <1>2 DEF ReplayEvent
  <2> QED
    BY <1>1, <2>1, PushedShape
<1>4. Top(c).plugin = frames[c][Len(frames[c])].plugin
  BY DEF Top
<1>5. ASSUME NEW k \in Callers, NEW i \in DOMAIN frames'[k]
      PROVE  \/ i \in DOMAIN frames[k] /\ frames'[k][i].plugin = frames[k][i].plugin
             \/ Passes(frames'[k][i].plugin)
  <2>1. CASE k # c
    BY <1>3, <1>5, <2>1
  <2>2. CASE k = c /\ i = Len(frames[c]) + 1
    BY <1>1, <1>2, <1>3, <2>2
  <2>3. CASE k = c /\ i # Len(frames[c]) + 1
    <3>1. i \in DOMAIN frames[c]
      BY <1>3, <1>5, <2>3
    <3>2. CASE i = Len(frames[c])
      BY <1>3, <1>4, <2>3, <3>1, <3>2
    <3>3. CASE i # Len(frames[c])
      BY <1>3, <2>3, <3>1, <3>3
    <3> QED
      BY <3>2, <3>3
  <2> QED
    BY <2>1, <2>2, <2>3
<1> QED
  BY <1>5 DEF PluginsStay

LEMMA HostStepPlugins ==
    ASSUME HostInvariant, NEW c \in Callers, HostStep(c)
    PROVE  PluginsStay
<1>1. Busy(c) /\ {"afterWrite", "afterRead", "afterCrash"} \subseteq Phases
  BY DEF HostStep, Reuse, StartFails, Start, performHandshake, HandshakeFails, WriteRequest,
     WriteFails, ReadAnswer, ReadCallback, ReadEOF, ReadNoise, ReadTimeout, ReplayEvent,
     handleCallback, writeCallbackResult, At, Phases
<1>2. \/ \E stage \in Stages : Goto(c, stage)
      \/ \E phase \in Phases : Restart(c, phase)
      \/ Fail(c) \/ ReadAnswer(c)
      \/ \E p \in Plugins : ReplayEvent(c, p)
  <2>1. Stages = {"queued", "ensure", "handshake", "write", "read", "callback", "result"}
    BY DEF Stages
  <2> QED
    BY <1>1, <2>1 DEF HostStep, Reuse, StartFails, Start, performHandshake, HandshakeFails,
       WriteRequest, WriteFails, ReadCallback, ReadEOF, ReadNoise, ReadTimeout,
       handleCallback, writeCallbackResult
<1>3. CASE ReadAnswer(c)
  <2>1. \E ok, line, noisy : Return(c, ok, line, noisy)
    BY <1>3 DEF ReadAnswer
  <2> QED
    BY <1>1, <2>1, ReturnPlugins
<1> QED
  BY <1>1, <1>2, <1>3, GotoPlugins, RestartPlugins, FailPlugins, ReplayPlugins

LEMMA DispatchPlugins ==
    ASSUME HostInvariant, NEW c \in Callers, NEW p \in Plugins, NEW context,
           DispatchRequest(c, p, context)
    PROVE  PluginsStay
<1>1. frames \in [Callers -> Seq(Frame)]
  BY DEF HostInvariant, HostTypeOK
<1>2. PICK g : g = NewFrame(p, context) /\ g.plugin = p
  <2>1. NewFrame(p, context).plugin = p
    BY DEF NewFrame
  <2> QED
    BY <2>1
<1>3. frames'[c] = <<g>> /\ \A k \in Callers : k # c => frames'[k] = frames[k]
  BY <1>1, <1>2 DEF DispatchRequest
<1>4. Passes(p)
  BY DEF DispatchRequest, Passes
<1>5. ASSUME NEW i \in DOMAIN frames'[c]
      PROVE  Passes(frames'[c][i].plugin)
  <2>1. i = 1 /\ frames'[c][i] = g
    BY <1>3, <1>5
  <2> QED
    BY <1>2, <1>4, <2>1
<1> QED
  BY <1>3, <1>5 DEF PluginsStay

LEMMA HostNextConfigs ==
    ASSUME HostInvariant, ConfigInvariant, [HostNext]_hostVars
    PROVE  ConfigInvariant'
<1>1. UNCHANGED definition
  <2>1. ASSUME NEW c \in Callers, HostStep(c)
        PROVE  UNCHANGED definition
    BY <2>1 DEF HostStep, Reuse, StartFails, Start, performHandshake, HandshakeFails,
       WriteRequest, WriteFails, ReadAnswer, ReadCallback, ReadEOF, ReadNoise, ReadTimeout,
       ReplayEvent, handleCallback, writeCallbackResult, Return, Fail, Restart
  <2>2. ASSUME NEW c \in Callers, NEW p \in Plugins, NEW context,
               DispatchRequest(c, p, context) \/ RefuseRequest(c, p, context)
        PROVE  UNCHANGED definition
    BY <2>2 DEF DispatchRequest, RefuseRequest
  <2>3. ASSUME NEW p \in Plugins, ProcessStep(p) \/ WindowPasses(p) \/ LateReader(p) \/ Steal(p)
        PROVE  UNCHANGED definition
    BY <2>3 DEF ProcessStep, Greet, Take, AskBack, TakeResult, Answer, Noise, StopReading,
       ReadAgain, Die, KilledByContext, Becomes, WindowPasses, LateReader, Steal
  <2>4. ASSUME NEW c \in Callers, Lock(c) \/ ClientLeaves(c)
        PROVE  UNCHANGED definition
    BY <2>4 DEF Lock, ClientLeaves
  <2> QED
    BY <2>1, <2>2, <2>3, <2>4 DEF HostNext, hostVars, Close
<1>2. PluginsStay
  <2>1. CASE UNCHANGED hostVars
    BY <2>1, SamePlugins DEF hostVars
  <2>2. ASSUME NEW c \in Callers, NEW p \in Plugins, NEW context \in {Background, requests + 1},
               DispatchRequest(c, p, context) \/ RefuseRequest(c, p, context)
        PROVE  PluginsStay
    BY <2>2, DispatchPlugins, SamePlugins DEF RefuseRequest
  <2>3. ASSUME NEW c \in Callers, Lock(c)
        PROVE  PluginsStay
    BY <2>3, GotoPlugins DEF Lock, At, Stages
  <2>4. ASSUME NEW c \in Callers, HostStep(c)
        PROVE  PluginsStay
    BY <2>4, HostStepPlugins
  <2>5. ASSUME NEW c \in Callers, ClientLeaves(c)
        PROVE  PluginsStay
    BY <2>5, SamePlugins DEF ClientLeaves
  <2>6. ASSUME NEW p \in Plugins, ProcessStep(p) \/ WindowPasses(p) \/ LateReader(p) \/ Steal(p)
        PROVE  PluginsStay
    <3>1. UNCHANGED frames
      BY <2>6 DEF ProcessStep, Greet, Take, AskBack, TakeResult, Answer, Noise, StopReading,
         ReadAgain, Die, KilledByContext, Becomes, WindowPasses, LateReader, Steal
    <3> QED
      BY <3>1, SamePlugins
  <2>7. ASSUME NEW h \in Hosts, Close(h)
        PROVE  PluginsStay
    BY <2>7, SamePlugins DEF Close
  <2> QED
    BY <2>1, <2>2, <2>3, <2>4, <2>5, <2>6, <2>7 DEF HostNext
<1> QED
  BY <1>1, <1>2, ConfigsStay

\* What ConfigsSound says of a plugin's config, and what it takes to say the rest.
Complete(def, schema, sent) ==
    /\ \A p \in DOMAIN def.config : p \in DOMAIN sent /\ sent[p] = def.config[p]
    /\ InstanceConfigFits(schema, sent)
    /\ WithDefaults(schema, sent) = sent
    /\ IsConfigSchema(schema)
    /\ FilledIn(schema, sent) = {}

\* A plugin that passes is sent a complete config.
LEMMA PassedIsSound ==
    ASSUME NEW d \in Definitions, NEW q \in Plugins, NEW def, def = d[q],
           evaluatePluginCompatibilityPreflight(def),
           NEW sent, sent = normalizeSubprocessInstanceConfig(def.manifest, def.config),
           NEW schema \in def.manifest.schema
    PROVE  Complete(def, schema, sent)
<1>1. IsConfigSchema(schema) /\ \A s \in def.manifest.schema : s = schema
  BY DefinitionsAssumption
<1>2. PICK config : config = def.config
  OBVIOUS
<1>3. sent = WithDefaults(schema, config)
  <2>1. (CHOOSE s \in def.manifest.schema : TRUE) = schema
    BY <1>1
  <2> QED
    BY <1>2, <2>1 DEF normalizeSubprocessInstanceConfig
<1>4. InstanceConfigFits(schema, config)
  BY <1>2 DEF evaluatePluginCompatibilityPreflight
<1>5. Completed(schema, config, sent)
  BY <1>3, WithDefaultsGives
<1>6. \A p \in DOMAIN config : p \in DOMAIN sent /\ sent[p] = config[p]
  BY <1>5 DEF Completed
<1>7. InstanceConfigFits(schema, sent)
  BY <1>3, <1>4, CompletedFits
<1>8. WithDefaults(schema, sent) = sent
  BY <1>3, NormalisedOnce
<1>9. FilledIn(schema, sent) = {}
  BY <1>3, NothingToAdd
<1> QED
  BY <1>1, <1>2, <1>6, <1>7, <1>8, <1>9 DEF Complete

LEMMA SentIsSound ==
    ASSUME ConfigInvariant
    PROVE  ConfigsSound
<1> SUFFICES ASSUME NEW c \in Callers, NEW i \in DOMAIN frames[c],
                    NEW def, def = definition[frames[c][i].plugin],
                    NEW sent, sent = normalizeSubprocessInstanceConfig(def.manifest, def.config),
                    NEW schema \in def.manifest.schema
             PROVE  /\ \A p \in DOMAIN def.config : p \in DOMAIN sent /\ sent[p] = def.config[p]
                    /\ InstanceConfigFits(schema, sent)
                    /\ WithDefaults(schema, sent) = sent
                    /\ \A p \in Reached(schema, sent) : AsDeclared(schema, sent, p)
  BY Zenon DEF ConfigsSound, AsDeclared
<1>1. PICK q \in Plugins : q = frames[c][i].plugin /\ evaluatePluginCompatibilityPreflight(def)
  BY DEF ConfigInvariant, Passes
<1>2. definition \in Definitions /\ def = definition[q]
  BY <1>1 DEF ConfigInvariant
<1>3. Complete(def, schema, sent)
  BY <1>1, <1>2, PassedIsSound
<1>4. \A p \in Reached(schema, sent) : AsDeclared(schema, sent, p)
  <2>1. IsConfigSchema(schema) /\ InstanceConfigFits(schema, sent) /\ FilledIn(schema, sent) = {}
    BY <1>3 DEF Complete
  <2> QED
    BY <2>1, FitsDeclared, Zenon
<1> QED
  BY <1>3, <1>4, Zenon DEF Complete

\* For any schemas and configs: what a process is sent has all that was given,
\* needs nothing more, and holds what the schema declares, where it is enforced.
THEOREM ConfigsAreSound == Host => []ConfigsSound
<1>1. HostInit => ConfigInvariant
  BY DEF HostInit, ConfigInvariant
<1>2. HostInvariant /\ ConfigInvariant /\ [HostNext]_hostVars => ConfigInvariant'
  BY HostNextConfigs
<1>3. ConfigInvariant => ConfigsSound
  BY SentIsSound
<1> QED
  BY <1>1, <1>2, <1>3, HostInvariantHolds, PTL DEF Host

-----------------------------------------------------------------------------
(* Who waits for whom *)

\* A goroutine stands at the mutex of the host its innermost dispatch goes to.
Queued(c) == Busy(c) /\ Top(c).stage = "queued"
Wanted(c) == Route[Top(c).plugin]

\* No goroutines wait for each other's mutexes in a circle, or one for its own.
NoCircle ==
    \A waiting \in SUBSET Callers : waiting # {} =>
        \E c \in waiting : ~(Queued(c) /\ lock[Wanted(c)] \in waiting)

\* A dispatch within another is that of an event, within one of an admin plugin.
Nested(c) ==
    \A i, j \in DOMAIN frames[c] :
        i < j => frames[c][i].plugin \in Admin /\ frames[c][j].plugin \in EventPlugins

\* A mutex is held by a goroutine with a dispatch that is past it.
PastAt(c, i, h) == frames[c][i].stage # "queued" /\ Route[frames[c][i].plugin] = h
Past(c, h) == \E i \in DOMAIN frames[c] : PastAt(c, i, h)
Held(h) == lock[h] # Free => Past(lock[h], h)

NestInvariant == (\A c \in Callers : Nested(c)) /\ (\A h \in Hosts : Held(h))

LEMMA SameNest ==
    ASSUME NestInvariant, UNCHANGED <<frames, lock>>
    PROVE  NestInvariant'
BY DEF NestInvariant, Nested, Held, Past, PastAt

\* Dispatches that go on nest as they did, and are past what they were past.
LEMMA MovedNests ==
    ASSUME HostInvariant, NestInvariant, NEW c \in Callers, Busy(c), NEW stage \in Stages,
           NEW phase \in Phases, Moved(c, stage, phase), stage # "queued",
           NEW h0, h0 = Route[Top(c).plugin]
    PROVE  /\ \A k \in Callers : Nested(k)'
           /\ \A k \in Callers, h \in Hosts : Past(k, h) => Past(k, h)'
           /\ Past(c, h0)'
<1>1. /\ \A k \in Callers : DOMAIN frames'[k] = DOMAIN frames[k]
      /\ \A k \in Callers : \A i \in DOMAIN frames[k] :
             k # c \/ i # Len(frames[c]) => frames'[k][i] = frames[k][i]
      /\ Len(frames[c]) \in DOMAIN frames[c]
      /\ frames'[c][Len(frames[c])].plugin = Top(c).plugin
      /\ frames'[c][Len(frames[c])].stage = stage
  BY MovedShape
<1>2. PICK n : n = Len(frames[c]) /\ Top(c) = frames[c][n]
  BY DEF Top
<1>3. ASSUME NEW k \in Callers, NEW i \in DOMAIN frames[k]
      PROVE  /\ i \in DOMAIN frames'[k] /\ frames'[k][i].plugin = frames[k][i].plugin
             /\ frames[k][i].stage # "queued" => frames'[k][i].stage # "queued"
  <2>1. CASE k = c /\ i = n
    BY <1>1, <1>2, <2>1
  <2>2. CASE k # c \/ i # n
    <3>1. frames'[k][i] = frames[k][i]
      BY <1>1, <1>2, <2>2
    <3> QED
      BY <1>1, <3>1
  <2> QED
    BY <2>1, <2>2
<1>4. \A k \in Callers : Nested(k)'
  BY <1>1, <1>3 DEF NestInvariant, Nested
<1>5. \A k \in Callers, h \in Hosts : Past(k, h) => Past(k, h)'
  BY <1>3 DEF Past, PastAt
<1>6. Past(c, h0)'
  <2>1. n \in DOMAIN frames'[c] /\ frames'[c][n].stage # "queued" /\ Route[frames'[c][n].plugin] = h0
    BY <1>1, <1>2
  <2> QED
    BY <2>1 DEF Past, PastAt
<1> QED
  BY <1>4, <1>5, <1>6

\* The locks are those that were held, and their holders still are past them.
LEMMA SameLocksNest ==
    ASSUME HostInvariant, NestInvariant, UNCHANGED lock, \A k \in Callers : Nested(k)',
           \A k \in Callers, h \in Hosts : Past(k, h) => Past(k, h)'
    PROVE  NestInvariant'
<1>1. ASSUME NEW h \in Hosts
      PROVE  Held(h)'
  <2>1. CASE lock[h] = Free
    BY <2>1 DEF Held
  <2>2. CASE lock[h] # Free
    <3>1. PICK k \in Callers : k = lock[h]
      BY <2>2 DEF HostInvariant, HostTypeOK
    <3>2. Past(k, h)'
      BY <2>2, <3>1 DEF NestInvariant, Held
    <3> QED
      BY <3>1, <3>2 DEF Held, Past, PastAt
  <2> QED
    BY <2>1, <2>2
<1> QED
  BY <1>1 DEF NestInvariant

LEMMA GoneOnNests ==
    ASSUME HostInvariant, NestInvariant, NEW c \in Callers, Busy(c), NEW stage \in Stages,
           NEW phase \in Phases, Moved(c, stage, phase), stage # "queued", UNCHANGED lock
    PROVE  NestInvariant'
BY MovedNests, SameLocksNest

LEMMA LockNests ==
    ASSUME HostInvariant, NestInvariant, NEW c \in Callers, Lock(c)
    PROVE  NestInvariant'
<1>1. /\ Busy(c) /\ Goto(c, "ensure") /\ "ensure" \in Stages /\ Top(c).phase \in Phases
      /\ Top(c).plugin \in Plugins
  BY TopIn DEF Lock, At, Stages, HostInvariant, Frame
<1>2. PICK h0 \in Hosts : h0 = Route[Top(c).plugin]
  BY <1>1, RouteAssumption
<1>3. /\ \A k \in Callers : Nested(k)'
      /\ \A k \in Callers, h \in Hosts : Past(k, h) => Past(k, h)'
      /\ Past(c, h0)'
  <2>1. Moved(c, "ensure", Top(c).phase)
    BY <1>1, GotoMoves
  <2> QED
    BY <1>1, <1>2, <2>1, MovedNests
<1>4. lock' = [lock EXCEPT ![h0] = c] /\ lock \in [Hosts -> Callers \cup {Free}]
  BY <1>2 DEF Lock, hostForPlugin, HostInvariant, HostTypeOK
<1>5. ASSUME NEW h \in Hosts
      PROVE  Held(h)'
  <2>1. CASE h = h0
    <3>1. lock'[h] = c
      BY <1>4, <2>1
    <3> QED
      BY <1>3, <2>1, <3>1 DEF Held, Past, PastAt
  <2>2. CASE h # h0 /\ lock[h] = Free
    BY <1>4, <2>2 DEF Held
  <2>3. CASE h # h0 /\ lock[h] # Free
    <3>1. PICK k \in Callers : k = lock[h] /\ k = lock'[h]
      BY <1>4, <2>3
    <3>2. Past(k, h)'
      BY <1>3, <2>3, <3>1 DEF NestInvariant, Held
    <3> QED
      BY <3>1, <3>2 DEF Held, Past, PastAt
  <2> QED
    BY <2>1, <2>2, <2>3
<1> QED
  BY <1>3, <1>5 DEF NestInvariant

\* A dispatch that returns leaves its mutex free, and no other holder.
LEMMA ReturnNests ==
    ASSUME HostInvariant, NestInvariant, NEW c \in Callers, Busy(c), NEW ok, NEW line, NEW noisy,
           Return(c, ok, line, noisy)
    PROVE  NestInvariant'
<1>1. Left(c)
  BY DEF Return, Left
<1>2. /\ \A k \in Callers : \A i \in DOMAIN frames'[k] :
             i \in DOMAIN frames[k] /\ frames'[k][i] = frames[k][i]
      /\ \A k \in Callers : \A i \in DOMAIN frames[k] :
             k # c \/ i # Len(frames[c]) => i \in DOMAIN frames'[k]
  BY <1>1, LeftShape
<1>3. \A k \in Callers : Nested(k)'
  BY <1>2 DEF NestInvariant, Nested
<1>4. PICK h0 \in Hosts : h0 = Route[Top(c).plugin]
  BY TopIn, RouteAssumption DEF HostInvariant, Frame
<1>5. lock' = [lock EXCEPT ![h0] = Free] /\ lock \in [Hosts -> Callers \cup {Free}]
  BY <1>4 DEF Return, hostForPlugin, HostInvariant, HostTypeOK
<1>6. ASSUME NEW h \in Hosts
      PROVE  Held(h)'
  <2>1. CASE h = h0 \/ lock[h] = Free
    <3>1. lock'[h] = Free
      BY <1>5, <2>1
    <3> QED
      BY <3>1 DEF Held
  <2>2. CASE h # h0 /\ lock[h] # Free
    <3>1. PICK k \in Callers : k = lock[h] /\ k = lock'[h]
      BY <1>5, <2>2
    <3>2. PICK i \in DOMAIN frames[k] : PastAt(k, i, h)
      BY <2>2, <3>1 DEF NestInvariant, Held, Past
    <3>3. k # c \/ i # Len(frames[c])
      BY <1>4, <2>2, <3>2 DEF PastAt, Top
    <3>4. i \in DOMAIN frames'[k] /\ frames'[k][i] = frames[k][i]
      BY <1>2, <3>3
    <3>5. Past(k, h)'
      BY <3>2, <3>4 DEF Past, PastAt
    <3> QED
      BY <3>1, <3>5 DEF Held, Past, PastAt
  <2> QED
    BY <2>1, <2>2
<1> QED
  BY <1>3, <1>6 DEF NestInvariant

\* Only an admin plugin's dispatch has another within, and that is of an event.
LEMMA ReplayNests ==
    ASSUME HostInvariant, NestInvariant, NEW c \in Callers, NEW p \in Plugins, ReplayEvent(c, p)
    PROVE  NestInvariant'
<1>1. Busy(c) /\ p \in EventPlugins /\ Top(c).plugin \in Admin /\ UNCHANGED lock
  BY DEF ReplayEvent, At
<1>2. PICK g \in Frame : g = NewFrame(p, Background) /\ g.plugin = p
  <2>1. Background \in Nat
    BY DEF Background
  <2>2. NewFrame(p, Background) \in Frame /\ NewFrame(p, Background).plugin = p
    BY <2>1, NewFrameIsFrame DEF HostInvariant, NewFrame
  <2> QED
    BY <2>2
<1>3. PICK n \in Nat : n = Len(frames[c]) /\ Top(c) = frames[c][n] /\ DOMAIN frames[c] = 1 .. n
  BY <1>1, TopIn DEF HostInvariant, Top
<1>4. /\ \A k \in Callers : k # c => frames'[k] = frames[k]
      /\ \A i \in DOMAIN frames[c] : i # n => frames'[c][i] = frames[c][i]
      /\ DOMAIN frames'[c] = DOMAIN frames[c] \cup {n + 1}
      /\ n \in DOMAIN frames[c] /\ n + 1 \notin DOMAIN frames[c]
      /\ frames'[c][n + 1] = g
      /\ frames'[c][n].plugin = Top(c).plugin
      /\ frames'[c][n].stage = "result"
  <2>1. frames' = [frames EXCEPT ![c] =
               Append(SubSeq(@, 1, Len(@) - 1) \o <<[Top(c) EXCEPT !.stage = "result"]>>, g)]
    BY <1>2 DEF ReplayEvent
  <2>2. /\ \A k \in Callers : k # c => frames'[k] = frames[k]
        /\ \A i \in DOMAIN frames[c] :
               i # Len(frames[c]) => frames'[c][i] = frames[c][i]
        /\ DOMAIN frames'[c] = DOMAIN frames[c] \cup {Len(frames[c]) + 1}
        /\ Len(frames[c]) \in DOMAIN frames[c]
        /\ Len(frames[c]) + 1 \notin DOMAIN frames[c]
        /\ frames'[c][Len(frames[c]) + 1] = g
        /\ frames'[c][Len(frames[c])].plugin = Top(c).plugin
        /\ frames'[c][Len(frames[c])].stage = "result"
    BY <1>1, <2>1, PushedShape
  <2> QED
    BY <1>3, <2>2
<1>5. \A i \in DOMAIN frames[c] : frames'[c][i].plugin = frames[c][i].plugin
  <2>1. ASSUME NEW i \in DOMAIN frames[c]
        PROVE  frames'[c][i].plugin = frames[c][i].plugin
    <3>1. CASE i = n
      BY <1>3, <1>4, <3>1
    <3>2. CASE i # n
      BY <1>4, <3>2
    <3> QED
      BY <3>1, <3>2
  <2> QED
    BY <2>1
<1>6. ASSUME NEW k \in Callers
      PROVE  Nested(k)'
  <2>1. CASE k # c
    BY <1>4, <2>1 DEF NestInvariant, Nested
  <2>2. CASE k = c
    <3>1. ASSUME NEW i \in DOMAIN frames'[c], NEW j \in DOMAIN frames'[c], i < j
          PROVE  frames'[c][i].plugin \in Admin /\ frames'[c][j].plugin \in EventPlugins
      <4>1. i \in DOMAIN frames[c] /\ i \in 1 .. n
        BY <1>3, <1>4, <3>1
      <4>2. CASE j = n + 1
        <5>1. frames'[c][j].plugin \in EventPlugins
          BY <1>1, <1>2, <1>4, <4>2
        <5>2. CASE i = n
          BY <1>1, <1>4, <5>1, <5>2
        <5>3. CASE i # n
          <6>1. i < n
            BY <1>3, <4>1, <5>3
          <6>2. frames[c][i].plugin \in Admin
            BY <1>4, <4>1, <6>1 DEF NestInvariant, Nested
          <6> QED
            BY <1>5, <4>1, <5>1, <6>2
        <5> QED
          BY <5>2, <5>3
      <4>3. CASE j # n + 1
        <5>1. j \in DOMAIN frames[c]
          BY <1>4, <3>1, <4>3
        <5>2. frames[c][i].plugin \in Admin /\ frames[c][j].plugin \in EventPlugins
          BY <3>1, <4>1, <5>1 DEF NestInvariant, Nested
        <5> QED
          BY <1>5, <4>1, <5>1, <5>2
      <4> QED
        BY <4>2, <4>3
    <3> QED
      BY <2>2, <3>1 DEF Nested
  <2> QED
    BY <2>1, <2>2
<1>7. ASSUME NEW k \in Callers, NEW h \in Hosts, Past(k, h)
      PROVE  Past(k, h)'
  <2>1. CASE k # c
    BY <1>4, <1>7, <2>1 DEF Past, PastAt
  <2>2. CASE k = c
    <3>1. PICK i \in DOMAIN frames[c] : PastAt(c, i, h)
      BY <1>7, <2>2 DEF Past
    <3>2. i \in DOMAIN frames'[c] /\ frames'[c][i].plugin = frames[c][i].plugin
      BY <1>4, <1>5
    <3>3. frames'[c][i].stage # "queued"
      <4>1. CASE i = n
        BY <1>4, <4>1
      <4>2. CASE i # n
        BY <1>4, <3>1, <4>2 DEF PastAt
      <4> QED
        BY <4>1, <4>2
    <3> QED
      BY <2>2, <3>1, <3>2, <3>3 DEF Past, PastAt
  <2> QED
    BY <2>1, <2>2
<1> QED
  BY <1>1, <1>6, <1>7, SameLocksNest

LEMMA DispatchNests ==
    ASSUME HostInvariant, NestInvariant, NEW c \in Callers, NEW p \in Plugins, NEW context,
           DispatchRequest(c, p, context)
    PROVE  NestInvariant'
<1>1. frames \in [Callers -> Seq(Frame)] /\ frames[c] = <<>> /\ UNCHANGED lock
  BY DEF HostInvariant, HostTypeOK, DispatchRequest, Busy
<1>2. PICK g : frames' = [frames EXCEPT ![c] = <<g>>]
  BY DEF DispatchRequest
<1>3. frames'[c] = <<g>> /\ \A k \in Callers : k # c => frames'[k] = frames[k]
  BY <1>1, <1>2
<1>4. ASSUME NEW k \in Callers
      PROVE  Nested(k)'
  <2>1. CASE k # c
    BY <1>3, <2>1 DEF NestInvariant, Nested
  <2>2. CASE k = c
    <3>1. DOMAIN frames'[k] = {1}
      BY <1>3, <2>2
    <3> QED
      BY <3>1 DEF Nested
  <2> QED
    BY <2>1, <2>2
<1>5. ASSUME NEW k \in Callers, NEW h \in Hosts, Past(k, h)
      PROVE  Past(k, h)'
  <2>1. k # c
    BY <1>1, <1>5 DEF Past
  <2> QED
    BY <1>3, <1>5, <2>1 DEF Past, PastAt
<1> QED
  BY <1>1, <1>4, <1>5, SameLocksNest

LEMMA HostStepNests ==
    ASSUME HostInvariant, NestInvariant, NEW c \in Callers, HostStep(c)
    PROVE  NestInvariant'
<1>1. /\ Busy(c) /\ {"afterWrite", "afterRead", "afterCrash"} \subseteq Phases
      /\ Top(c).phase \in Phases
  <2>1. Busy(c)
    BY DEF HostStep, Reuse, StartFails, Start, performHandshake, HandshakeFails, WriteRequest,
       WriteFails, ReadAnswer, ReadCallback, ReadEOF, ReadNoise, ReadTimeout, ReplayEvent,
       handleCallback, writeCallbackResult, At
  <2> QED
    BY <2>1, TopIn DEF Phases, HostInvariant, Frame
<1>2. \/ \E stage \in Stages \ {"queued"} : Goto(c, stage) /\ UNCHANGED lock
      \/ \E phase \in Phases : Restart(c, phase)
      \/ Fail(c) \/ ReadAnswer(c)
      \/ \E p \in Plugins : ReplayEvent(c, p)
  <2>1. Stages \ {"queued"} = {"ensure", "handshake", "write", "read", "callback", "result"}
    BY DEF Stages
  <2> QED
    BY <1>1, <2>1 DEF HostStep, Reuse, StartFails, Start, performHandshake, HandshakeFails,
       WriteRequest, WriteFails, ReadCallback, ReadEOF, ReadNoise, ReadTimeout,
       handleCallback, writeCallbackResult
<1>3. CASE ReadAnswer(c)
  <2>1. \E ok, line, noisy : Return(c, ok, line, noisy)
    BY <1>3 DEF ReadAnswer
  <2> QED
    BY <1>1, <2>1, ReturnNests
<1>4. ASSUME NEW stage \in Stages \ {"queued"}, Goto(c, stage), UNCHANGED lock
      PROVE  NestInvariant'
  <2>1. Moved(c, stage, Top(c).phase)
    BY <1>1, <1>4, GotoMoves
  <2> QED
    BY <1>1, <1>4, <2>1, GoneOnNests
<1>5. ASSUME NEW phase \in Phases, Restart(c, phase)
      PROVE  NestInvariant'
  <2>1. Moved(c, "ensure", phase) /\ UNCHANGED lock
    BY <1>1, <1>5, RestartMoves DEF Restart
  <2> QED
    BY <1>1, <2>1, GoneOnNests DEF Stages
<1>6. CASE Fail(c)
  BY <1>1, <1>6, ReturnNests DEF Fail
<1> QED
  BY <1>2, <1>3, <1>4, <1>5, <1>6, ReplayNests

LEMMA HostNextNests ==
    ASSUME HostInvariant, NestInvariant, [HostNext]_hostVars
    PROVE  NestInvariant'
<1>1. CASE UNCHANGED hostVars
  BY <1>1, SameNest DEF hostVars
<1>2. ASSUME NEW c \in Callers, NEW p \in Plugins, NEW context \in {Background, requests + 1},
             DispatchRequest(c, p, context) \/ RefuseRequest(c, p, context)
      PROVE  NestInvariant'
  BY <1>2, DispatchNests, SameNest DEF RefuseRequest
<1>3. ASSUME NEW c \in Callers, Lock(c) \/ HostStep(c)
      PROVE  NestInvariant'
  BY <1>3, LockNests, HostStepNests
<1>4. ASSUME NEW c \in Callers, ClientLeaves(c)
      PROVE  NestInvariant'
  BY <1>4, SameNest DEF ClientLeaves
<1>5. ASSUME NEW p \in Plugins, ProcessStep(p) \/ WindowPasses(p) \/ LateReader(p) \/ Steal(p)
      PROVE  NestInvariant'
  <2>1. UNCHANGED <<frames, lock>>
    BY <1>5 DEF ProcessStep, Greet, Take, AskBack, TakeResult, Answer, Noise, StopReading,
       ReadAgain, Die, KilledByContext, Becomes, WindowPasses, LateReader, Steal
  <2> QED
    BY <2>1, SameNest
<1>6. ASSUME NEW h \in Hosts, Close(h)
      PROVE  NestInvariant'
  BY <1>6, SameNest DEF Close
<1> QED
  BY <1>1, <1>2, <1>3, <1>4, <1>5, <1>6 DEF HostNext

\* The holder of the mutex of an event plugin's host waits for nothing: a
\* circle would have to pass through one.
LEMMA NestedHasNoCircle ==
    ASSUME HostInvariant, NestInvariant
    PROVE  NoCircle
<1> SUFFICES ASSUME NEW waiting \in SUBSET Callers, waiting # {},
                    \A c \in waiting : Queued(c) /\ lock[Wanted(c)] \in waiting
             PROVE  FALSE
  BY DEF NoCircle
<1>1. ASSUME NEW c \in waiting, NEW d \in waiting, d = lock[Wanted(c)]
      PROVE  (\E a \in Admin : Wanted(c) = Route[a]) /\ (\E e \in EventPlugins : Wanted(d) = Route[e])
  <2>1. PICK h \in Hosts : h = Wanted(c)
    BY TopIn, RouteAssumption DEF Queued, Wanted, HostInvariant, Frame
  <2>2. PICK i \in DOMAIN frames[d] : PastAt(d, i, h)
    <3>1. d # Free
      BY HostNamesAssumption
    <3> QED
      BY <1>1, <2>1, <3>1 DEF NestInvariant, Held, Past
  <2>3. /\ frames[d] \in Seq(Frame) /\ Len(frames[d]) \in DOMAIN frames[d]
        /\ Top(d) = frames[d][Len(frames[d])] /\ Top(d).stage = "queued"
    BY TopIn DEF Queued, HostInvariant
  <2>4. i < Len(frames[d])
    <3>1. i # Len(frames[d])
      BY <2>2, <2>3 DEF PastAt
    <3> QED
      BY <2>2, <2>3, <3>1
  <2>5. frames[d][i].plugin \in Admin /\ Top(d).plugin \in EventPlugins
    BY <2>2, <2>3, <2>4 DEF NestInvariant, Nested
  <2> QED
    BY <2>1, <2>2, <2>5 DEF PastAt, Wanted
<1>2. PICK c \in waiting, d \in waiting, k \in waiting : d = lock[Wanted(c)] /\ k = lock[Wanted(d)]
  OBVIOUS
<1>3. PICK e \in EventPlugins : Wanted(d) = Route[e]
  BY <1>1, <1>2
<1>4. PICK a \in Admin : Wanted(d) = Route[a]
  BY <1>1, <1>2
<1> QED
  BY <1>3, <1>4, ReplayRouteAssumption

\* However many goroutines dispatch, and whatever they replay: none of them
\* wait for each other's hosts in a circle, or for a host of their own.
THEOREM NoHostsInACircle == Host => []NoCircle
<1>1. HostInit => NestInvariant
  BY DEF HostInit, NestInvariant, Nested, Held
<1>2. HostInvariant /\ NestInvariant /\ [HostNext]_hostVars => NestInvariant'
  BY HostNextNests
<1>3. HostInvariant /\ NestInvariant => NoCircle
  BY NestedHasNoCircle
<1> QED
  BY <1>1, <1>2, <1>3, HostInvariantHolds, PTL DEF Host

-----------------------------------------------------------------------------
(* The versions *)

Versions == Nat \X Nat \X Nat

Comparators == {">", ">=", "=", "<=", "<"}

\* What a range is once it is split: clauses, each with a version or none.
Clauses == [comparator: Comparators, version: Versions \cup {Malformed}]

VersionRanges == Seq(Clauses)

NoLater(v, w) == compareRuntimeVersions(v, w) <= 0

\* compareRuntimeVersions orders versions: any two are comparable, two are equal
\* exactly when it says so, and what is before is before what comes later.
LEMMA VersionsAreOrdered ==
    ASSUME NEW u \in Versions, NEW v \in Versions, NEW w \in Versions
    PROVE  /\ compareRuntimeVersions(u, v) \in Int
           /\ compareRuntimeVersions(v, u) = -compareRuntimeVersions(u, v)
           /\ compareRuntimeVersions(u, v) = 0 <=> u = v
           /\ NoLater(u, v) /\ NoLater(v, w) => NoLater(u, w)
<1>1. /\ u[1] \in Nat /\ u[2] \in Nat /\ u[3] \in Nat /\ u = <<u[1], u[2], u[3]>>
      /\ v[1] \in Nat /\ v[2] \in Nat /\ v[3] \in Nat /\ v = <<v[1], v[2], v[3]>>
      /\ w[1] \in Nat /\ w[2] \in Nat /\ w[3] \in Nat /\ w = <<w[1], w[2], w[3]>>
  BY DEF Versions
<1>2. \A a, b \in Versions : compareRuntimeVersions(a, b) = 0 <=> a = b
  <2> SUFFICES ASSUME NEW a \in Versions, NEW b \in Versions
               PROVE  compareRuntimeVersions(a, b) = 0 <=> a = b
    OBVIOUS
  <2>1. /\ a[1] \in Nat /\ a[2] \in Nat /\ a[3] \in Nat /\ a = <<a[1], a[2], a[3]>>
        /\ b[1] \in Nat /\ b[2] \in Nat /\ b[3] \in Nat /\ b = <<b[1], b[2], b[3]>>
    BY DEF Versions
  <2>2. compareRuntimeVersions(a, b) = 0 => a[1] = b[1] /\ a[2] = b[2] /\ a[3] = b[3]
    BY <2>1 DEF compareRuntimeVersions
  <2>3. a = b => compareRuntimeVersions(a, b) = 0
    BY <2>1 DEF compareRuntimeVersions
  <2> QED BY <2>1, <2>2, <2>3
<1>3. compareRuntimeVersions(u, v) \in Int
  BY <1>1 DEF compareRuntimeVersions
<1>4. compareRuntimeVersions(v, u) = -compareRuntimeVersions(u, v)
  BY <1>1 DEF compareRuntimeVersions
<1>5. NoLater(u, v) /\ NoLater(v, w) => NoLater(u, w)
  BY <1>1 DEF NoLater, compareRuntimeVersions
<1> QED BY <1>2, <1>3, <1>4, <1>5

\* A range has no holes: a plugin that runs on two versions of the runtime runs
\* on every version between them (RuntimeVersionSatisfiesRange).
THEOREM RangesAreConvex ==
    ASSUME NEW range \in VersionRanges,
           NEW u \in Versions, NEW v \in Versions, NEW w \in Versions,
           NoLater(u, v), NoLater(v, w),
           RuntimeVersionSatisfiesRange(u, range), RuntimeVersionSatisfiesRange(w, range)
    PROVE  RuntimeVersionSatisfiesRange(v, range)
<1>1. ValidateRuntimeVersionRange(range)
  BY DEF RuntimeVersionSatisfiesRange
<1>2. ASSUME NEW i \in DOMAIN range
      PROVE  runtimeVersionMatchesComparator(v, range[i].comparator, range[i].version)
  <2> PICK comparator, bound : comparator = range[i].comparator /\ bound = range[i].version
    OBVIOUS
  <2>1. bound \in Versions /\ comparator \in Comparators
    <3>1. range[i] \in Clauses
      BY DEF VersionRanges
    <3>2. range[i].version # Malformed
      BY <1>1 DEF ValidateRuntimeVersionRange
    <3> QED BY <3>1, <3>2 DEF Clauses
  <2>2. /\ runtimeVersionMatchesComparator(u, comparator, bound)
        /\ runtimeVersionMatchesComparator(w, comparator, bound)
    BY DEF RuntimeVersionSatisfiesRange
  <2>3. /\ NoLater(v, bound) => NoLater(u, bound)
        /\ NoLater(w, bound) => NoLater(v, bound)
        /\ NoLater(bound, u) => NoLater(bound, v)
        /\ NoLater(bound, v) => NoLater(bound, w)
    BY <2>1, VersionsAreOrdered
  <2>4. \A version \in {u, v, w} :
          /\ compareRuntimeVersions(version, bound) \in Int
          /\ compareRuntimeVersions(bound, version) = -compareRuntimeVersions(version, bound)
    BY <2>1, VersionsAreOrdered
  <2> PICK cu, cv, cw : /\ cu = compareRuntimeVersions(u, bound)
                        /\ cv = compareRuntimeVersions(v, bound)
                        /\ cw = compareRuntimeVersions(w, bound)
    OBVIOUS
  <2>5. /\ cu \in Int /\ cv \in Int /\ cw \in Int
        /\ cv <= 0 => cu <= 0
        /\ cw <= 0 => cv <= 0
        /\ cu >= 0 => cv >= 0
        /\ cv >= 0 => cw >= 0
    BY <2>3, <2>4 DEF NoLater
  <2> QED BY <2>1, <2>2, <2>5 DEF Comparators, runtimeVersionMatchesComparator
<1> QED BY <1>1, <1>2 DEF RuntimeVersionSatisfiesRange
=============================================================================
