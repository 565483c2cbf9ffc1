----------------------------- MODULE LogProofs -----------------------------
(***************************************************************************)
(* The log implements AtomicDisk, for every set of blocks and values and   *)
(* every log size.  IInv is the inductive invariant: it says, phase by     *)
(* phase, where the latest copy of each block is.                          *)
(***************************************************************************)
EXTENDS Log, TLAPS

Distinct(k, sec) == \A i, j \in 1..k : sec[i] = sec[j] => i = j

(* The in-memory header and the disk header name blocks, each once.        *)
HeadersOK ==
  /\ \A i \in 1..n : sector[i] \in Block
  /\ Distinct(n, sector)
  /\ \A i \in 1..hn : hsector[i] \in Block
  /\ Distinct(hn, hsector)

(* How n, tail and the two headers stand in each phase.                    *)
ControlOK ==
  /\ phase \in {"boot", "idle", "trans", "panic"} => tail = 0
  /\ phase \in {"install", "recover"} =>
       n = hn /\ tail <= n /\ \A i \in 1..n : sector[i] = hsector[i]
  /\ phase \in {"idle", "trans", "panic"} => hn = 0
  /\ phase \in {"boot", "idle", "clear", "reclear"} => n = 0

(* What has been installed is at home.                                     *)
InstalledOK ==
  /\ phase \in {"install", "recover"} =>
       \A i \in 1..tail : home[sector[i]] = logblk[i]
  /\ phase \in {"clear", "reclear"} =>
       \A i \in 1..hn : home[hsector[i]] = logblk[i]

(* A buffer is pinned exactly while its block is logged and not installed; *)
(* it then equals the log's copy, and otherwise the home block.            *)
BuffersOK ==
  /\ phase \notin {"trans", "panic", "install"} => \A b \in Block : ~dirty[b]
  /\ phase \in {"trans", "panic", "install"} =>
       \A b \in Block : dirty[b] <=> \E i \in tail + 1..n : sector[i] = b
  /\ \A b \in Block : ~dirty[b] => cache[b] \in {NoBuf, home[b]}
  /\ phase \in {"trans", "install"} =>
       \A i \in tail + 1..n : cache[sector[i]] = logblk[i]

IInv == TypeOK /\ HeadersOK /\ ControlOK /\ InstalledOK /\ BuffersOK

-----------------------------------------------------------------------------
(* The disk mkfs wrote satisfies the inductive invariant.                  *)
LEMMA InitIInv == Init => IInv
  BY LogAssumption DEF Init, IInv, TypeOK, HeadersOK, ControlOK, InstalledOK,
     BuffersOK, Distinct, Index, Recovering, Phases

(* IndexOf finds the entry that names a logged block.                      *)
LEMMA IndexOfLogged ==
  ASSUME NEW k \in Nat, NEW sec, NEW b, b \in Logged(k, sec)
  PROVE  IndexOf(b, k, sec) \in 1..k /\ sec[IndexOf(b, k, sec)] = b
<1>1. \E i \in 1..k : sec[i] = b
  BY ZenonT(30) DEF Logged
<1> QED  BY ZenonT(30), <1>1 DEF IndexOf

(* Where log_write() puts block b: at the entry that already names it, or  *)
(* after the last one when none does.                                      *)
LEMMA LogWriteIndex ==
  ASSUME TypeOK, NEW b \in Block, NEW v \in Val, log_write(b, v)
  PROVE  \E i \in 1..n + 1 :
           /\ \/ i \in 1..n /\ sector[i] = b /\ n' = n
              \/ i = n + 1 /\ n' = n + 1 /\ \A j \in 1..n : sector[j] # b
           /\ i \in Index
           /\ sector' = [sector EXCEPT ![i] = b]
           /\ logblk' = [logblk EXCEPT ![i] = v]
<1> USE LogAssumption DEF TypeOK
<1>1. n < LOGSIZE
  BY ZenonT(30) DEF log_write
<1>2. PICK i \in 1..n + 1 :
        /\ IF b \in Logged(n, sector) THEN i = IndexOf(b, n, sector)
                                      ELSE i = n + 1
        /\ sector' = [sector EXCEPT ![i] = b]
        /\ logblk' = [logblk EXCEPT ![i] = v]
        /\ n' = IF i = n + 1 THEN n + 1 ELSE n
  BY ZenonT(30) DEF log_write
<1>3. i \in Index
  BY <1>1 DEF Index
<1>4. \/ i \in 1..n /\ sector[i] = b /\ n' = n
      \/ i = n + 1 /\ n' = n + 1 /\ \A j \in 1..n : sector[j] # b
  <2>1. CASE b \in Logged(n, sector)
    <3>1. i \in 1..n /\ sector[i] = b
      BY <1>2, <2>1, IndexOfLogged
    <3> QED  BY <1>2, <3>1
  <2>2. CASE b \notin Logged(n, sector)
    BY ZenonT(30), <1>2, <2>2 DEF Logged
  <2> QED  BY ZenonT(30), <2>1, <2>2
<1> WITNESS i \in 1..n + 1
<1> QED  BY ZenonT(30), <1>2, <1>3, <1>4

(* log_write() preserves the inductive invariant.                          *)
LEMMA LogWriteStep ==
  ASSUME IInv, NEW b \in Block, NEW v \in Val, log_write(b, v)
  PROVE  IInv'
<1>1. PICK i \in 1..n + 1 :
        /\ \/ i \in 1..n /\ sector[i] = b /\ n' = n
           \/ i = n + 1 /\ n' = n + 1 /\ \A j \in 1..n : sector[j] # b
        /\ i \in Index
        /\ sector' = [sector EXCEPT ![i] = b]
        /\ logblk' = [logblk EXCEPT ![i] = v]
  BY ZenonT(30), LogWriteIndex DEF IInv
<1>2. /\ phase = "trans" /\ phase' = "trans" /\ n < LOGSIZE /\ hn = 0
      /\ tail = 0 /\ UNCHANGED <<home, hn, hsector, tail>>
      /\ cache' = [cache EXCEPT ![b] = v]
      /\ dirty' = [dirty EXCEPT ![b] = TRUE]
  BY ZenonT(30) DEF IInv, ControlOK, log_write
<1> USE LogAssumption DEF IInv, TypeOK, HeadersOK, ControlOK, InstalledOK,
        BuffersOK, Distinct, Index, Phases
<1>3. TypeOK' /\ ControlOK' /\ InstalledOK'
  BY <1>1, <1>2
<1>4. HeadersOK'
  <2>1. \A j \in 1..n' : j = i \/ (j \in 1..n /\ sector'[j] = sector[j] /\ sector[j] # b)
    BY <1>1, <1>2
  <2>2. sector'[i] = b
    BY <1>1
  <2> QED  BY <1>1, <1>2, <2>1, <2>2
<1>5. BuffersOK'
  <2>1. \A j \in 1..n' : j = i \/ (j \in 1..n /\ sector'[j] = sector[j] /\ sector[j] # b)
    BY <1>1, <1>2
  <2>2. sector'[i] = b /\ logblk'[i] = v /\ i \in 1..n'
    BY <1>1
  <2>3. \A j \in 1..n : j \in 1..n'
    BY <1>1
  <2>4. \A d \in Block : dirty'[d] <=> \E j \in tail' + 1..n' : sector'[j] = d
    <3> TAKE d \in Block
    <3>1. dirty[d] <=> \E j \in 1..n : sector[j] = d
      <4>1. dirty[d] <=> \E j \in tail + 1..n : sector[j] = d
        BY ZenonT(30), <1>2
      <4>2. tail + 1..n = 1..n
        BY <1>2
      <4> QED  BY ZenonT(30), <4>1, <4>2
    <3>2. tail' + 1..n' = 1..n'
      BY <1>2
    <3>3. CASE d = b
      BY ZenonT(30), <1>2, <2>2, <3>2, <3>3
    <3>4. CASE d # b
      <4>1. dirty'[d] = dirty[d]
        BY <1>2, <3>4
      <4>2. ASSUME NEW j \in 1..n, sector[j] = d PROVE j \in 1..n' /\ sector'[j] = d
        BY <1>1, <2>2, <2>3, <3>4, <4>2
      <4>3. ASSUME NEW j \in 1..n', sector'[j] = d PROVE j \in 1..n /\ sector[j] = d
        BY ZenonT(30), <2>1, <2>2, <3>4, <4>3
      <4> QED  BY ZenonT(30), <3>1, <3>2, <4>1, <4>2, <4>3
    <3> QED  BY ZenonT(30), <3>3, <3>4
  <2>5. \A d \in Block : ~dirty'[d] => cache'[d] \in {NoBuf, home'[d]}
    BY <1>2
  <2>6. \A j \in tail' + 1..n' : cache'[sector'[j]] = logblk'[j]
    BY <1>1, <1>2, <2>1, <2>2
  <2> QED  BY ZenonT(30), <1>2, <2>4, <2>5, <2>6
<1> QED  BY ZenonT(30), <1>3, <1>4, <1>5

(* Installing one block preserves it: the block's entry leaves the pending *)
(* ones, and being named once, no other entry is affected.                 *)
LEMMA InstallStep ==
  ASSUME IInv, install_trans
  PROVE  IInv'
<1> DEFINE t == tail + 1
<1> USE LogAssumption DEF IInv, TypeOK, HeadersOK, ControlOK, Distinct, Index
<1>1. /\ t \in 1..n /\ t \in Index /\ sector[t] \in Block
      /\ \A i \in 1..n : i # t => sector[i] # sector[t]
  BY DEF install_trans
<1>2. TypeOK' /\ HeadersOK' /\ ControlOK'
  BY <1>1 DEF install_trans
<1>3. InstalledOK'
  BY <1>1 DEF InstalledOK, install_trans
<1>4. BuffersOK'
  <2>1. \A b \in Block : dirty'[b] <=> dirty[b] /\ b # sector[t]
    BY <1>1 DEF install_trans
  <2>2. \A b \in Block : b # sector[t] => cache'[b] = cache[b] /\ home'[b] = home[b]
    BY ZenonT(30), <1>1 DEF install_trans
  <2>3. cache'[sector[t]] = home'[sector[t]]
    BY ZenonT(30), <1>1 DEF install_trans
  <2>4. \A i \in tail' + 1..n' : i \in tail + 1..n /\ i \in 1..n /\ i # t
    BY DEF install_trans
  <2>5. \A i \in tail + 1..n : i = t \/ i \in tail' + 1..n'
    BY DEF install_trans
  <2>6. \A b \in Block : ~dirty'[b] => cache'[b] \in {NoBuf, home'[b]}
    BY ZenonT(30), <1>1, <2>1, <2>2, <2>3 DEF BuffersOK
  <2>7. CASE phase = "recover"
    BY ZenonT(30), <2>1, <2>6, <2>7 DEF BuffersOK, install_trans
  <2>8. CASE phase = "install"
    <3>1. UNCHANGED <<n, sector, logblk, phase>>
      BY ZenonT(30) DEF install_trans
    <3>2. \A b \in Block : dirty[b] <=> \E i \in tail + 1..n : sector[i] = b
      BY ZenonT(30), <2>8 DEF BuffersOK
    <3>3. \A b \in Block : dirty'[b] <=> \E i \in tail' + 1..n' : sector'[i] = b
      BY <1>1, <2>1, <2>4, <2>5, <3>1, <3>2, SMTT(30)
    <3>4. \A i \in tail' + 1..n' : cache'[sector'[i]] = logblk'[i]
      BY <1>1, <2>2, <2>4, <2>8, <3>1 DEF BuffersOK
    <3> QED  BY ZenonT(30), <2>6, <2>8, <3>1, <3>3, <3>4 DEF BuffersOK
  <2> QED  BY ZenonT(30), <2>7, <2>8 DEF install_trans
<1> QED  BY ZenonT(30), <1>2, <1>3, <1>4

(* Every step of the log preserves the inductive invariant.                *)
LEMMA NextIInv == IInv /\ [Next]_vars => IInv'
<1> SUFFICES ASSUME IInv, [Next]_vars PROVE IInv'
  BY ZenonT(30)
<1> USE LogAssumption DEF IInv, TypeOK, HeadersOK, ControlOK, InstalledOK,
        BuffersOK, Distinct, Index, Recovering, Phases, disk
<1>1. CASE begin_trans
  BY <1>1 DEF begin_trans
<1>2. CASE log_write_panic
  <2>1. CASE phase = "trans"
    BY ZenonT(30), <1>2, <2>1 DEF log_write_panic
  <2>2. CASE phase = "idle"
    <3>1. tail' + 1..n' = {} /\ n' = 0 /\ tail' = 0 /\ hn' = 0
      BY <1>2, <2>2 DEF log_write_panic, disk
    <3>2. \A b \in Block : ~dirty'[b]
      BY ZenonT(30), <1>2, <2>2 DEF log_write_panic
    <3> QED  BY <1>2, <2>2, <3>1, <3>2 DEF log_write_panic
  <2> QED  BY ZenonT(30), <1>2, <2>1, <2>2 DEF log_write_panic
<1>3. CASE commit_empty
  BY <1>3 DEF commit_empty
<1>4. CASE commit_trans
  BY <1>4, SMTT(30) DEF commit_trans, write_head
<1>5. CASE install_trans
  BY ZenonT(30), <1>5, InstallStep
<1>6. CASE install_done
  BY SMTT(60), <1>6 DEF install_done
<1>7. CASE erase_log
  BY <1>7 DEF erase_log, write_head
<1>8. CASE read_head
  BY <1>8 DEF read_head
<1>9. CASE Crash
  BY SMTT(60), <1>9 DEF Crash
<1>10. ASSUME NEW b \in Block, bread(b) PROVE IInv'
  BY SMTT(60), <1>10 DEF bread
<1>11. ASSUME NEW b \in Block, recycle(b) PROVE IInv'
  <2>1. phase \in {"trans", "install"} => \A i \in tail + 1..n : sector[i] # b
    BY ZenonT(30), <1>11 DEF recycle
  <2>2. \A i \in tail + 1..n : i \in 1..n
    OBVIOUS
  <2>3. phase \in {"trans", "install"} =>
          \A i \in tail + 1..n : cache'[sector[i]] = logblk[i]
    BY ZenonT(30), <1>11, <2>1, <2>2 DEF recycle
  <2> QED  BY <1>11, <2>3, SMTT(30) DEF recycle
<1>12. ASSUME NEW b \in Block, NEW v \in Val, log_write(b, v) PROVE IInv'
  BY ZenonT(30), <1>12, LogWriteStep
<1>13. CASE UNCHANGED vars
  BY <1>13 DEF vars
<1> QED  BY ZenonT(30), <1>1, <1>2, <1>3, <1>4, <1>5, <1>6, <1>7, <1>8, <1>9, <1>10, <1>11,
           <1>12, <1>13 DEF Next

(* IInv is an invariant of the log.                                        *)
THEOREM InductiveInvariant == Spec => []IInv
  BY InitIInv, NextIInv, PTL DEF Spec

-----------------------------------------------------------------------------
(* Recovery takes a block the header names from the log...                 *)
LEMMA OverlayLogged ==
  ASSUME NEW h, NEW k \in Nat, NEW sec, NEW blk, Distinct(k, sec),
         NEW i \in 1..k, sec[i] \in Block
  PROVE  Overlay(h, k, sec, blk)[sec[i]] = blk[i]
<1>1. sec[i] \in Logged(k, sec)
  BY ZenonT(30) DEF Logged
<1>2. IndexOf(sec[i], k, sec) = i
  BY <1>1, IndexOfLogged DEF Distinct
<1> QED  BY ZenonT(30), <1>1, <1>2 DEF Overlay

(* ... and leaves any other block at home.                                 *)
LEMMA OverlayHome ==
  ASSUME NEW h, NEW k \in Nat, NEW sec, NEW blk,
         NEW b \in Block, \A i \in 1..k : sec[i] # b
  PROVE  Overlay(h, k, sec, blk)[b] = h[b]
  BY ZenonT(30) DEF Logged, Overlay

(* An empty header leaves the home blocks as they are.                     *)
LEMMA OverlayEmpty ==
  ASSUME NEW h \in [Block -> Val], NEW sec, NEW blk
  PROVE  Overlay(h, 0, sec, blk) = h
<1>1. Logged(0, sec) = {}
  BY DEF Logged
<1> QED  BY ZenonT(30), <1>1 DEF Overlay

(* A header whose blocks are all at home changes nothing.                  *)
LEMMA OverlayInstalled ==
  ASSUME NEW h \in [Block -> Val], NEW k \in Nat, NEW sec, NEW blk,
         Distinct(k, sec), \A i \in 1..k : h[sec[i]] = blk[i]
  PROVE  Overlay(h, k, sec, blk) = h
<1>1. ASSUME NEW b \in Block PROVE Overlay(h, k, sec, blk)[b] = h[b]
  <2>1. CASE \E i \in 1..k : sec[i] = b
    BY <2>1, OverlayLogged
  <2>2. CASE \A i \in 1..k : sec[i] # b
    BY <2>2, OverlayHome
  <2> QED  BY ZenonT(30), <2>1, <2>2
<1>2. Overlay(h, k, sec, blk) = [b \in Block |-> Overlay(h, k, sec, blk)[b]]
  BY ZenonT(30) DEF Overlay
<1> QED  BY ZenonT(30), <1>1, <1>2

(* Without dirty buffers, what is read is what is at home.                 *)
LEMMA ReadableClean ==
  ASSUME TypeOK, \A b \in Block : ~dirty[b],
         \A b \in Block : ~dirty[b] => cache[b] \in {NoBuf, home[b]}
  PROVE  Readable = home
  BY ZenonT(30) DEF TypeOK, Readable

(* The commit makes the recovered disk equal to what the transaction read. *)
LEMMA CommitRefines ==
  ASSUME IInv, commit_trans
  PROVE  Recovered' = Readable
<1> USE LogAssumption DEF IInv, TypeOK, HeadersOK, ControlOK
<1>1. /\ hn' = n /\ n \in Nat /\ tail = 0
      /\ hsector' = [i \in Index |-> IF i <= n THEN sector[i] ELSE hsector[i]]
      /\ UNCHANGED <<home, logblk, cache>>
  BY DEF commit_trans, write_head
<1>2. \A i \in 1..n : i \in Index /\ hsector'[i] = sector[i]
  BY <1>1 DEF Index
<1>3. Distinct(n, hsector')
  BY ZenonT(30), <1>2 DEF Distinct
<1>4. ASSUME NEW b \in Block
      PROVE  Overlay(home, n, hsector', logblk)[b] = Readable[b]
  <2>1. CASE \E i \in 1..n : sector[i] = b
    <3>1. PICK i \in 1..n : sector[i] = b
      BY ZenonT(30), <2>1
    <3>2. cache[b] = logblk[i]
      BY <1>1, <3>1 DEF BuffersOK, commit_trans
    <3>3. logblk[i] \in Val
      BY ZenonT(30), <1>2, <3>1
    <3>4. Readable[b] = logblk[i]
      BY ZenonT(30), <3>2, <3>3 DEF Readable
    <3> QED  BY SMTT(60), <1>1, <1>2, <1>3, <3>1, <3>4, OverlayLogged
  <2>2. CASE \A i \in 1..n : sector[i] # b
    <3>1. ~dirty[b]
      BY <1>1, <2>2 DEF BuffersOK, commit_trans
    <3>2. Readable[b] = home[b]
      BY ZenonT(30), <3>1 DEF BuffersOK, Readable
    <3> QED  BY <1>1, <1>2, <2>2, <3>2, OverlayHome
  <2> QED  BY ZenonT(30), <2>1, <2>2
<1>5. /\ Overlay(home, n, hsector', logblk) =
           [b \in Block |-> Overlay(home, n, hsector', logblk)[b]]
      /\ Readable = [b \in Block |-> Readable[b]]
  BY ZenonT(30) DEF Overlay, Readable
<1>6. Overlay(home, n, hsector', logblk) = Readable
  BY ZenonT(30), <1>4, <1>5
<1> QED  BY ZenonT(30), <1>1, <1>6 DEF Recovered

(* Installing a block changes neither the recovered disk nor, once system  *)
(* calls run, what they read.                                              *)
LEMMA InstallRefines ==
  ASSUME IInv, install_trans
  PROVE  Recovered' = Recovered /\ View' = View
<1> DEFINE t == tail + 1
<1> USE LogAssumption DEF IInv, TypeOK, HeadersOK, ControlOK
<1>1. /\ t \in 1..n /\ t \in Index /\ n = hn /\ hn \in Nat
      /\ sector[t] = hsector[t] /\ sector[t] \in Block
      /\ home' = [home EXCEPT ![sector[t]] = logblk[t]]
      /\ cache' = [cache EXCEPT ![sector[t]] = logblk[t]]
      /\ UNCHANGED <<hn, hsector, logblk, phase>>
  BY DEF Index, install_trans
<1>2. ASSUME NEW b \in Block
      PROVE  Overlay(home', hn, hsector, logblk)[b] =
             Overlay(home, hn, hsector, logblk)[b]
  <2>1. CASE \E i \in 1..hn : hsector[i] = b
    BY <1>1, <2>1, OverlayLogged
  <2>2. CASE \A i \in 1..hn : hsector[i] # b
    <3>1. home'[b] = home[b]
      BY ZenonT(30), <1>1, <2>2
    <3>2. hn \in Nat
      BY ZenonT(30), <1>1
    <3>3. \A h : Overlay(h, hn, hsector, logblk)[b] = h[b]
      BY <2>2, <3>2, OverlayHome
    <3> QED  BY ZenonT(30), <3>1, <3>3
  <2> QED  BY ZenonT(30), <2>1, <2>2
<1>3. Recovered' = Recovered
  <2>1. Overlay(home', hn, hsector, logblk) = Overlay(home, hn, hsector, logblk)
    BY ZenonT(30), <1>2 DEF Overlay
  <2> QED  BY ZenonT(30), <1>1, <2>1 DEF Recovered
<1>4. CASE phase = "recover"
  BY ZenonT(30), <1>1, <1>3, <1>4 DEF View, Recovering
<1>5. CASE phase = "install"
  <2>1. cache[sector[t]] = logblk[t] /\ logblk[t] \in Val
    BY <1>1, <1>5 DEF BuffersOK
  <2>2. Readable' = Readable
    BY ZenonT(30), <1>1, <2>1 DEF Readable
  <2> QED  BY ZenonT(30), <1>1, <1>3, <1>5, <2>2 DEF View, Recovering
<1> QED  BY ZenonT(30), <1>3, <1>4, <1>5 DEF install_trans

(* Every step of the log is a step of AtomicDisk or changes nothing there. *)
LEMMA RefinementStep == IInv /\ IInv' /\ [Next]_vars => [AD!Next]_(AD!vars)
<1> SUFFICES ASSUME IInv, IInv', [Next]_vars PROVE [AD!Next]_(AD!vars)
  BY ZenonT(30)
<1> USE DEF AD!vars, AD!Next, disk
<1>1. CASE begin_trans
  <2>1. AD!Begin
    BY ZenonT(30), <1>1 DEF AD!Begin, begin_trans, View, Recovered, Readable, Recovering
  <2> QED  BY ZenonT(30), <2>1
<1>2. CASE log_write_panic
  <2>1. AD!Crash
    BY ZenonT(30), <1>2 DEF AD!Crash, log_write_panic, View, Recovered, Recovering
  <2> QED  BY ZenonT(30), <2>1
<1>3. CASE commit_empty
  <2>1. Readable = home
    BY ZenonT(30), <1>3, ReadableClean DEF commit_empty, IInv, TypeOK, ControlOK, BuffersOK
  <2>2. Recovered = home
    BY ZenonT(30), <1>3, OverlayEmpty DEF commit_empty, IInv, TypeOK, ControlOK, Recovered
  <2>3. AD!Commit
    BY ZenonT(30), <1>3, <2>1, <2>2
       DEF AD!Commit, commit_empty, View, Recovered, Readable, Recovering
  <2> QED  BY ZenonT(30), <2>3
<1>4. CASE commit_trans
  <2>1. Recovered' = Readable
    BY ZenonT(30), <1>4, CommitRefines
  <2>2. AD!Commit
    BY ZenonT(30), <1>4, <2>1 DEF AD!Commit, commit_trans, View, Readable, Recovering
  <2> QED  BY <2>2
<1>5. CASE install_trans
  BY ZenonT(30), <1>5, InstallRefines DEF install_trans
<1>6. CASE install_done
  BY ZenonT(30), <1>6 DEF install_done, View, Recovered, Readable, Recovering
<1>7. CASE erase_log
  <2>1. Recovered = home
    BY <1>7, OverlayInstalled
       DEF erase_log, IInv, TypeOK, HeadersOK, InstalledOK, Recovered
  <2>2. home' = home /\ home \in [Block -> Val] /\ hn' = 0
    BY ZenonT(30), <1>7 DEF erase_log, write_head, IInv, TypeOK, ControlOK
  <2>3. Recovered' = home'
    BY ZenonT(30), <2>2, OverlayEmpty DEF Recovered
  <2>4. Readable = home
    BY ZenonT(30), <1>7, ReadableClean DEF erase_log, IInv, BuffersOK
  <2>5. Readable' = Readable
    BY ZenonT(30), <1>7 DEF erase_log, Readable
  <2> QED  BY ZenonT(30), <1>7, <2>1, <2>2, <2>3, <2>4, <2>5 DEF erase_log, View, Recovering
<1>8. CASE read_head
  BY ZenonT(30), <1>8 DEF read_head, View, Recovered, Recovering
<1>9. CASE Crash
  <2>1. AD!Crash
    BY ZenonT(30), <1>9 DEF AD!Crash, Crash, View, Recovered, Recovering
  <2> QED  BY <2>1
<1>10. ASSUME NEW b \in Block, bread(b) PROVE [AD!Next]_(AD!vars)
  <2>1. Readable' = Readable
    BY ZenonT(30), <1>10, LogAssumption DEF bread, Readable, IInv, TypeOK
  <2> QED  BY ZenonT(30), <1>10, <2>1 DEF bread, View, Recovered, Recovering
<1>11. ASSUME NEW b \in Block, recycle(b) PROVE [AD!Next]_(AD!vars)
  <2>1. Readable' = Readable
    BY <1>11, LogAssumption DEF recycle, Readable, IInv, TypeOK, BuffersOK
  <2> QED  BY ZenonT(30), <1>11, <2>1 DEF recycle, View, Recovered, Recovering
<1>12. ASSUME NEW b \in Block, NEW v \in Val, log_write(b, v)
       PROVE  [AD!Next]_(AD!vars)
  <2>1. /\ hn = 0 /\ hn' = 0 /\ home' = home /\ home \in [Block -> Val]
        /\ phase = "trans" /\ phase' = "trans"
        /\ cache' = [cache EXCEPT ![b] = v]
    BY ZenonT(30), <1>12 DEF log_write, IInv, TypeOK, ControlOK
  <2>2. Recovered = home /\ Recovered' = home
    BY ZenonT(30), <2>1, OverlayEmpty DEF Recovered
  <2>3. Readable' = [Readable EXCEPT ![b] = v]
    BY ZenonT(30), <2>1, LogAssumption DEF Readable, IInv, TypeOK
  <2>4. AD!Write(b, v)
    BY ZenonT(30), <2>1, <2>2, <2>3 DEF AD!Write, View, Recovering
  <2> QED  BY ZenonT(30), <2>4
<1>13. CASE UNCHANGED vars
  BY ZenonT(30), <1>13 DEF vars, View, Recovered, Readable
<1> QED  BY ZenonT(30), <1>1, <1>2, <1>3, <1>4, <1>5, <1>6, <1>7, <1>8, <1>9, <1>10, <1>11,
           <1>12, <1>13 DEF Next

(* The log is an atomic, durable disk: whatever the crashes, every          *)
(* transaction written with log_write() takes effect entirely at the first *)
(* write_head() of commit_trans(), or never.                               *)
THEOREM LogRefinesAtomicDisk == Spec => ImplementsAtomicDisk
<1>1. Init => AD!Init
  <2> SUFFICES ASSUME Init PROVE AD!Init
    BY ZenonT(30)
  <2>1. Recovered = home
    BY ZenonT(30), OverlayEmpty DEF Init, Recovered
  <2> QED  BY ZenonT(30), <2>1 DEF Init, AD!Init, View, Recovering
<1> QED  BY <1>1, InductiveInvariant, RefinementStep, PTL
         DEF Spec, ImplementsAtomicDisk, AD!Spec

(* Outside a transaction system calls read the committed disk.             *)
THEOREM IdleReadsAreCommitted == Spec => []IdleReadsCommitted
<1>1. IInv => IdleReadsCommitted
  <2> SUFFICES ASSUME IInv, phase \in {"idle", "install", "clear"}
               PROVE  Readable = Recovered
    BY ZenonT(30) DEF IdleReadsCommitted
  <2>1. CASE phase = "idle"
    BY SMTT(60), <2>1, OverlayEmpty, ReadableClean
       DEF IInv, TypeOK, ControlOK, BuffersOK, Recovered
  <2>2. CASE phase = "clear"
    BY <2>2, OverlayInstalled, ReadableClean
       DEF IInv, TypeOK, HeadersOK, InstalledOK, BuffersOK, Recovered
  <2>3. CASE phase = "install"
    <3>1. /\ n \in Nat /\ n = hn /\ tail \in Nat
          /\ \A i \in 1..n : sector[i] = hsector[i]
          /\ \A i \in 1..n : logblk[i] \in Val
      BY <2>3, LogAssumption DEF IInv, TypeOK, ControlOK, Index
    <3>2. Distinct(n, sector) /\ Distinct(n, hsector)
      BY ZenonT(30), <3>1 DEF IInv, HeadersOK
    <3>3. /\ \A b \in Block : dirty[b] <=> \E i \in tail + 1..n : sector[i] = b
          /\ \A b \in Block : ~dirty[b] => cache[b] \in {NoBuf, home[b]}
          /\ \A i \in tail + 1..n : cache[sector[i]] = logblk[i]
          /\ \A i \in 1..tail : home[sector[i]] = logblk[i]
      BY ZenonT(30), <2>3 DEF IInv, BuffersOK, InstalledOK
    <3>4. ASSUME NEW b \in Block, ~dirty[b] PROVE Readable[b] = home[b]
      BY ZenonT(30), <3>3, <3>4 DEF Readable
    <3>5. ASSUME NEW b \in Block PROVE Readable[b] = Recovered[b]
      <4>1. CASE \E i \in 1..n : sector[i] = b
        <5>1. PICK i \in 1..n : sector[i] = b /\ hsector[i] = b
          BY ZenonT(30), <3>1, <4>1
        <5>2. Recovered[b] = logblk[i]
          BY <3>1, <3>2, <5>1, OverlayLogged DEF Recovered
        <5>3. CASE i <= tail
          <6>1. home[b] = logblk[i]
            BY <3>1, <3>3, <5>1, <5>3
          <6>2. \A j \in tail + 1..n : j \in 1..n /\ j # i
            BY <3>1, <5>3
          <6>3. ~dirty[b]
            BY <3>2, <3>3, <5>1, <6>2 DEF Distinct
          <6> QED  BY ZenonT(30), <3>4, <5>2, <6>1, <6>3
        <5>4. CASE i > tail
          <6>1. i \in tail + 1..n
            BY <3>1, <5>4
          <6>2. cache[b] = logblk[i] /\ cache[b] # NoBuf
            BY <3>1, <3>3, <5>1, <6>1, LogAssumption
          <6> QED  BY ZenonT(30), <5>2, <6>2 DEF Readable
        <5> QED  BY <3>1, <5>3, <5>4
      <4>2. CASE \A i \in 1..n : sector[i] # b
        <5>1. Recovered[b] = home[b]
          BY <3>1, <4>2, OverlayHome DEF Recovered
        <5>2. \A j \in tail + 1..n : j \in 1..n
          BY <3>1
        <5>3. ~dirty[b]
          BY ZenonT(30), <3>3, <4>2, <5>2
        <5> QED  BY ZenonT(30), <3>4, <5>1, <5>3
      <4> QED  BY ZenonT(30), <4>1, <4>2
    <3> QED  BY ZenonT(30), <3>5 DEF Readable, Recovered, Overlay
  <2> QED  BY ZenonT(30), <2>1, <2>2, <2>3
<1> QED  BY <1>1, InductiveInvariant, PTL

(* A commit record is erased only after every block it names is at home:   *)
(* the second write_head() comes after install_trans().                    *)
THEOREM HeaderErasedLate == Spec => EraseAfterInstall
<1>1. ASSUME IInv, [Next]_vars, hn > 0, hn' = 0
      PROVE  home = Recovered
  <2>1. hn \in Nat /\ hn' # hn
    BY <1>1, LogAssumption DEF IInv, TypeOK
  <2>2. ~ \E b \in Block : bread(b) \/ recycle(b) \/ \E v \in Val : log_write(b, v)
    BY ZenonT(30), <2>1 DEF bread, recycle, log_write, disk
  <2>3. ~ commit_trans
    BY <1>1 DEF commit_trans, write_head
  <2>4. erase_log
    BY ZenonT(30), <1>1, <2>1, <2>2, <2>3
       DEF Next, vars, disk, begin_trans, log_write_panic, commit_empty,
           install_trans, install_done, read_head, Crash
  <2> QED
    BY <1>1, <2>1, <2>4, OverlayInstalled
       DEF erase_log, Recovered, IInv, TypeOK, HeadersOK, InstalledOK
<1> QED  BY <1>1, InductiveInvariant, PTL DEF Spec, EraseAfterInstall

(* The in-memory and on-disk headers never outgrow the log.                *)
THEOREM TypesHold == Spec => []TypeOK
  BY InductiveInvariant, PTL DEF IInv
=============================================================================
