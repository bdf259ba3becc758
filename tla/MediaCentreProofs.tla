-------------------------- MODULE MediaCentreProofs --------------------------
(***************************************************************************)
(* Theorems of MediaCentre, for any number of workers, streams and muxers: *)
(* a running stream has a writer, and when it can have two.                *)
(***************************************************************************)
EXTENDS MediaCentre, TLAPS

Own(p, k) == Writes(p, k) /\ muxer[p].owned
Served(k) == (\E p \in Procs : Writes(p, k)) \/ k \in ended

(* Where an open of stream k is *)
In(w, stage, k) == opening[w].stage = stage /\ opening[w].id = k

IdInv ==
  /\ \A w \in Workers : opening[w].stage # "none" => opening[w].id \in StreamIds
  /\ \A p \in Procs : muxer[p].run # "off" => muxer[p].id \in StreamIds
  /\ \A p \in Procs : muxer[p].run \in {"open", "on"} => muxer[p].misses < MaxRetry

(* A stream that is running, or about to be, had its muxer started *)
ServedInv ==
  /\ \A k \in StreamIds : sessions[k] # Absent => Served(k)
  /\ \A k \in StreamIds, w \in Workers : In(w, "add", k) \/ In(w, "store", k) => Served(k)

(* A muxer the server started in this life of the session keeps others from *)
(* being started                                                            *)
OwnInv ==
  /\ \A k \in StreamIds, p \in Procs :
       Own(p, k) => sessions[k] # Absent \/ \E w \in Workers : In(w, "add", k)
  /\ \A k \in StreamIds, p \in Procs :
       Own(p, k) => k \in overlap \/ \A w \in Workers : ~In(w, "system", k)

OverlapInv ==
  \A k \in StreamIds, v, w \in Workers :
    opening[v].id = k /\ opening[w].id = k => v = w \/ k \in overlap

Inv == TypeOK /\ IdInv /\ ServedInv /\ OwnInv /\ OverlapInv /\ TwoWritersExplained

-----------------------------------------------------------------------------

LEMMA InvInit == Init => Inv
<1> SUFFICES ASSUME Init PROVE Inv
  OBVIOUS
<1> USE MediaCentreAssumption DEF Init, S!Init, NoOpen, NoMuxer
<1>1. TypeOK
  <2>1. muxer \in [Procs -> [run: {"off", "open", "on", "exit"}, id: StreamIds \cup {NULL},
                             standalone: BOOLEAN, misses: 0..MaxRetry,
                             byServer: BOOLEAN, owned: BOOLEAN]]
    OBVIOUS
  <2>2. opening \in [Workers -> [stage: {"none", "system", "add", "store"},
                                 id: StreamIds \cup {NULL}]]
    OBVIOUS
  <2>3. sessions \in [StreamIds -> 0..S!MaxAge \cup {NULL, Absent}]
    OBVIOUS
  <2>4. up \in BOOLEAN
    OBVIOUS
  <2> QED
    BY <2>1, <2>2, <2>3, <2>4 DEF TypeOK
<1>2. \A p \in Procs : muxer[p] = NoMuxer /\ NoMuxer.run = "off"
  OBVIOUS
<1>3. \A w \in Workers : opening[w] = NoOpen /\ NoOpen.stage = "none" /\ NoOpen.id = NULL
  OBVIOUS
<1>4. \A k \in StreamIds : sessions[k] = Absent /\ k # NULL
  OBVIOUS
<1> QED
  BY <1>1, <1>2, <1>3, <1>4
     DEF Inv, IdInv, ServedInv, Served, OwnInv, Own, OverlapInv, In, TwoWritersExplained, Writes

(* The types of the parts that change together *)
Muxers == [run: {"off", "open", "on", "exit"}, id: StreamIds \cup {NULL}, standalone: BOOLEAN,
           misses: 0..MaxRetry, byServer: BOOLEAN, owned: BOOLEAN]
Opening == [stage: {"none", "system", "add", "store"}, id: StreamIds \cup {NULL}]

LEMMA MuxersFunction ==
  TypeOK <=> /\ muxer \in [Procs -> Muxers] /\ opening \in [Workers -> Opening]
             /\ sessions \in [StreamIds -> 0..S!MaxAge \cup {NULL, Absent}] /\ up \in BOOLEAN
             /\ watched \subseteq StreamIds /\ ended \subseteq StreamIds
             /\ overlap \subseteq StreamIds
BY DEF TypeOK, Muxers, Opening

(* The muxers when sessions leave, when an input opens, and after a beat *)
LEMMA Disowned ==
  ASSUME muxer \in [Procs -> Muxers], NEW ks, Disown(ks)
  PROVE  /\ muxer' \in [Procs -> Muxers]
         /\ \A p \in Procs : /\ muxer'[p].run = muxer[p].run /\ muxer'[p].id = muxer[p].id
                               /\ muxer'[p].misses = muxer[p].misses
                               /\ muxer'[p].owned = (muxer[p].owned /\ muxer[p].id \notin ks)
<1>1. \A r \in Muxers, b \in BOOLEAN :
        /\ [r EXCEPT !.owned = b] \in Muxers
        /\ [r EXCEPT !.owned = b].run = r.run /\ [r EXCEPT !.owned = b].id = r.id
        /\ [r EXCEPT !.owned = b].misses = r.misses /\ [r EXCEPT !.owned = b].owned = b
  BY DEF Muxers
<1>2. \A p \in Procs : /\ muxer[p] \in Muxers
                       /\ (muxer[p].owned /\ muxer[p].id \notin ks) \in BOOLEAN
                       /\ muxer'[p] = [muxer[p] EXCEPT !.owned = @ /\ muxer[p].id \notin ks]
  BY DEF Disown
<1>3. muxer' \in [Procs -> Muxers]
  BY <1>1, <1>2 DEF Disown
<1>4. ASSUME NEW p \in Procs
      PROVE  /\ muxer'[p].run = muxer[p].run /\ muxer'[p].id = muxer[p].id
             /\ muxer'[p].misses = muxer[p].misses
             /\ muxer'[p].owned = (muxer[p].owned /\ muxer[p].id \notin ks)
  <2> DEFINE b == muxer[p].owned /\ muxer[p].id \notin ks
  <2>1. b \in BOOLEAN /\ muxer[p] \in Muxers /\ muxer'[p] = [muxer[p] EXCEPT !.owned = b]
    BY <1>2
  <2> HIDE DEF b
  <2>2. /\ muxer'[p].run = muxer[p].run /\ muxer'[p].id = muxer[p].id
        /\ muxer'[p].misses = muxer[p].misses /\ muxer'[p].owned = b
    BY <1>1, <2>1
  <2> QED
    BY <2>2 DEF b
<1> QED
  BY <1>3, <1>4

LEMMA AfterOpen ==
  ASSUME muxer \in [Procs -> Muxers], NEW p \in Procs, MuxerOpens(p)
  PROVE  /\ muxer' \in [Procs -> Muxers]
         /\ muxer'[p].run = "on" /\ muxer'[p].misses = muxer[p].misses
         /\ muxer'[p].id = muxer[p].id /\ muxer'[p].owned = muxer[p].owned
         /\ \A q \in Procs \ {p} : muxer'[q] = muxer[q]
<1>1. muxer[p] \in Muxers
  OBVIOUS
<1>2. \A r \in Muxers :
        /\ [r EXCEPT !.run = "on"] \in Muxers
        /\ [r EXCEPT !.run = "on"].run = "on" /\ [r EXCEPT !.run = "on"].misses = r.misses
        /\ [r EXCEPT !.run = "on"].id = r.id /\ [r EXCEPT !.run = "on"].owned = r.owned
  BY DEF Muxers
<1>3. PICK m \in Muxers : /\ m = [muxer[p] EXCEPT !.run = "on"]
                         /\ m.run = "on" /\ m.misses = muxer[p].misses
                         /\ m.id = muxer[p].id /\ m.owned = muxer[p].owned
  BY <1>1, <1>2
<1>4. muxer' = [muxer EXCEPT ![p] = m]
  BY <1>3 DEF MuxerOpens
<1> QED
  BY <1>3, <1>4

LEMMA AfterBeat ==
  ASSUME muxer \in [Procs -> Muxers], NEW p \in Procs, NEW run \in {"on", "exit"},
         NEW misses \in 0..MaxRetry, Beats(p), Beaten(p, run, misses)
  PROVE  /\ muxer' \in [Procs -> Muxers]
         /\ muxer'[p].run = run /\ muxer'[p].misses = misses
         /\ muxer'[p].id = muxer[p].id /\ muxer'[p].owned = muxer[p].owned
         /\ \A q \in Procs \ {p} : muxer'[q] = muxer[q]
<1>1. muxer[p] \in Muxers
  OBVIOUS
<1>2. \A r \in Muxers :
        /\ [r EXCEPT !.run = run, !.misses = misses] \in Muxers
        /\ [r EXCEPT !.run = run, !.misses = misses].run = run
        /\ [r EXCEPT !.run = run, !.misses = misses].misses = misses
        /\ [r EXCEPT !.run = run, !.misses = misses].id = r.id
        /\ [r EXCEPT !.run = run, !.misses = misses].owned = r.owned
  BY DEF Muxers
<1>3. PICK m \in Muxers : /\ m = [muxer[p] EXCEPT !.run = run, !.misses = misses]
                         /\ m.run = run /\ m.misses = misses
                         /\ m.id = muxer[p].id /\ m.owned = muxer[p].owned
  BY <1>1, <1>2
<1>4. muxer' = [muxer EXCEPT ![p] = m]
  BY <1>3 DEF Beaten
<1> QED
  BY <1>3, <1>4

(* A muxer that starts, and an open that goes on *)
LEMMA Starts ==
  ASSUME muxer \in [Procs -> Muxers], NEW p \in Procs, NEW k \in StreamIds,
         NEW standalone \in BOOLEAN, NEW byServer \in BOOLEAN,
         muxer' = [muxer EXCEPT ![p] = NewMuxer(k, standalone, byServer)]
  PROVE  /\ muxer' \in [Procs -> Muxers]
         /\ muxer'[p].run = "open" /\ muxer'[p].id = k /\ muxer'[p].misses = 0
         /\ muxer'[p].owned = byServer
         /\ \A q \in Procs \ {p} : muxer'[q] = muxer[q]
<1>1. PICK m \in Muxers : /\ m = NewMuxer(k, standalone, byServer)
                         /\ m.run = "open" /\ m.id = k /\ m.misses = 0 /\ m.owned = byServer
  BY MediaCentreAssumption DEF Muxers, NewMuxer
<1> QED
  BY <1>1

LEMMA Goes ==
  ASSUME muxer \in [Procs -> Muxers], NEW p \in Procs,
         muxer' = [muxer EXCEPT ![p] = NoMuxer]
  PROVE  /\ muxer' \in [Procs -> Muxers]
         /\ muxer'[p].run = "off" /\ ~muxer'[p].owned
         /\ \A q \in Procs \ {p} : muxer'[q] = muxer[q]
<1>1. 0 \in 0..MaxRetry
  BY MediaCentreAssumption
<1>2. NoMuxer \in Muxers
  BY <1>1 DEF Muxers, NoMuxer
<1>3. NoMuxer.run = "off" /\ ~NoMuxer.owned
  BY DEF NoMuxer
<1> QED
  BY <1>2, <1>3

LEMMA Staged ==
  ASSUME opening \in [Workers -> Opening], NEW w \in Workers, NEW k \in StreamIds,
         NEW stage \in {"system", "add", "store"}, Stage(w, stage, k)
  PROVE  /\ opening' \in [Workers -> Opening]
         /\ opening'[w].stage = stage /\ opening'[w].id = k
         /\ \A v \in Workers \ {w} : opening'[v] = opening[v]
<1>1. PICK o \in Opening : o = [stage |-> stage, id |-> k] /\ o.stage = stage /\ o.id = k
  <2>1. [stage |-> stage, id |-> k] \in Opening
    BY DEF Opening
  <2> QED
    BY <2>1 DEF Opening
<1> QED
  BY <1>1 DEF Stage

LEMMA Closed ==
  ASSUME opening \in [Workers -> Opening], NEW w \in Workers,
         opening' = [opening EXCEPT ![w] = NoOpen]
  PROVE  /\ opening' \in [Workers -> Opening]
         /\ opening'[w].stage = "none" /\ opening'[w].id = NULL
         /\ \A v \in Workers \ {w} : opening'[v] = opening[v]
<1>1. PICK o \in Opening : o = NoOpen /\ o.stage = "none" /\ o.id = NULL
  BY DEF Opening, NoOpen
<1> QED
  BY <1>1

LEMMA TypeStep == TypeOK /\ IdInv /\ [Next]_vars => TypeOK'
<1> SUFFICES ASSUME TypeOK, IdInv, [Next]_vars PROVE TypeOK'
  OBVIOUS
<1> USE MediaCentreAssumption DEF TypeOK
<1>1. ASSUME NEW w \in Workers, OpenSystem(w) PROVE TypeOK'
  <2> USE <1>1 DEF OpenSystem
  <2>1. opening[w].id \in StreamIds
    BY DEF IdInv
  <2>2. opening' \in [Workers -> Opening]
    BY <2>1, MuxersFunction, Staged
  <2>3. muxer' \in [Procs -> Muxers]
    BY <2>1, MuxersFunction, Starts
  <2>4. ended' \subseteq StreamIds
    BY <2>1
  <2> QED
    BY <2>1, <2>2, <2>3, <2>4 DEF Muxers, Opening
<1>2. ASSUME NEW w \in Workers, OpenAdd(w) PROVE TypeOK'
  <2> USE <1>2 DEF OpenAdd, Stage, NoOpen, S!Insert, S!Touch, S!MaxAge
  <2>1. opening[w].id \in StreamIds
    BY DEF IdInv
  <2>2. opening' \in [Workers -> Opening]
    BY <2>1 DEF Opening
  <2>3. sessions' \in [StreamIds -> 0..S!MaxAge \cup {NULL, Absent}]
    BY <2>1
  <2> QED
    BY <2>1, <2>2, <2>3 DEF Muxers, Opening
<1>3. ASSUME NEW w \in Workers, OpenStore(w) PROVE TypeOK'
  <2> USE <1>3 DEF OpenStore, NoOpen, S!Touch, S!MaxAge
  <2>1. opening[w].id \in StreamIds
    BY DEF IdInv
  <2>2. opening' \in [Workers -> Opening]
    BY <2>1 DEF Opening
  <2>3. sessions' \in [StreamIds -> 0..S!MaxAge \cup {NULL, Absent}]
    BY <2>1
  <2> QED
    BY <2>1, <2>2, <2>3 DEF Muxers, Opening
<1>4. ASSUME NEW w \in Workers, NEW k \in StreamIds, OpenCheck(w, k) PROVE TypeOK'
  <2> USE <1>4 DEF OpenCheck, Stage, NoOpen, Opens
  <2>1. opening' \in [Workers -> Opening]
    BY DEF Opening
  <2>2. overlap' \subseteq StreamIds
    OBVIOUS
  <2> QED
    BY <2>1, <2>2 DEF Muxers, Opening
<1>5. ASSUME NEW k \in StreamIds, Use(k) PROVE TypeOK'
  <2> USE <1>5 DEF Use, S!Touch, S!MaxAge
  <2>1. sessions' \in [StreamIds -> 0..S!MaxAge \cup {NULL, Absent}]
    OBVIOUS
  <2> QED
    BY <2>1 DEF Muxers, Opening
<1>6. ASSUME NEW k \in StreamIds, Sweep(k) PROVE TypeOK'
  <2> USE <1>6 DEF Sweep, S!Erase, Opens
  <2>1. muxer' \in [Procs -> Muxers]
    BY MuxersFunction, Disowned
  <2>2. sessions' \in [StreamIds -> 0..S!MaxAge \cup {NULL, Absent}]
    OBVIOUS
  <2>3. ended' \subseteq StreamIds /\ overlap' \subseteq StreamIds
    OBVIOUS
  <2> QED
    BY <2>1, <2>2, <2>3 DEF Muxers, Opening
<1>7. ASSUME NEW k \in StreamIds, Browse(k) PROVE TypeOK'
  BY <1>7 DEF Browse
<1>8. ASSUME NEW p \in Procs, BeatAnswered(p) PROVE TypeOK'
  <2> USE <1>8 DEF BeatAnswered
  <2>1. PICK run \in {"on", "exit"} : Beaten(p, run, 0)
    OBVIOUS
  <2>2. muxer' \in [Procs -> Muxers]
    BY <2>1, MuxersFunction, AfterBeat, 0 \in 0..MaxRetry
  <2>3. UNCHANGED <<sessions, up, opening, watched, ended, overlap>>
    BY <2>1 DEF Beaten
  <2> QED
    BY <2>1, <2>2, <2>3 DEF Muxers, Opening
<1>9. ASSUME NEW p \in Procs, BeatFails(p) PROVE TypeOK'
  <2> USE <1>9 DEF BeatFails
  <2>1. muxer[p].misses + 1 \in 0..MaxRetry
    BY DEF IdInv, Beats
  <2>2. PICK run \in {"on", "exit"} : Beaten(p, run, muxer[p].misses + 1)
    OBVIOUS
  <2>3. muxer' \in [Procs -> Muxers]
    BY <2>1, <2>2, MuxersFunction, AfterBeat
  <2>4. UNCHANGED <<sessions, up, opening, watched, ended, overlap>>
    BY <2>2 DEF Beaten
  <2> QED
    BY <2>1, <2>2, <2>3, <2>4 DEF Muxers, Opening
<1>10. ASSUME NEW p \in Procs, MuxerExits(p) PROVE TypeOK'
  <2> USE <1>10 DEF MuxerExits, MuxerGone, NoMuxer
  <2>1. muxer[p].id \in StreamIds
    BY DEF IdInv
  <2>2. muxer' \in [Procs -> Muxers]
    BY DEF Muxers
  <2>3. ended' \subseteq StreamIds
    BY <2>1
  <2> QED
    BY <2>1, <2>2, <2>3 DEF Muxers, Opening
<1>11. ASSUME NEW p \in Procs, MuxerEnds(p) PROVE TypeOK'
  <2> USE <1>11 DEF MuxerEnds, MuxerGone, NoMuxer
  <2>1. muxer[p].id \in StreamIds
    BY DEF IdInv
  <2>2. muxer' \in [Procs -> Muxers]
    BY DEF Muxers
  <2>3. ended' \subseteq StreamIds
    BY <2>1
  <2> QED
    BY <2>1, <2>2, <2>3 DEF Muxers, Opening
<1>12. ASSUME NEW p \in Procs, NEW k \in StreamIds, StartByHand(p, k) PROVE TypeOK'
  <2> USE <1>12 DEF StartByHand, NewMuxer, NoMuxer
  <2>1. muxer' \in [Procs -> Muxers]
    BY DEF Muxers
  <2> QED
    BY <2>1 DEF Muxers, Opening
<1>13. ASSUME Tick PROVE TypeOK'
  <2> USE <1>13 DEF Tick, S!Tick, S!Older, S!MaxAge
  <2>1. sessions' \in [StreamIds -> 0..S!MaxAge \cup {NULL, Absent}]
    OBVIOUS
  <2> QED
    BY <2>1 DEF Muxers, Opening
<1>14. ASSUME ServerCrash PROVE TypeOK'
  <2> USE <1>14 DEF ServerCrash, NoOpen
  <2>1. muxer' \in [Procs -> Muxers]
    BY MuxersFunction, Disowned
  <2>2. sessions' \in [StreamIds -> 0..S!MaxAge \cup {NULL, Absent}]
    OBVIOUS
  <2>3. opening' \in [Workers -> Opening]
    BY DEF Opening
  <2>4. up' \in BOOLEAN
    OBVIOUS
  <2> QED
    BY <2>1, <2>2, <2>3, <2>4 DEF Muxers, Opening
<1>15. ASSUME ServerStart PROVE TypeOK'
  <2> USE <1>15 DEF ServerStart
  <2>1. up' \in BOOLEAN
    OBVIOUS
  <2> QED
    BY <2>1 DEF Muxers, Opening
<1>16. ASSUME NEW p \in Procs, MuxerOpens(p) PROVE TypeOK'
  <2>1. muxer' \in [Procs -> Muxers]
    BY <1>16, MuxersFunction, AfterOpen
  <2>2. UNCHANGED <<sessions, up, opening, watched, ended, overlap>>
    BY <1>16 DEF MuxerOpens
  <2> QED
    BY <2>1, <2>2 DEF Muxers, Opening
<1>17. CASE UNCHANGED vars
  BY <1>17 DEF vars
<1> QED
  BY <1>1, <1>2, <1>3, <1>4, <1>5, <1>6, <1>7, <1>8, <1>9, <1>10, <1>11,
     <1>12, <1>13, <1>14, <1>15, <1>16, <1>17
     DEF Next, Worker, Beat

-----------------------------------------------------------------------------
(* How the parts of the invariant fare in a step *)

Parts == IdInv /\ ServedInv /\ OwnInv /\ OverlapInv /\ TwoWritersExplained

(* What a step that leaves the opens and the registry's keys alone has to show *)
LEMMA MuxerStep ==
  ASSUME Inv,
         UNCHANGED opening, ended \subseteq ended', UNCHANGED overlap,
         \A k \in StreamIds : (sessions'[k] = Absent) <=> (sessions[k] = Absent),
         \A q \in Procs : muxer'[q].run # "off" => muxer'[q].id \in StreamIds,
         \A q \in Procs : muxer'[q].run \in {"open", "on"} => muxer'[q].misses < MaxRetry,
         \A q \in Procs, k \in StreamIds : Own(q, k)' => Own(q, k),
         \A q \in Procs, k \in StreamIds : Writes(q, k) => Writes(q, k)' \/ k \in ended'
  PROVE  Parts'
<1>1. \A k \in StreamIds : Served(k) => Served(k)'
  BY DEF Served
<1>2. \A w \in Workers, k \in StreamIds :
        /\ In(w, "system", k)' <=> In(w, "system", k)
        /\ In(w, "add", k)' <=> In(w, "add", k)
        /\ In(w, "store", k)' <=> In(w, "store", k)
  BY DEF In
<1>3. IdInv' /\ OverlapInv'
  BY DEF Inv, IdInv, OverlapInv
<1>4. ServedInv'
  BY <1>1, <1>2 DEF Inv, ServedInv
<1>5. OwnInv'
  BY <1>2 DEF Inv, OwnInv
<1>6. TwoWritersExplained'
  BY DEF Inv, TwoWritersExplained, Own
<1> QED
  BY <1>3, <1>4, <1>5, <1>6 DEF Parts

(* What a step of an open has to show: it leaves the muxers alone *)
LEMMA OpenStep ==
  ASSUME Inv, NEW w \in Workers, NEW k \in StreamIds, opening[w].id = k,
         UNCHANGED <<muxer, ended, overlap>>,
         \A v \in Workers \ {w} : opening'[v] = opening[v],
         \/ opening'[w].stage = "none" /\ opening'[w].id = NULL
         \/ opening'[w].stage = "store" /\ opening'[w].id = k,
         opening[w].stage \in {"add", "store"},
         \A j \in StreamIds \ {k} : sessions'[j] = sessions[j],
         sessions'[k] # Absent \/ (opening[w].stage = "store" /\ UNCHANGED sessions)
  PROVE  Parts'
<1>1. /\ \A p \in Procs, j \in StreamIds : Own(p, j)' <=> Own(p, j)
      /\ \A j \in StreamIds : Served(j)' <=> Served(j)
  BY DEF Own, Served, Writes
<1>2. IdInv'
  BY DEF Inv, IdInv
<1>3. Served(k)
  BY DEF Inv, ServedInv, In
<1>4. ServedInv'
  <2>1. \A j \in StreamIds : sessions'[j] # Absent => Served(j)'
    <3> SUFFICES ASSUME NEW j \in StreamIds, sessions'[j] # Absent PROVE Served(j)
      BY <1>1
    <3>1. CASE j = k
      BY <1>3, <3>1
    <3>2. CASE j # k
      BY <3>2 DEF Inv, ServedInv
    <3> QED
      BY <3>1, <3>2
  <2>2. ASSUME NEW j \in StreamIds, NEW v \in Workers, In(v, "add", j)' \/ In(v, "store", j)'
        PROVE  Served(j)
    <3>1. CASE v = w
      BY <2>2, <3>1, <1>3, MediaCentreAssumption DEF In
    <3>2. CASE v # w
      BY <2>2, <3>2 DEF In, Inv, ServedInv
    <3> QED
      BY <3>1, <3>2
  <2>3. \A j \in StreamIds, v \in Workers :
          In(v, "add", j)' \/ In(v, "store", j)' => Served(j)'
    BY <1>1, <2>2
  <2> QED
    BY <2>1, <2>3 DEF ServedInv
<1>5. OwnInv'
  <2>1. ASSUME NEW j \in StreamIds, NEW p \in Procs, Own(p, j)
        PROVE  sessions'[j] # Absent \/ \E v \in Workers : In(v, "add", j)'
    <3>1. CASE sessions'[j] # Absent
      BY <3>1
    <3>2. CASE sessions'[j] = Absent
      <4>1. sessions[j] = Absent
        BY <3>2
      <4>2. PICK v \in Workers : In(v, "add", j)
        BY <2>1, <4>1 DEF Inv, OwnInv
      <4>3. v # w
        BY <3>2, <4>2 DEF In
      <4> QED
        BY <4>2, <4>3 DEF In
    <3> QED
      BY <3>1, <3>2
  <2>2. \A j \in StreamIds, v \in Workers : In(v, "system", j)' => In(v, "system", j)
    BY DEF In
  <2> QED
    BY <1>1, <2>1, <2>2 DEF Inv, OwnInv
<1>6. OverlapInv'
  BY MediaCentreAssumption DEF Inv, OverlapInv
<1>7. TwoWritersExplained'
  BY DEF Inv, TwoWritersExplained, Writes
<1> QED
  BY <1>2, <1>4, <1>5, <1>6, <1>7 DEF Parts

(* An open that finds no session *)
LEMMA CheckStep ==
  ASSUME Inv, NEW w \in Workers, NEW k \in StreamIds, OpenCheck(w, k)
  PROVE  Parts'
<1> USE DEF OpenCheck
<1>1. /\ opening'[w].stage = "system" /\ opening'[w].id = k
      /\ \A v \in Workers \ {w} : opening'[v] = opening[v]
  BY MuxersFunction, Staged DEF Inv
<1>2. opening[w].stage = "none" /\ opening[w].id = NULL /\ k # NULL
  BY MediaCentreAssumption DEF NoOpen
<1>3. overlap \subseteq overlap' /\ \A v \in Workers : opening[v].id = k => k \in overlap'
  BY DEF Opens
<1>4. /\ \A p \in Procs, j \in StreamIds : Own(p, j)' <=> Own(p, j)
      /\ \A j \in StreamIds : Served(j)' <=> Served(j)
  BY DEF Own, Served, Writes
<1>5. \A v \in Workers, j \in StreamIds :
        /\ In(v, "add", j)' <=> In(v, "add", j)
        /\ In(v, "store", j)' <=> In(v, "store", j)
        /\ In(v, "system", j)' => In(v, "system", j) \/ (v = w /\ j = k)
  BY <1>1, <1>2 DEF In
<1>6. IdInv'
  BY <1>1, <1>2 DEF Inv, IdInv
<1>7. ServedInv'
  <2>1. \A j \in StreamIds : sessions'[j] # Absent => Served(j)'
    BY <1>4 DEF Inv, ServedInv
  <2>2. \A j \in StreamIds, v \in Workers :
          In(v, "add", j)' \/ In(v, "store", j)' => Served(j)'
    BY <1>4, <1>5 DEF Inv, ServedInv
  <2> QED
    BY <2>1, <2>2 DEF ServedInv
<1>8. ASSUME NEW p \in Procs, Own(p, k) PROVE k \in overlap'
  <2>1. PICK v \in Workers : In(v, "add", k)
    BY <1>8 DEF Inv, OwnInv
  <2> QED
    BY <2>1, <1>3 DEF In
<1>9. OwnInv'
  <2>1. \A j \in StreamIds, p \in Procs :
          Own(p, j)' => sessions'[j] # Absent \/ \E v \in Workers : In(v, "add", j)'
    BY <1>4, <1>5 DEF Inv, OwnInv
  <2>2. \A j \in StreamIds, p \in Procs :
          Own(p, j)' => j \in overlap' \/ \A v \in Workers : ~In(v, "system", j)'
    BY <1>3, <1>4, <1>5, <1>8 DEF Inv, OwnInv
  <2> QED
    BY <2>1, <2>2 DEF OwnInv
<1>10. OverlapInv'
  BY <1>1, <1>2, <1>3 DEF Inv, OverlapInv
<1>11. TwoWritersExplained'
  BY <1>3 DEF Inv, TwoWritersExplained, Writes
<1> QED
  BY <1>6, <1>7, <1>9, <1>10, <1>11 DEF Parts

(* A muxer is started, or the start fails unseen *)
LEMMA SystemStep ==
  ASSUME Inv, NEW w \in Workers, OpenSystem(w)
  PROVE  Parts'
<1> USE DEF OpenSystem
<1>1. PICK k \in StreamIds : opening[w].id = k
  BY DEF Inv, IdInv
<1>2. /\ opening'[w].stage = "add" /\ opening'[w].id = k
      /\ \A v \in Workers \ {w} : opening'[v] = opening[v]
  BY <1>1, MuxersFunction, Staged DEF Inv
<1>3. \A v \in Workers, j \in StreamIds :
        /\ In(v, "add", j)' <=> In(v, "add", j) \/ (v = w /\ j = k)
        /\ In(v, "store", j)' <=> In(v, "store", j)
        /\ In(v, "system", j)' => In(v, "system", j)
  BY <1>1, <1>2 DEF In
<1>4. OverlapInv'
  BY <1>1, <1>2 DEF Inv, OverlapInv
<1>5. CASE \E p \in Procs : /\ muxer[p] = NoMuxer
                            /\ muxer' = [muxer EXCEPT ![p] = NewMuxer(opening[w].id, TRUE, TRUE)]
                            /\ UNCHANGED ended
  <2>0. NoMuxer.run = "off"
    BY DEF NoMuxer
  <2>1. PICK p \in Procs : /\ muxer[p].run = "off"
                           /\ muxer' = [muxer EXCEPT ![p] = NewMuxer(k, TRUE, TRUE)]
                           /\ UNCHANGED ended
    BY <1>1, <1>5, <2>0
  <2>2. /\ muxer'[p].run = "open" /\ muxer'[p].id = k /\ muxer'[p].misses = 0
        /\ muxer'[p].owned /\ \A q \in Procs \ {p} : muxer'[q] = muxer[q]
    BY <2>1, MuxersFunction, Starts DEF Inv
  <2>3. \A q \in Procs, j \in StreamIds :
          /\ Writes(q, j)' <=> Writes(q, j) \/ (q = p /\ j = k)
          /\ Own(q, j)' <=> Own(q, j) \/ (q = p /\ j = k)
    <3>1. \A j \in StreamIds : (Writes(p, j)' <=> j = k) /\ (Own(p, j)' <=> j = k) /\ ~Writes(p, j) /\ ~Own(p, j)
      BY <2>1, <2>2 DEF Writes, Own
    <3>2. \A q \in Procs \ {p}, j \in StreamIds :
            (Writes(q, j)' <=> Writes(q, j)) /\ (Own(q, j)' <=> Own(q, j))
      BY <2>2 DEF Writes, Own
    <3> QED
      BY <3>1, <3>2
  <2>4. \A j \in StreamIds : Served(j) \/ j = k => Served(j)'
    BY <2>1, <2>3 DEF Served
  <2>5. 0 < MaxRetry
    BY MediaCentreAssumption
  <2>6. IdInv'
    <3>1. \A v \in Workers : opening'[v].stage # "none" => opening'[v].id \in StreamIds
      BY <1>1, <1>2 DEF Inv, IdInv
    <3>2. \A q \in Procs : muxer'[q].run # "off" => muxer'[q].id \in StreamIds
      BY <2>2 DEF Inv, IdInv
    <3>3. \A q \in Procs : muxer'[q].run \in {"open", "on"} => muxer'[q].misses < MaxRetry
      BY <2>2, <2>5 DEF Inv, IdInv
    <3> QED
      BY <3>1, <3>2, <3>3 DEF IdInv
  <2>7. ServedInv'
    BY <1>3, <2>4 DEF Inv, ServedInv
  <2>8. \A q \in Procs : Own(q, k) => k \in overlap
    BY <1>1 DEF Inv, OwnInv, In
  <2>9. OwnInv'
    <3>1. \A j \in StreamIds, q \in Procs :
            Own(q, j)' => sessions'[j] # Absent \/ \E v \in Workers : In(v, "add", j)'
      BY <1>3, <2>3 DEF Inv, OwnInv
    <3>2. ASSUME NEW v \in Workers, In(v, "system", k)' PROVE k \in overlap
      BY <1>1, <1>2, <3>2 DEF In, Inv, OverlapInv
    <3>3. \A j \in StreamIds, q \in Procs :
            Own(q, j)' => j \in overlap' \/ \A v \in Workers : ~In(v, "system", j)'
      BY <1>3, <2>3, <3>2 DEF Inv, OwnInv
    <3> QED
      BY <3>1, <3>3 DEF OwnInv
  <2>10. TwoWritersExplained'
    <3> SUFFICES ASSUME NEW j \in StreamIds, NEW q \in Procs, NEW r \in Procs,
                        q # r, Own(q, j)', Own(r, j)'
                 PROVE  j \in overlap
      BY DEF TwoWritersExplained, Own
    <3>1. CASE Own(q, j) /\ Own(r, j)
      BY <3>1 DEF Inv, TwoWritersExplained, Own
    <3> QED
      BY <2>3, <2>8, <3>1
  <2> QED
    BY <1>4, <2>6, <2>7, <2>9, <2>10 DEF Parts
<1>6. CASE ended' = ended \cup {opening[w].id} /\ UNCHANGED muxer
  <2>1. \A j \in StreamIds : Served(j) \/ j = k => Served(j)'
    BY <1>1, <1>6 DEF Served, Writes
  <2>2. \A p \in Procs, j \in StreamIds : Own(p, j)' <=> Own(p, j)
    BY <1>6 DEF Own, Writes
  <2>3. IdInv'
    BY <1>1, <1>2, <1>6 DEF Inv, IdInv
  <2>4. ServedInv'
    BY <1>3, <2>1 DEF Inv, ServedInv
  <2>5. OwnInv'
    BY <1>3, <2>2 DEF Inv, OwnInv
  <2>6. TwoWritersExplained'
    BY <1>6 DEF Inv, TwoWritersExplained, Writes
  <2> QED
    BY <1>4, <2>3, <2>4, <2>5, <2>6 DEF Parts
<1> QED
  BY <1>5, <1>6

(* A session leaves *)
LEMMA SweepStep ==
  ASSUME Inv, NEW k \in StreamIds, Sweep(k)
  PROVE  Parts'
<1>1. /\ sessions'[k] = Absent /\ \A j \in StreamIds \ {k} : sessions'[j] = sessions[j]
      /\ UNCHANGED opening /\ Disown({k})
      /\ \A j \in StreamIds \ {k} : (j \in ended' <=> j \in ended) /\ (j \in overlap' <=> j \in overlap)
      /\ k \in overlap' \/ \A v, w \in Opens(k) : v = w
      /\ (k \in ended' <=> k \in ended) \/ Opens(k) = {}
  <2>1. /\ sessions' = [sessions EXCEPT ![k] = Absent] /\ UNCHANGED opening /\ Disown({k})
        /\ ended' = IF Opens(k) = {} THEN ended \ {k} ELSE ended
        /\ overlap' = IF \A v, w \in Opens(k) : v = w THEN overlap \ {k} ELSE overlap
    BY DEF Sweep, S!Erase
  <2>2. sessions'[k] = Absent /\ \A j \in StreamIds \ {k} : sessions'[j] = sessions[j]
    BY <2>1, MuxersFunction DEF Inv
  <2>3. k \in overlap' \/ \A v, w \in Opens(k) : v = w
    BY <2>1 DEF Inv, OverlapInv, Opens
  <2> QED
    BY <2>1, <2>2, <2>3
<1>2. \A p \in Procs : /\ muxer'[p].run = muxer[p].run /\ muxer'[p].id = muxer[p].id
                       /\ muxer'[p].misses = muxer[p].misses
                       /\ muxer'[p].owned = (muxer[p].owned /\ muxer[p].id \notin {k})
  BY <1>1, MuxersFunction, Disowned DEF Inv
<1>3. \A p \in Procs, j \in StreamIds :
        (Writes(p, j)' <=> Writes(p, j)) /\ (Own(p, j)' => Own(p, j) /\ j # k)
  BY <1>2 DEF Writes, Own
<1>4. ASSUME NEW j \in StreamIds, j \in ended => j \in ended', Served(j) PROVE Served(j)'
  BY <1>3, <1>4 DEF Served
<1>5. \A w \in Workers : opening[w].id = k => (k \in ended => k \in ended')
  BY <1>1 DEF Opens
<1>6. \A w \in Workers, j \in StreamIds :
        /\ In(w, "system", j)' <=> In(w, "system", j)
        /\ In(w, "add", j)' <=> In(w, "add", j)
        /\ In(w, "store", j)' <=> In(w, "store", j)
  BY <1>1 DEF In
<1>7. IdInv'
  BY <1>1, <1>2 DEF Inv, IdInv
<1>8. ServedInv'
  <2>1. \A j \in StreamIds : sessions'[j] # Absent => Served(j)'
    <3> SUFFICES ASSUME NEW j \in StreamIds, sessions'[j] # Absent PROVE Served(j)'
      OBVIOUS
    <3>1. j # k
      BY <1>1
    <3>2. Served(j)
      BY <3>1, <1>1 DEF Inv, ServedInv
    <3> QED
      BY <3>1, <3>2, <1>1, <1>4
  <2>2. ASSUME NEW j \in StreamIds, NEW w \in Workers, In(w, "add", j) \/ In(w, "store", j)
        PROVE  Served(j)'
    <3>1. Served(j)
      BY <2>2 DEF Inv, ServedInv
    <3>2. j \in ended => j \in ended'
      BY <2>2, <1>1, <1>5 DEF In
    <3> QED
      BY <3>1, <3>2, <1>4
  <2> QED
    BY <1>6, <2>1, <2>2 DEF ServedInv
<1>9. OwnInv'
  <2>1. \A j \in StreamIds, p \in Procs :
          Own(p, j)' => sessions'[j] # Absent \/ \E w \in Workers : In(w, "add", j)'
    BY <1>1, <1>3, <1>6 DEF Inv, OwnInv
  <2>2. \A j \in StreamIds, p \in Procs :
          Own(p, j)' => j \in overlap' \/ \A w \in Workers : ~In(w, "system", j)'
    BY <1>1, <1>3, <1>6 DEF Inv, OwnInv
  <2> QED
    BY <2>1, <2>2 DEF OwnInv
<1>10. OverlapInv'
  BY <1>1 DEF Inv, OverlapInv, Opens
<1>11. TwoWritersExplained'
  <2> SUFFICES ASSUME NEW j \in StreamIds, NEW p \in Procs, NEW q \in Procs,
                      p # q, Own(p, j)', Own(q, j)'
               PROVE  j \in overlap'
    BY DEF TwoWritersExplained, Own
  <2>1. j # k /\ Own(p, j) /\ Own(q, j)
    BY <1>3
  <2>2. j \in overlap
    BY <2>1 DEF Inv, TwoWritersExplained, Own
  <2> QED
    BY <1>1, <2>1, <2>2
<1> QED
  BY <1>7, <1>8, <1>9, <1>10, <1>11 DEF Parts

(* The server goes, and every session with it *)
LEMMA CrashStep ==
  ASSUME Inv, ServerCrash
  PROVE  Parts'
<1>1. /\ \A k \in StreamIds : sessions'[k] = Absent
      /\ \A w \in Workers : opening'[w].stage = "none" /\ opening'[w].id = NULL
      /\ Disown(StreamIds)
  BY DEF ServerCrash, NoOpen
<1>2. \A p \in Procs : /\ muxer'[p].run = muxer[p].run /\ muxer'[p].id = muxer[p].id
                       /\ muxer'[p].misses = muxer[p].misses
                       /\ muxer'[p].owned = (muxer[p].owned /\ muxer[p].id \notin StreamIds)
  BY <1>1, MuxersFunction, Disowned DEF Inv
<1>3. \A p \in Procs, k \in StreamIds : ~Own(p, k)'
  BY <1>2 DEF Own, Writes
<1>4. IdInv'
  BY <1>1, <1>2 DEF Inv, IdInv
<1>5. ServedInv' /\ OverlapInv'
  BY <1>1, MediaCentreAssumption DEF ServedInv, OverlapInv, In
<1>6. OwnInv'
  BY <1>3 DEF OwnInv
<1>7. TwoWritersExplained'
  BY <1>3 DEF TwoWritersExplained, Own
<1> QED
  BY <1>4, <1>5, <1>6, <1>7 DEF Parts

LEMMA PartsStep == Inv /\ [Next]_vars => Parts'
<1> SUFFICES ASSUME Inv, [Next]_vars PROVE Parts'
  OBVIOUS
<1>0. /\ sessions \in [StreamIds -> 0..S!MaxAge \cup {NULL, Absent}]
      /\ muxer \in [Procs -> Muxers] /\ opening \in [Workers -> Opening]
      /\ \A p \in Procs : muxer[p].run # "off" => muxer[p].id \in StreamIds
      /\ \A p \in Procs : muxer[p].run \in {"open", "on"} => muxer[p].misses < MaxRetry
  BY MuxersFunction DEF Inv, IdInv
<1>1. ASSUME NEW w \in Workers, OpenSystem(w) PROVE Parts'
  BY <1>1, SystemStep
<1>2. ASSUME NEW w \in Workers, OpenAdd(w) PROVE Parts'
  <2> USE <1>2 DEF OpenAdd
  <2>1. PICK k \in StreamIds : opening[w].id = k
    BY DEF Inv, IdInv
  <2>2. /\ sessions'[k] # Absent /\ \A j \in StreamIds \ {k} : sessions'[j] = sessions[j]
    <3>1. ASSUME S!Insert(k)
          PROVE  sessions'[k] # Absent /\ \A j \in StreamIds \ {k} : sessions'[j] = sessions[j]
      BY <1>0, <3>1, MediaCentreAssumption DEF S!Insert
    <3>2. ASSUME S!Touch(k)
          PROVE  sessions'[k] # Absent /\ \A j \in StreamIds \ {k} : sessions'[j] = sessions[j]
      BY <1>0, <3>2, MediaCentreAssumption DEF S!Touch
    <3> QED
      BY <2>1, <3>1, <3>2
  <2>3. /\ \/ opening'[w].stage = "none" /\ opening'[w].id = NULL
           \/ opening'[w].stage = "store" /\ opening'[w].id = k
        /\ \A v \in Workers \ {w} : opening'[v] = opening[v]
    BY <1>0, <2>1, Staged, Closed
  <2> QED
    BY <2>1, <2>2, <2>3, OpenStep
<1>3. ASSUME NEW w \in Workers, OpenStore(w) PROVE Parts'
  <2> USE <1>3 DEF OpenStore
  <2>1. PICK k \in StreamIds : opening[w].id = k
    BY DEF Inv, IdInv
  <2>2. /\ sessions'[k] # Absent \/ UNCHANGED sessions
        /\ \A j \in StreamIds \ {k} : sessions'[j] = sessions[j]
    BY <1>0, <2>1, MediaCentreAssumption DEF S!Touch
  <2>3. /\ opening'[w].stage = "none" /\ opening'[w].id = NULL
        /\ \A v \in Workers \ {w} : opening'[v] = opening[v]
    BY <1>0, Closed
  <2> QED
    BY <2>1, <2>2, <2>3, OpenStep
<1>4. ASSUME NEW w \in Workers, NEW k \in StreamIds, OpenCheck(w, k) PROVE Parts'
  BY <1>4, CheckStep
<1>5. ASSUME NEW k \in StreamIds, Use(k) PROVE Parts'
  <2>1. UNCHANGED <<opening, muxer, ended, overlap>>
    BY <1>5 DEF Use
  <2>2. \A j \in StreamIds : (sessions'[j] = Absent) <=> (sessions[j] = Absent)
    BY <1>0, <1>5, MediaCentreAssumption DEF Use, S!Touch
  <2> QED
    BY <1>0, <2>1, <2>2, MuxerStep DEF Own, Writes
<1>6. ASSUME NEW k \in StreamIds, Sweep(k) PROVE Parts'
  BY <1>6, SweepStep
<1>7. ASSUME NEW k \in StreamIds, Browse(k) PROVE Parts'
  <2>1. UNCHANGED <<opening, muxer, ended, overlap, sessions>>
    BY <1>7 DEF Browse
  <2> QED
    BY <1>0, <2>1, MuxerStep DEF Own, Writes
<1>8. ASSUME NEW p \in Procs, NEW run \in {"on", "exit"}, NEW misses \in 0..MaxRetry,
             Beats(p), Beaten(p, run, misses), run = "on" => misses < MaxRetry
      PROVE  Parts'
  <2>1. UNCHANGED <<opening, ended, overlap, sessions>> /\ muxer[p].run = "on"
    BY <1>8 DEF Beaten, Beats
  <2>2. /\ muxer'[p].run = run /\ muxer'[p].misses = misses
        /\ muxer'[p].id = muxer[p].id /\ muxer'[p].owned = muxer[p].owned
        /\ \A q \in Procs \ {p} : muxer'[q] = muxer[q]
    BY <1>0, <1>8, AfterBeat
  <2>3. \A q \in Procs : (muxer'[q].run = "off") <=> (muxer[q].run = "off")
    BY <1>8, <2>1, <2>2
  <2>4. \A q \in Procs, k \in StreamIds : (Own(q, k)' <=> Own(q, k)) /\ (Writes(q, k)' <=> Writes(q, k))
    BY <2>2, <2>3 DEF Own, Writes
  <2>5. \A q \in Procs : /\ muxer'[q].run # "off" => muxer'[q].id \in StreamIds
                         /\ muxer'[q].run \in {"open", "on"} => muxer'[q].misses < MaxRetry
    BY <1>0, <1>8, <2>2, <2>3
  <2> QED
    BY <2>1, <2>4, <2>5, MuxerStep
<1>9. ASSUME NEW p \in Procs, BeatAnswered(p) PROVE Parts'
  <2>1. Beats(p) /\ \E run \in {"on", "exit"} : Beaten(p, run, 0)
    BY <1>9 DEF BeatAnswered
  <2>2. 0 \in 0..MaxRetry /\ 0 < MaxRetry
    BY MediaCentreAssumption
  <2> QED
    BY <2>1, <2>2, <1>8
<1>10. ASSUME NEW p \in Procs, BeatFails(p) PROVE Parts'
  <2>1. Beats(p) /\ muxer[p].misses < MaxRetry /\ muxer[p].misses \in 0..MaxRetry
    BY <1>0, <1>10 DEF BeatFails, Beats, Muxers
  <2>2. PICK misses \in 0..MaxRetry : misses = muxer[p].misses + 1
    BY <2>1, MediaCentreAssumption
  <2>3. Beaten(p, IF misses >= MaxRetry THEN "exit" ELSE "on", misses)
    BY <1>10, <2>2 DEF BeatFails
  <2>4. CASE misses >= MaxRetry
    BY <1>8, <2>1, <2>3, <2>4
  <2>5. CASE misses < MaxRetry
    <3>1. ~(misses >= MaxRetry)
      BY <2>5, MediaCentreAssumption
    <3> QED
      BY <1>8, <2>1, <2>3, <2>5, <3>1
  <2> QED
    BY <2>4, <2>5, MediaCentreAssumption
<1>11. ASSUME NEW p \in Procs, muxer[p].run # "off", MuxerGone(p) PROVE Parts'
  <2>1. /\ UNCHANGED <<opening, overlap, sessions>> /\ ended' = ended \cup {muxer[p].id}
        /\ muxer' = [muxer EXCEPT ![p] = NoMuxer]
    BY <1>11 DEF MuxerGone
  <2>2. muxer'[p].run = "off" /\ ~muxer'[p].owned /\ \A q \in Procs \ {p} : muxer'[q] = muxer[q]
    BY <1>0, <2>1, Goes
  <2>3. \A q \in Procs, k \in StreamIds : Own(q, k)' => Own(q, k)
    BY <2>2 DEF Own, Writes
  <2>4. \A q \in Procs, k \in StreamIds : Writes(q, k) => Writes(q, k)' \/ k \in ended'
    BY <2>1, <2>2 DEF Writes
  <2>5. \A q \in Procs : /\ muxer'[q].run # "off" => muxer'[q].id \in StreamIds
                         /\ muxer'[q].run \in {"open", "on"} => muxer'[q].misses < MaxRetry
    BY <1>0, <2>2
  <2> QED
    BY <2>1, <2>3, <2>4, <2>5, MuxerStep
<1>12. ASSUME NEW p \in Procs, MuxerExits(p) \/ MuxerEnds(p) PROVE Parts'
  BY <1>11, <1>12 DEF MuxerExits, MuxerEnds
<1>13. ASSUME NEW p \in Procs, NEW k \in StreamIds, StartByHand(p, k) PROVE Parts'
  <2>1. PICK standalone \in BOOLEAN :
          /\ UNCHANGED <<opening, overlap, ended, sessions>> /\ muxer[p] = NoMuxer
          /\ muxer' = [muxer EXCEPT ![p] = NewMuxer(k, standalone, FALSE)]
    BY <1>13 DEF StartByHand
  <2>2. /\ muxer'[p].run = "open" /\ muxer'[p].id = k /\ muxer'[p].misses = 0
        /\ ~muxer'[p].owned /\ \A q \in Procs \ {p} : muxer'[q] = muxer[q]
    BY <1>0, <2>1, Starts
  <2>3. muxer[p].run = "off" /\ 0 < MaxRetry
    BY <2>1, MediaCentreAssumption DEF NoMuxer
  <2>4. \A q \in Procs, j \in StreamIds : Own(q, j)' => Own(q, j)
    BY <2>2 DEF Own, Writes
  <2>5. \A q \in Procs, j \in StreamIds : Writes(q, j) => Writes(q, j)'
    BY <2>2, <2>3 DEF Writes
  <2>6. \A q \in Procs : /\ muxer'[q].run # "off" => muxer'[q].id \in StreamIds
                         /\ muxer'[q].run \in {"open", "on"} => muxer'[q].misses < MaxRetry
    BY <1>0, <2>2, <2>3
  <2> QED
    BY <2>1, <2>4, <2>5, <2>6, MuxerStep
<1>14. ASSUME Tick PROVE Parts'
  <2>1. UNCHANGED <<opening, muxer, ended, overlap>>
    BY <1>14 DEF Tick
  <2>2. \A k \in StreamIds : (sessions'[k] = Absent) <=> (sessions[k] = Absent)
    <3>1. ASSUME NEW k \in StreamIds, sessions[k] \in 0..S!MaxAge PROVE sessions'[k] \in Nat
      BY <1>14, <3>1, MediaCentreAssumption DEF Tick, S!Tick, S!Older, S!MaxAge
    <3>2. ASSUME NEW k \in StreamIds, sessions[k] \in {NULL, Absent} PROVE sessions'[k] = sessions[k]
      BY <1>14, <3>2 DEF Tick, S!Tick
    <3>3. Absent \notin Nat /\ 0..S!MaxAge \subseteq Nat
      BY MediaCentreAssumption
    <3> QED
      BY <1>0, <3>1, <3>2, <3>3
  <2> QED
    BY <1>0, <2>1, <2>2, MuxerStep DEF Own, Writes
<1>15. CASE ServerCrash
  BY <1>15, CrashStep
<1>16. CASE ServerStart \/ UNCHANGED vars
  <2>1. UNCHANGED <<opening, muxer, ended, overlap, sessions>>
    BY <1>16 DEF ServerStart, vars
  <2> QED
    BY <1>0, <2>1, MuxerStep DEF Own, Writes
<1>17. ASSUME NEW p \in Procs, MuxerOpens(p) PROVE Parts'
  <2>1. UNCHANGED <<opening, ended, overlap, sessions>> /\ muxer[p].run = "open"
    BY <1>17 DEF MuxerOpens
  <2>2. /\ muxer'[p].run = "on" /\ muxer'[p].misses = muxer[p].misses
        /\ muxer'[p].id = muxer[p].id /\ muxer'[p].owned = muxer[p].owned
        /\ \A q \in Procs \ {p} : muxer'[q] = muxer[q]
    BY <1>0, <1>17, AfterOpen
  <2>3. \A q \in Procs : (muxer'[q].run = "off") <=> (muxer[q].run = "off")
    BY <2>1, <2>2
  <2>4. \A q \in Procs, k \in StreamIds : (Own(q, k)' <=> Own(q, k)) /\ (Writes(q, k)' <=> Writes(q, k))
    BY <2>2, <2>3 DEF Own, Writes
  <2>5. \A q \in Procs : /\ muxer'[q].run # "off" => muxer'[q].id \in StreamIds
                         /\ muxer'[q].run \in {"open", "on"} => muxer'[q].misses < MaxRetry
    BY <1>0, <2>1, <2>2
  <2> QED
    BY <2>1, <2>4, <2>5, MuxerStep
<1> QED
  BY <1>1, <1>2, <1>3, <1>4, <1>5, <1>6, <1>7, <1>9, <1>10, <1>12, <1>13, <1>14, <1>15, <1>16, <1>17
     DEF Next, Worker, Beat

LEMMA InvStep == Inv /\ [Next]_vars => Inv'
BY TypeStep, PartsStep DEF Inv, Parts

LEMMA InvHolds == Spec => []Inv
BY InvInit, InvStep, PTL DEF Spec

-----------------------------------------------------------------------------

(* Every variable of the server, the muxers and the pages has its type. *)
THEOREM TypeCorrect == Spec => []TypeOK
BY InvHolds, PTL DEF Inv

(* However many opens, sweeps, crashes of the server and ends of muxers     *)
(* there are, a stream in the registry has a muxer that writes it, or one   *)
(* of its muxers is known to have ended or not to have started.             *)
THEOREM RunningAlwaysServed == Spec => []RunningIsServed
<1>1. Inv => RunningIsServed
  BY DEF Inv, ServedInv, Served, RunningIsServed
<1> QED
  BY InvHolds, <1>1, PTL

(* For any number of workers of the server: while a session lasts, the      *)
(* server starts a second writer of its directory only if two opens of the  *)
(* stream were under way at once.                                           *)
THEOREM TwoWritersNeedOverlap == Spec => []TwoWritersExplained
BY InvHolds, PTL DEF Inv
=============================================================================
