------------------------- MODULE SharedMemoryProofs -------------------------
(***************************************************************************)
(* The safety properties of SharedMemory, for any number of runs, rings and*)
(* configurations.                                                         *)
(*                                                                         *)
(* One daemon runs at a time, so a step concerns the one process that acts *)
(* (Holding, InUse) while all others hold nothing: Alone and OneActs say   *)
(* this once, and each action is then a statement about one process.       *)
(***************************************************************************)
EXTENDS SharedMemory, TLAPS

\* Every daemon before d is gone and none after it has started.
Alone(d) ==
    \A e \in Daemons : (e < d => Gone(e)) /\ (d < e => pc[e] = "off")

\* Two rings never have the same name, also where capture meets playback.
LEMMA NamesDiffer ==
    ASSUME NEW r \in Rings, NEW s \in Rings, ShmName(r) = ShmName(s)
    PROVE  r = s
  BY RingsAssumption DEF ShmName, Rings, NRings

\* No object is None.
LEMMA ObjectsNotNone == \A d \in Daemons, r \in Rings : <<d, r>> \in Objects /\ <<d, r>> # None
  BY RunsAssumption DEF Daemons, Objects, None

\* Every ring has a name among Names, and every name is that of a ring.
LEMMA NamesOfRings ==
    /\ \A r \in Rings : ShmName(r) \in Names
    /\ \A n \in Names : \E r \in Rings : n = ShmName(r)
  BY DEF Names

\* There is a first ring.
LEMMA FirstRing == 1 \in Rings /\ NRings \in Nat /\ Rings \subseteq Nat \ {0}
  BY RingsAssumption DEF Rings, NRings

\* A daemon that is alive is alone.
LEMMA LiveAlone ==
    ASSUME IInv, NEW d \in Daemons, Live(d)
    PROVE  Alone(d)
  BY DEF IInv, OneAtATime, Live, Gone, Alone

\* The region of a ring was made for that ring, so two rings have two regions.
LEMMA OwnRing ==
    ASSUME IInv, NEW d \in Daemons, NEW r \in Rings, mapped[d][r] # None
    PROVE  mapped[d][r] \in Objects /\ mapped[d][r][2] = r
  BY DEF IInv, TypeOK, RegionInv, InUse, NamesInv

\* A step of a daemon that is alone leaves the others as idle as they were, so
\* the invariant is a matter of that daemon.
LEMMA OneActs ==
    ASSUME IInv, NEW d \in Daemons, Alone(d), TypeOK', NamesInv',
           pc'[d] # "off",
           \A e \in Daemons \ {d} :
               /\ pc'[e] = pc[e]
               /\ at'[e] = at[e]
               /\ fd'[e] = fd[e]
               /\ mapped'[e] = mapped[e]
               /\ doomed'[e] = doomed[e],
           Holding(d)',
           \A r \in Rings : mapped'[d][r] # None => InUse(d, r)'
    PROVE  IInv'
  <1>1. OneAtATime'
    BY RunsAssumption DEF Alone, OneAtATime, Gone, Daemons, IInv
  <1>2. ASSUME NEW e \in Daemons, e # d
        PROVE  Holding(e)' /\ \A r \in Rings : mapped'[e][r] = None
    <2>1. pc[e] \in {"off", "over", "crashed"}
      BY <1>2 DEF Alone, Gone, Daemons
    <2>2. Holding(e)
      BY DEF IInv, ProcessInv
    <2>3. fd[e] = None /\ doomed[e] = 0 /\ \A r \in Rings : mapped[e][r] = None
      <3>1. fd[e] = None
        BY <2>1, <2>2 DEF Holding
      <3>2. doomed[e] = 0
        BY <2>1, <2>2 DEF Holding
      <3>3. \A r \in Rings : mapped[e][r] = None
        BY <2>1, <2>2 DEF Holding, Live
      <3> QED BY <3>1, <3>2, <3>3
    <2>4. pc'[e] = pc[e] /\ at'[e] = at[e] /\ fd'[e] = None /\ doomed'[e] = 0 /\ mapped'[e] = mapped[e]
      BY <1>2, <2>3
    <2> QED BY <2>1, <2>2, <2>3, <2>4 DEF Holding, Live
  <1>3. ProcessInv'
    BY <1>2 DEF ProcessInv
  <1>4. RegionInv'
    BY <1>2 DEF RegionInv
  <1> QED BY <1>1, <1>3, <1>4 DEF IInv
-----------------------------------------------------------------------------
\* The machine before the first run satisfies the invariant.
THEOREM InitIInv == Init => IInv
  <1> SUFFICES ASSUME Init PROVE IInv
    OBVIOUS
  <1> USE DEF Init
  <1>1. TypeOK
    BY FirstRing DEF TypeOK, Pcs, Headers, Zeroed
  <1>2. OneAtATime /\ NamesInv
    BY NamesOfRings DEF OneAtATime, NamesInv
  <1>3. ProcessInv
    BY DEF ProcessInv, Holding
  <1>4. RegionInv
    BY DEF RegionInv
  <1> QED BY <1>1, <1>2, <1>3, <1>4 DEF IInv
-----------------------------------------------------------------------------
\* Reading the configuration.
LEMMA StartKeeps ==
    ASSUME IInv, NEW d \in Daemons, Supervised(d), Start(d)
    PROVE  IInv'
  <1> USE DEF Start, Goto, kernel, process
  <1>1. Alone(d)
    BY DEF IInv, Supervised, OneAtATime, Alone, Gone, Daemons
  <1>2. TypeOK'
    BY SizesAssumption DEF IInv, TypeOK, Pcs
  <1>3. NamesInv'
    BY DEF IInv, NamesInv
  <1>4. pc'[d] # "off"
    BY DEF IInv, TypeOK
  <1>5. \A e \in Daemons \ {d} :
            pc'[e] = pc[e] /\ at'[e] = at[e] /\ fd'[e] = fd[e] /\ mapped'[e] = mapped[e]
            /\ doomed'[e] = doomed[e]
    BY DEF IInv
  <1>6. Holding(d)'
    <2>1. Holding(d)
      BY DEF IInv, ProcessInv
    <2>2. /\ fd[d] = None /\ doomed[d] = 0 /\ at[d] = 1
          /\ \A r \in Rings : mapped[d][r] = None
      BY <2>1 DEF Holding, Live
    <2>3. /\ pc'[d] = "creating"
          /\ fd'[d] = None /\ doomed'[d] = 0 /\ at'[d] = 1
          /\ \A r \in Rings : mapped'[d][r] = None
      BY <2>2 DEF IInv, TypeOK
    <2> QED BY <2>3, FirstRing DEF Holding
  <1>7. ASSUME NEW r \in Rings, mapped'[d][r] # None
        PROVE  InUse(d, r)'
    BY <1>7 DEF IInv, InUse, Holding, ProcessInv, Live
  <1> QED BY <1>1, <1>2, <1>3, <1>4, <1>5, <1>6, <1>7, OneActs

\* A new object under a free name.
LEMMA CreateNewKeeps ==
    ASSUME IInv, NEW d \in Daemons, CreateNew(d)
    PROVE  IInv'
  <1> USE DEF CreateNew, Goto, kernel, process
  <1>1. Alone(d)
    BY LiveAlone DEF Live
  <1>2. TypeOK'
    BY ObjectsNotNone DEF IInv, TypeOK, Pcs
  <1>3. NamesInv'
    BY NamesDiffer DEF IInv, TypeOK, NamesInv, Here
  <1>4. pc'[d] # "off"
    BY DEF IInv
  <1>5. \A e \in Daemons \ {d} :
            pc'[e] = pc[e] /\ at'[e] = at[e] /\ fd'[e] = fd[e] /\ mapped'[e] = mapped[e]
            /\ doomed'[e] = doomed[e]
    BY DEF IInv
  <1>6. Holding(d)'
    BY NamesOfRings, ObjectsNotNone DEF IInv, Holding, TypeOK, ProcessInv,
       Live, Here
  <1>7. ASSUME NEW r \in Rings, mapped'[d][r] # None
        PROVE  InUse(d, r)'
    BY <1>7, NamesOfRings, NamesDiffer DEF IInv, InUse, Holding, RegionInv,
       Headed
  <1> QED BY <1>1, <1>2, <1>3, <1>4, <1>5, <1>6, <1>7, OneActs

\* A refused exclusive create.
LEMMA CreateRefusedKeeps ==
    ASSUME IInv, NEW d \in Daemons, CreateRefused(d)
    PROVE  IInv'
  <1> USE DEF CreateRefused, Goto, kernel, process
  <1>1. Alone(d)
    BY LiveAlone DEF Live
  <1>2. TypeOK'
    BY DEF IInv, TypeOK, Pcs
  <1>3. NamesInv'
    BY DEF IInv, NamesInv
  <1>4. pc'[d] # "off"
    BY DEF IInv
  <1>5. \A e \in Daemons \ {d} :
            pc'[e] = pc[e] /\ at'[e] = at[e] /\ fd'[e] = fd[e] /\ mapped'[e] = mapped[e]
            /\ doomed'[e] = doomed[e]
    BY DEF IInv
  <1>6. Holding(d)'
    BY DEF IInv, Holding, ProcessInv, Live
  <1>7. ASSUME NEW r \in Rings, mapped'[d][r] # None
        PROVE  InUse(d, r)'
    BY <1>7 DEF IInv, InUse, Holding, RegionInv, Headed
  <1> QED BY <1>1, <1>2, <1>3, <1>4, <1>5, <1>6, <1>7, OneActs

\* Opening the object that is there.
LEMMA OpenOldKeeps ==
    ASSUME IInv, NEW d \in Daemons, OpenOld(d)
    PROVE  IInv'
  <1> USE DEF OpenOld, Goto, kernel, process
  <1>1. Alone(d)
    BY LiveAlone DEF Live
  <1>2. TypeOK'
    BY NamesOfRings DEF IInv, TypeOK, Pcs, Here
  <1>3. NamesInv'
    BY DEF IInv, NamesInv
  <1>4. pc'[d] # "off"
    BY DEF IInv
  <1>5. \A e \in Daemons \ {d} :
            pc'[e] = pc[e] /\ at'[e] = at[e] /\ fd'[e] = fd[e] /\ mapped'[e] = mapped[e]
            /\ doomed'[e] = doomed[e]
    BY DEF IInv
  <1>6. Holding(d)'
    BY DEF IInv, Holding, TypeOK, ProcessInv, Live, Here
  <1>7. ASSUME NEW r \in Rings, mapped'[d][r] # None
        PROVE  InUse(d, r)'
    BY <1>7 DEF IInv, InUse, Holding, RegionInv, Headed
  <1> QED BY <1>1, <1>2, <1>3, <1>4, <1>5, <1>6, <1>7, OneActs

\* Setting the size: of an object no ring in use maps.
LEMMA SetSizeKeeps ==
    ASSUME IInv, NEW d \in Daemons, SetSize(d)
    PROVE  IInv'
  <1> USE DEF SetSize, Goto, kernel, process
  <1>1. Alone(d)
    BY LiveAlone DEF Live
  <1>2. TypeOK'
    BY DEF IInv, TypeOK, Pcs
  <1>3. NamesInv'
    BY DEF IInv, NamesInv
  <1>4. pc'[d] # "off"
    BY DEF IInv
  <1>5. \A e \in Daemons \ {d} :
            pc'[e] = pc[e] /\ at'[e] = at[e] /\ fd'[e] = fd[e] /\ mapped'[e] = mapped[e]
            /\ doomed'[e] = doomed[e]
    BY DEF IInv
  <1>6. Holding(d)'
    <2>1. Holding(d)
      BY DEF IInv, ProcessInv
    <2>2. pc'[d] = "mapping" /\ fd[d] # None
      BY <2>1 DEF Holding, IInv, TypeOK
    <2>3. size'[fd[d]] = frames[d]
      BY <2>2 DEF IInv, TypeOK
    <2> QED BY <2>1, <2>2, <2>3 DEF Holding, Live, Here
  <1>7. ASSUME NEW r \in Rings, mapped'[d][r] # None
        PROVE  InUse(d, r)'
    <2>1. Holding(d) /\ mapped[d][r] # None
      BY <1>7 DEF IInv, ProcessInv
    <2>2. fd[d] = dir[ShmName(at[d])] /\ fd[d] # None /\ r < at[d]
      BY <2>1 DEF Holding, Here
    <2>3. fd[d][2] = at[d] /\ mapped[d][r][2] = r
      BY <2>1, <2>2, OwnRing DEF IInv, TypeOK, NamesInv
    <2>4. mapped[d][r] # fd[d]
      BY <2>2, <2>3, FirstRing
    <2>5. InUse(d, r) /\ size'[mapped[d][r]] = size[mapped[d][r]]
      BY <2>1, <2>4 DEF IInv, RegionInv
    <2>6. pc'[d] = "mapping" /\ pc[d] = "sizing"
      BY DEF IInv, TypeOK
    <2> QED BY <2>5, <2>6 DEF InUse, Headed
  <1> QED BY <1>1, <1>2, <1>3, <1>4, <1>5, <1>6, <1>7, OneActs

\* The mapping becomes a ring in use.
LEMMA MapKeeps ==
    ASSUME IInv, NEW d \in Daemons, Map(d)
    PROVE  IInv'
  <1> USE DEF Map, Goto, kernel, process
  <1>1. Alone(d)
    BY LiveAlone DEF Live
  <1>2. TypeOK'
    BY DEF IInv, TypeOK, Pcs
  <1>3. NamesInv'
    BY DEF IInv, NamesInv
  <1>4. pc'[d] # "off"
    BY DEF IInv
  <1>5. \A e \in Daemons \ {d} :
            pc'[e] = pc[e] /\ at'[e] = at[e] /\ fd'[e] = fd[e] /\ mapped'[e] = mapped[e]
            /\ doomed'[e] = doomed[e]
    BY DEF IInv
  <1>6. Holding(d)'
    <2>1. Holding(d) /\ fd[d] # None /\ at[d] \in Rings
      BY DEF IInv, Holding, TypeOK, ProcessInv
    <2>2. pc'[d] = "heading" /\ fd'[d] = None
      BY DEF IInv, TypeOK
    <2>3. doomed'[d] = 0
      BY <2>1 DEF Holding
    <2>4. ASSUME NEW r \in Rings
          PROVE  mapped'[d][r] # None <=> r <= at[d]
      <3>1. CASE r = at[d]
        BY <2>1, <3>1, FirstRing DEF IInv, TypeOK
      <3>2. CASE r # at[d]
        <4>1. mapped'[d][r] = mapped[d][r]
          BY <3>2 DEF IInv
        <4> QED BY <2>1, <3>2, <4>1, FirstRing DEF Holding
      <3> QED BY <3>1, <3>2
    <2> QED BY <2>2, <2>3, <2>4 DEF Holding, Live
  <1>7. ASSUME NEW r \in Rings, mapped'[d][r] # None
        PROVE  InUse(d, r)'
    <2>1. Holding(d) /\ fd[d] # None /\ at[d] \in Rings
      BY DEF IInv, Holding, TypeOK, ProcessInv
    <2>2. pc'[d] = "heading"
      BY DEF IInv, TypeOK
    <2>3. CASE r = at[d]
      <3>1. mapped'[d][r] = fd[d]
        BY <2>3 DEF IInv, TypeOK
      <3>2. dir[ShmName(r)] = fd[d] /\ size[fd[d]] = frames[d]
        BY <2>1, <2>3 DEF Holding, Here
      <3> QED BY <2>2, <2>3, <3>1, <3>2 DEF InUse, Headed
    <2>4. CASE r # at[d]
      <3>1. mapped'[d][r] = mapped[d][r]
        BY <2>4 DEF IInv
      <3>2. InUse(d, r)
        BY <1>7, <3>1 DEF IInv, RegionInv
      <3> QED BY <2>2, <2>4, <3>1, <3>2 DEF InUse, Headed
    <2> QED BY <2>3, <2>4
  <1> QED BY <1>1, <1>2, <1>3, <1>4, <1>5, <1>6, <1>7, OneActs

\* The header makes the ring empty, stopped and of its size.
LEMMA WriteHeaderKeeps ==
    ASSUME IInv, NEW d \in Daemons, WriteHeader(d)
    PROVE  IInv'
  <1> USE DEF WriteHeader, Goto, kernel, process
  <1>1. Alone(d)
    BY LiveAlone DEF Live
  <1>2. TypeOK'
    <2>1. pc' \in [Daemons -> Pcs]
      BY DEF IInv, TypeOK, Pcs
    <2>2. at' \in [Daemons -> Rings]
      <3>1. at[d] < NRings => at[d] + 1 \in Rings
        BY FirstRing DEF IInv, TypeOK, Rings
      <3> QED BY <3>1 DEF IInv, TypeOK
    <2>3. header' \in [Objects -> Headers]
      BY DEF IInv, TypeOK, Headers, Zeroed
    <2> QED BY <2>1, <2>2, <2>3 DEF IInv, TypeOK
  <1>3. NamesInv'
    BY DEF IInv, NamesInv
  <1>4. pc'[d] # "off"
    BY DEF IInv, TypeOK
  <1>5. \A e \in Daemons \ {d} :
            pc'[e] = pc[e] /\ at'[e] = at[e] /\ fd'[e] = fd[e] /\ mapped'[e] = mapped[e]
            /\ doomed'[e] = doomed[e]
    BY DEF IInv, TypeOK
  <1>6. Holding(d)'
    <2>1. Holding(d) /\ at[d] \in Rings
      BY DEF IInv, TypeOK, ProcessInv
    <2>2. /\ fd[d] = None /\ doomed[d] = 0
          /\ \A r \in Rings : mapped[d][r] # None <=> r <= at[d]
      BY <2>1 DEF Holding
    <2>3. CASE at[d] < NRings
      <3>1. pc'[d] = "creating" /\ at'[d] = at[d] + 1
        BY <2>3 DEF IInv, TypeOK
      <3>2. \A r \in Rings : r <= at[d] <=> r < at[d] + 1
        BY <2>1, FirstRing
      <3> QED BY <2>2, <3>1, <3>2 DEF Holding, Live
    <2>4. CASE ~(at[d] < NRings)
      <3>1. pc'[d] = "serving"
        BY <2>4 DEF IInv, TypeOK
      <3>2. \A r \in Rings : r <= at[d]
        BY <2>1, <2>4, FirstRing DEF Rings
      <3> QED BY <2>2, <3>1, <3>2 DEF Holding, Live
    <2> QED BY <2>3, <2>4
  <1>7. ASSUME NEW r \in Rings, mapped'[d][r] # None
        PROVE  InUse(d, r)'
    <2>1. Holding(d) /\ at[d] \in Rings /\ mapped[d][r] # None
      BY <1>7 DEF IInv, TypeOK, ProcessInv
    <2>2. mapped[d][at[d]] # None /\ r <= at[d]
      BY <2>1, FirstRing DEF Holding
    <2>3. InUse(d, r)
      BY <2>1 DEF IInv, RegionInv
    <2>4. mapped[d][r] \in Objects
      BY <2>1, OwnRing
    <2>5. CASE r = at[d]
      <3>1. header'[mapped[d][r]] = [Zeroed EXCEPT !.frames = frames[d]]
        BY <2>4, <2>5 DEF IInv, TypeOK
      <3>2. /\ header'[mapped[d][r]].frames = frames[d]
            /\ header'[mapped[d][r]].unread = FALSE
            /\ header'[mapped[d][r]].running = FALSE
        BY <3>1 DEF Zeroed
      <3> QED BY <2>3, <3>2 DEF InUse
    <2>6. CASE r # at[d]
      <3>1. mapped[d][r] # mapped[d][at[d]]
        BY <2>1, <2>2, <2>6, OwnRing
      <3>2. header'[mapped[d][r]] = header[mapped[d][r]]
        BY <2>4, <3>1 DEF IInv
      <3> QED BY <2>3, <2>6, <3>2 DEF InUse, Headed
    <2> QED BY <2>5, <2>6
  <1> QED BY <1>1, <1>2, <1>3, <1>4, <1>5, <1>6, <1>7, OneActs

\* A failed system call.
LEMMA CreateFailsKeeps ==
    ASSUME IInv, NEW d \in Daemons, CreateFails(d)
    PROVE  IInv'
  <1> USE DEF CreateFails, Goto, kernel, process
  <1>1. Alone(d)
    BY LiveAlone DEF Live
  <1>2. TypeOK'
    BY DEF IInv, TypeOK, Pcs
  <1>3. NamesInv'
    BY DEF IInv, NamesInv
  <1>4. pc'[d] # "off"
    BY DEF IInv
  <1>5. \A e \in Daemons \ {d} :
            pc'[e] = pc[e] /\ at'[e] = at[e] /\ fd'[e] = fd[e] /\ mapped'[e] = mapped[e]
            /\ doomed'[e] = doomed[e]
    BY DEF IInv
  <1>6. Holding(d)'
    BY DEF IInv, Holding, TypeOK, ProcessInv, Live
  <1>7. ASSUME NEW r \in Rings, mapped'[d][r] # None
        PROVE  InUse(d, r)'
    BY <1>7 DEF IInv, InUse, Holding, RegionInv, Headed
  <1> QED BY <1>1, <1>2, <1>3, <1>4, <1>5, <1>6, <1>7, OneActs

\* The bridges at work keep the geometry in the header.
LEMMA ServeKeeps ==
    ASSUME IInv, NEW d \in Daemons, Serve(d)
    PROVE  IInv'
  <1> USE DEF Serve, Goto, kernel, process
  <1>1. Alone(d)
    BY LiveAlone DEF Live
  <1>2. TypeOK'
    <2>1. \A h \in Headers : \A u, v \in BOOLEAN :
              [h EXCEPT !.unread = u, !.running = v] \in Headers
      BY DEF Headers
    <2>2. PICK r \in Rings, u \in BOOLEAN, v \in BOOLEAN :
              header' = [header EXCEPT ![mapped[d][r]] =
                            [@ EXCEPT !.unread = u, !.running = v]]
      OBVIOUS
    <2>3. header \in [Objects -> Headers]
      BY DEF IInv, TypeOK
    <2>4. header' \in [Objects -> Headers]
      BY <2>1, <2>2, <2>3
    <2> QED BY <2>4 DEF IInv, TypeOK
  <1>3. NamesInv'
    BY DEF IInv, NamesInv
  <1>4. pc'[d] # "off"
    BY DEF IInv
  <1>5. \A e \in Daemons \ {d} :
            pc'[e] = pc[e] /\ at'[e] = at[e] /\ fd'[e] = fd[e] /\ mapped'[e] = mapped[e]
            /\ doomed'[e] = doomed[e]
    BY DEF IInv
  <1>6. Holding(d)'
    BY DEF IInv, Holding, ProcessInv, Live
  <1>7. ASSUME NEW r \in Rings, mapped'[d][r] # None
        PROVE  InUse(d, r)'
    BY <1>7 DEF IInv, InUse, Holding, RegionInv, Headed
  <1> QED BY <1>1, <1>2, <1>3, <1>4, <1>5, <1>6, <1>7, OneActs

\* The end of main.
LEMMA ExitKeeps ==
    ASSUME IInv, NEW d \in Daemons, Exit(d)
    PROVE  IInv'
  <1> USE DEF Exit, Goto, kernel, process
  <1>1. Alone(d)
    BY LiveAlone DEF Live
  <1>2. TypeOK'
    BY DEF IInv, TypeOK, Pcs
  <1>3. NamesInv'
    BY DEF IInv, NamesInv
  <1>4. pc'[d] # "off"
    BY DEF IInv
  <1>5. \A e \in Daemons \ {d} :
            pc'[e] = pc[e] /\ at'[e] = at[e] /\ fd'[e] = fd[e] /\ mapped'[e] = mapped[e]
            /\ doomed'[e] = doomed[e]
    BY DEF IInv
  <1>6. Holding(d)'
    BY DEF IInv, Holding, ProcessInv, Live
  <1>7. ASSUME NEW r \in Rings, mapped'[d][r] # None
        PROVE  InUse(d, r)'
    BY <1>7 DEF IInv, InUse, Holding, RegionInv, Headed
  <1> QED BY <1>1, <1>2, <1>3, <1>4, <1>5, <1>6, <1>7, OneActs

\* Unmapping a ring.
LEMMA UnmapKeeps ==
    ASSUME IInv, NEW d \in Daemons, Unmap(d)
    PROVE  IInv'
  <1> USE DEF Unmap, Goto, kernel, process
  <1>1. Alone(d)
    BY LiveAlone DEF Live
  <1>2. TypeOK'
    BY DEF IInv, TypeOK, Rings
  <1>3. NamesInv'
    BY DEF IInv, NamesInv
  <1>4. pc'[d] # "off"
    BY DEF IInv
  <1>5. \A e \in Daemons \ {d} :
            pc'[e] = pc[e] /\ at'[e] = at[e] /\ fd'[e] = fd[e] /\ mapped'[e] = mapped[e]
            /\ doomed'[e] = doomed[e]
    BY DEF IInv
  <1>6. Holding(d)'
    <2>1. Holding(d)
      BY DEF IInv, ProcessInv
    <2>2. PICK s \in Rings :
              /\ mapped[d][s] # None
              /\ mapped' = [mapped EXCEPT ![d][s] = None]
              /\ doomed' = [doomed EXCEPT ![d] = s]
      OBVIOUS
    <2>3. /\ doomed'[d] = s /\ mapped'[d][s] = None
          /\ \A r \in Rings \ {s} : mapped'[d][r] = mapped[d][r]
      BY <2>2 DEF IInv, TypeOK
    <2>4. fd[d] = None /\ doomed[d] = 0
      BY <2>1 DEF Holding
    <2>5. ASSUME NEW r \in Rings, mapped'[d][r] = None, doomed'[d] # r,
                 pc[d] = "dropping" \/ (pc[d] = "failing" /\ r < at[d])
          PROVE  dir[ShmName(r)] = None
      <3>1. mapped[d][r] = None /\ doomed[d] # r
        BY <2>3, <2>4, <2>5 DEF Rings
      <3> QED BY <2>1, <2>5, <3>1 DEF Holding
    <2> QED BY <2>3, <2>4, <2>5 DEF Holding, Live
  <1>7. ASSUME NEW r \in Rings, mapped'[d][r] # None
        PROVE  InUse(d, r)'
    BY <1>7 DEF IInv, InUse, Holding, RegionInv, Headed
  <1> QED BY <1>1, <1>2, <1>3, <1>4, <1>5, <1>6, <1>7, OneActs

\* Unlinking the name of the ring unmapped last.
LEMMA UnlinkKeeps ==
    ASSUME IInv, NEW d \in Daemons, Unlink(d)
    PROVE  IInv'
  <1> DEFINE o == dir[ShmName(doomed[d])]
  <1>1. \/ /\ \A r \in Rings : mapped[d][r] # o
           /\ size' = [size EXCEPT ![o] = 0]
           /\ header' = [header EXCEPT ![o] = Zeroed]
        \/ UNCHANGED <<size, header>>
    BY DEF Unlink, FreeObject, Unused
  <1> HIDE DEF o
  <1>2. size \in [Objects -> Nat] /\ header \in [Objects -> Headers]
    BY DEF IInv, TypeOK
  <1>3. size' \in [Objects -> Nat] /\ header' \in [Objects -> Headers]
    <2>1. Zeroed \in Headers
      BY DEF Zeroed, Headers
    <2> QED BY <1>1, <1>2, <2>1
  <1>4. ASSUME NEW r \in Rings, mapped[d][r] # None
        PROVE  /\ size'[mapped[d][r]] = size[mapped[d][r]]
               /\ header'[mapped[d][r]] = header[mapped[d][r]]
    <2>1. mapped[d][r] \in Objects
      BY <1>4 DEF IInv, TypeOK
    <2> QED BY <1>1, <1>2, <2>1
  <1> USE DEF Unlink, Goto, kernel, process
  <1>5. Alone(d)
    BY LiveAlone DEF Live
  <1>6. TypeOK'
    BY <1>3, FirstRing, NamesOfRings DEF IInv, TypeOK, Rings
  <1>7. NamesInv'
    BY DEF IInv, NamesInv
  <1>8. pc'[d] # "off"
    BY DEF IInv
  <1>9. \A e \in Daemons \ {d} :
            pc'[e] = pc[e] /\ at'[e] = at[e] /\ fd'[e] = fd[e] /\ mapped'[e] = mapped[e]
            /\ doomed'[e] = doomed[e]
    BY DEF IInv
  <1>10. Holding(d)'
    BY NamesOfRings DEF IInv, Holding, TypeOK, ProcessInv, Live
  <1>11. ASSUME NEW r \in Rings, mapped'[d][r] # None
        PROVE  InUse(d, r)'
    <2>1. Holding(d) /\ mapped[d][r] # None
      BY <1>11 DEF IInv, ProcessInv
    <2>2. doomed[d] \in Rings /\ r # doomed[d]
      BY <2>1 DEF Holding, IInv, TypeOK, Rings
    <2>3. dir'[ShmName(r)] = dir[ShmName(r)]
      BY <2>2, NamesDiffer DEF IInv
    <2> QED BY <1>4, <2>1, <2>3 DEF IInv, InUse, RegionInv, Headed
  <1> QED BY <1>5, <1>6, <1>7, <1>8, <1>9, <1>10, <1>11, OneActs

\* The end of an orderly process.
LEMMA EndKeeps ==
    ASSUME IInv, NEW d \in Daemons, End(d)
    PROVE  IInv'
  <1> USE DEF End, Goto, kernel, process
  <1>1. Alone(d)
    BY LiveAlone DEF Live
  <1>2. TypeOK'
    BY FirstRing DEF IInv, TypeOK, Pcs, Forget
  <1>3. NamesInv'
    BY DEF IInv, NamesInv
  <1>4. pc'[d] # "off"
    BY DEF IInv
  <1>5. \A e \in Daemons \ {d} :
            pc'[e] = pc[e] /\ at'[e] = at[e] /\ fd'[e] = fd[e] /\ mapped'[e] = mapped[e]
            /\ doomed'[e] = doomed[e]
    BY DEF IInv, Forget
  <1>6. Holding(d)'
    <2>1. Holding(d)
      BY DEF IInv, ProcessInv
    <2>2. pc'[d] = "over" /\ at'[d] = 1
      BY DEF IInv, TypeOK, Forget
    <2>3. fd'[d] = None /\ doomed'[d] = 0 /\ \A r \in Rings : mapped'[d][r] = None
      BY <2>1 DEF Holding, Holds
    <2> QED BY <2>2, <2>3 DEF Holding
  <1>7. ASSUME NEW r \in Rings, mapped'[d][r] # None
        PROVE  InUse(d, r)'
    BY <1>7 DEF IInv, InUse, Holding, Holds
  <1> QED BY <1>1, <1>2, <1>3, <1>4, <1>5, <1>6, <1>7, OneActs

\* The end of a process that drops nothing.
LEMMA CrashKeeps ==
    ASSUME IInv, NEW d \in Daemons, Crash(d)
    PROVE  IInv'
  <1> USE DEF Crash, Goto, kernel, process
  <1>1. Alone(d)
    BY LiveAlone DEF Live, Gone
  <1>2. TypeOK'
    BY FirstRing DEF IInv, TypeOK, Pcs, Forget
  <1>3. NamesInv'
    BY DEF IInv, NamesInv
  <1>4. pc'[d] # "off"
    BY DEF IInv
  <1>5. \A e \in Daemons \ {d} :
            pc'[e] = pc[e] /\ at'[e] = at[e] /\ fd'[e] = fd[e] /\ mapped'[e] = mapped[e]
            /\ doomed'[e] = doomed[e]
    BY DEF IInv, Forget
  <1>6. Holding(d)'
    BY DEF IInv, Holding, TypeOK
  <1>7. ASSUME NEW r \in Rings, mapped'[d][r] # None
        PROVE  InUse(d, r)'
    BY <1>7 DEF IInv, InUse, Holding, TypeOK
  <1> QED BY <1>1, <1>2, <1>3, <1>4, <1>5, <1>6, <1>7, OneActs

-----------------------------------------------------------------------------
\* Every step keeps the invariant.
THEOREM NextIInv == IInv /\ [Next]_vars => IInv'
  <1> SUFFICES ASSUME IInv, [Next]_vars PROVE IInv'
    OBVIOUS
  <1>1. CASE UNCHANGED vars
    BY <1>1 DEF vars, process, kernel, IInv, TypeOK, OneAtATime, Gone, NamesInv,
       ProcessInv, Holding, Live, Here, RegionInv, InUse, Headed
  <1>2. CASE Next
    <2>1. PICK d \in Daemons : (Supervised(d) /\ Start(d)) \/ Act(d)
      BY <1>2 DEF Next
    <2>2. CASE Supervised(d) /\ Start(d)
      BY <2>2, StartKeeps
    <2>3. CASE Act(d)
      BY <2>3, CreateNewKeeps, CreateRefusedKeeps, OpenOldKeeps, SetSizeKeeps,
         MapKeeps, WriteHeaderKeeps, CreateFailsKeeps, ServeKeeps, ExitKeeps,
         UnmapKeeps, UnlinkKeeps, EndKeeps, CrashKeeps DEF Act
    <2> QED BY <2>1, <2>2, <2>3
  <1> QED BY <1>1, <1>2

\* The invariant holds in every reachable state.
THEOREM Invariance == Spec => []IInv
  BY InitIInv, NextIInv, PTL DEF Spec

\* Every variable keeps its type.
THEOREM TypeCorrect == Spec => []TypeOK
  <1>1. IInv => TypeOK
    BY DEF IInv
  <1> QED BY <1>1, Invariance, PTL

\* No ring in use is larger than the object behind it, whatever configuration the
\* daemon that made the object had.
THEOREM Backed == Spec => []MappingBacked
  <1>1. IInv => MappingBacked
    BY DEF IInv, TypeOK, RegionInv, InUse, MappingBacked
  <1> QED BY <1>1, Invariance, PTL

\* Two rings of a daemon are two regions.
THEOREM Distinct == Spec => []RegionsDistinct
  <1>1. IInv => RegionsDistinct
    BY OwnRing DEF RegionsDistinct
  <1> QED BY <1>1, Invariance, PTL

\* The name of a ring in use leads to it, and its header gives its size.
THEOREM Found == Spec => []FoundByName
  <1>1. IInv => FoundByName
    BY DEF IInv, ProcessInv, Holding, RegionInv, InUse, Headed, FoundByName
  <1> QED BY <1>1, Invariance, PTL

\* The step by which a daemon starts to serve is the header of its last ring.
LEMMA ServesFresh ==
    ASSUME IInv, Next, NEW d \in Daemons, pc[d] # "serving", pc'[d] = "serving",
           NEW r \in Rings
    PROVE  ~header'[mapped'[d][r]].unread /\ ~header'[mapped'[d][r]].running
  <1>1. WriteHeader(d)
    <2>1. PICK e \in Daemons : (Supervised(e) /\ Start(e)) \/ Act(e)
      BY DEF Next
    <2>2. e = d
      BY <2>1 DEF Act, Start, CreateNew, CreateRefused, OpenOld, SetSize, Map,
         WriteHeader, CreateFails, Serve, Exit, Unmap, Unlink, End, Crash, Goto,
         process, IInv, TypeOK
    <2> QED
      BY <2>1, <2>2 DEF Act, Start, CreateNew, CreateRefused, OpenOld, SetSize, Map,
         CreateFails, Serve, Exit, Unmap, Unlink, End, Crash, Goto, process, IInv,
         TypeOK
  <1>2. Holding(d) /\ at[d] \in Rings /\ pc[d] = "heading" /\ mapped' = mapped
    BY <1>1 DEF IInv, TypeOK, ProcessInv, WriteHeader
  <1>3. ~(at[d] < NRings)
    BY <1>1 DEF WriteHeader, Goto, IInv, TypeOK
  <1>4. mapped[d][r] # None /\ mapped[d][at[d]] # None
    BY <1>2, <1>3, FirstRing DEF Holding, Rings
  <1>5. mapped[d][r] \in Objects /\ InUse(d, r)
    BY <1>4, OwnRing DEF IInv, RegionInv
  <1>6. CASE r = at[d]
    <2>1. header'[mapped[d][r]] = [Zeroed EXCEPT !.frames = frames[d]]
      BY <1>1, <1>5, <1>6 DEF WriteHeader, IInv, TypeOK
    <2>2. /\ header'[mapped[d][r]].unread = FALSE
          /\ header'[mapped[d][r]].running = FALSE
      BY <2>1 DEF Zeroed
    <2> QED BY <1>2, <2>2
  <1>7. CASE r # at[d]
    <2>1. mapped[d][r] # mapped[d][at[d]]
      BY <1>2, <1>4, <1>7, OwnRing
    <2>2. header'[mapped[d][r]] = header[mapped[d][r]]
      BY <1>1, <1>5, <2>1 DEF WriteHeader, IInv, TypeOK
    <2> QED BY <1>2, <1>5, <1>7, <2>2 DEF InUse, Headed
  <1> QED BY <1>6, <1>7

\* A daemon starts with empty, stopped rings, whatever was left under their names.
THEOREM StartsFresh == Spec => FreshStart
  <1>1. IInv /\ [Next]_vars =>
            [\A d \in Daemons : pc[d] # "serving" /\ pc'[d] = "serving" =>
                \A r \in Rings :
                    LET h == header'[mapped'[d][r]] IN ~h.unread /\ ~h.running]_vars
    BY ServesFresh
  <1> QED BY <1>1, Invariance, PTL DEF Spec, FreshStart

\* The step by which a daemon ends with its rings dropped is End.
LEMMA EndsClean ==
    ASSUME IInv, Next, NEW d \in Daemons, pc'[d] = "over", NEW r \in Rings,
           pc[d] = "dropping" \/ (pc[d] = "failing" /\ r < at[d])
    PROVE  dir'[ShmName(r)] = None
  <1>1. End(d)
    <2>1. PICK e \in Daemons : (Supervised(e) /\ Start(e)) \/ Act(e)
      BY DEF Next
    <2>2. e = d
      BY <2>1 DEF Act, Start, CreateNew, CreateRefused, OpenOld, SetSize, Map,
         WriteHeader, CreateFails, Serve, Exit, Unmap, Unlink, End, Crash, Goto,
         process, IInv, TypeOK
    <2> QED
      BY <2>1, <2>2 DEF Act, Start, CreateNew, CreateRefused, OpenOld, SetSize, Map,
         WriteHeader, CreateFails, Serve, Exit, Unmap, Unlink, Crash, Goto, process,
         IInv, TypeOK
  <1>2. mapped[d][r] = None /\ doomed[d] # r
    BY <1>1, FirstRing DEF End, Holds
  <1>3. dir[ShmName(r)] = None
    BY <1>2 DEF IInv, ProcessInv, Holding
  <1> QED BY <1>1, <1>3 DEF End, kernel

\* A daemon that ends in order leaves no name behind, not even one it found, and
\* one whose start fails part way none of the rings it had made.
THEOREM LeavesNothing == Spec => NothingLeft
  <1>1. IInv /\ [Next]_vars =>
            [\A d \in Daemons : pc'[d] = "over" =>
                /\ pc[d] = "dropping" => \A n \in Names : dir'[n] = None
                /\ pc[d] = "failing" =>
                    \A r \in 1..(at[d] - 1) : dir'[ShmName(r)] = None]_vars
    <2> SUFFICES ASSUME IInv, Next, NEW d \in Daemons, pc'[d] = "over"
                 PROVE  /\ pc[d] = "dropping" => \A n \in Names : dir'[n] = None
                        /\ pc[d] = "failing" =>
                            \A r \in 1..(at[d] - 1) : dir'[ShmName(r)] = None
      OBVIOUS
    <2>1. ASSUME pc[d] = "dropping", NEW n \in Names
          PROVE  dir'[n] = None
      BY <2>1, EndsClean DEF Names
    <2>2. ASSUME pc[d] = "failing", NEW r \in 1..(at[d] - 1)
          PROVE  dir'[ShmName(r)] = None
      <3>1. at[d] \in Rings
        BY DEF IInv, TypeOK
      <3>2. r \in Rings /\ r < at[d]
        BY <3>1, RingsAssumption DEF Rings, NRings
      <3> QED BY <2>2, <3>2, EndsClean
    <2> QED BY <2>1, <2>2
  <1> QED BY <1>1, Invariance, PTL DEF Spec, NothingLeft
=============================================================================
