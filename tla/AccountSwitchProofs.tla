------------------------ MODULE AccountSwitchProofs ------------------------
(***************************************************************************)
(* Proofs about AccountSwitch, for any processes and accounts, however     *)
(* many of them are killed or suspended.                                   *)
(***************************************************************************)
EXTENDS AccountSwitch, TLAPS

(* What a process carries from step to step.                                *)
Contending == {"primary", "legacy", "breakPrimary", "breakLegacy"}
Loaded == {"backup", "save", "check", "write", "block", "point"}
Registers(p) ==
    /\ pc[p] \in Loaded \cup {"load", "readBlock", "capture", "pointAdd"} => p \in Switchers
    /\ pc[p] \in {"reread", "renewed"} => p \in Sessions
    /\ p \in Switchers /\ pc[p] \in Contending \cup Loaded \cup {"load"} => want[p] \in Accounts
    /\ pc[p] \in Loaded => next[p] \in Tokens /\ name[p] \in Accounts
    /\ p \in Sessions /\ pc[p] \in Contending \cup {"reread"} => cur[p] \in Tokens
    /\ pc[p] = "renewed" => next[p] \in Tokens /\ cur[p] \in Tokens
    /\ pc[p] \in {"readBlock", "capture", "pointAdd"} => cur[p] \in Tokens
    /\ pc[p] \in {"capture", "pointAdd"} => want[p] \in Accounts
Typed == TypeOK /\ \A p \in Procs : Registers(p)

Others(p) == \A q \in Procs \ {p} :
    /\ pc'[q] = pc[q] /\ want'[q] = want[q] /\ act'[q] = act[q]
    /\ cur'[q] = cur[q] /\ next'[q] = next[q] /\ name'[q] = name[q]

(* A token is a credential that is there and not blank.                     *)
LEMMA TokenParts ==
    ASSUME NEW t \in Tokens
    PROVE  /\ t \in Credentials /\ t # None /\ t # Blank
           /\ t.acct \in Accounts /\ t.gen \in 1..MaxGen
BY AccountAssumption DEF AccountAssumption, Tokens, Credentials

(* The tokens that are minted.                                              *)
LEMMA MintToken ==
    ASSUME NEW a \in Accounts, NEW g \in 1..MaxGen
    PROVE  /\ [acct |-> a, gen |-> g] \in Tokens
           /\ [acct |-> a, gen |-> g].acct = a
           /\ [acct |-> a, gen |-> g].gen = g
BY DEF Tokens

(* A later generation of a token.                                           *)
LEMMA RenewToken ==
    ASSUME NEW t \in Tokens, NEW g \in 1..MaxGen
    PROVE  /\ [t EXCEPT !.gen = g] \in Tokens
           /\ [t EXCEPT !.gen = g].acct = t.acct
BY DEF Tokens

(* The kinds of process do not overlap, and none of them is None.           *)
LEMMA Kinds ==
    /\ \A p \in Procs : p # None
    /\ \A p \in Procs : p \in Switchers <=> p \notin Sessions
    /\ Adders \subseteq Switchers /\ Switchers \subseteq Procs /\ Sessions \subseteq Procs
    /\ \A a \in Accounts : a # None
BY AccountAssumption DEF AccountAssumption, Procs

(* A step of one process leaves what the others carry.                      *)
LEMMA RegistersStep ==
    ASSUME Typed, NEW p \in Procs, Others(p), Registers(p)'
    PROVE  \A q \in Procs : Registers(q)'
<1> SUFFICES ASSUME NEW q \in Procs, q # p PROVE Registers(q)'
  OBVIOUS
<1>1. pc'[q] = pc[q] /\ want'[q] = want[q] /\ cur'[q] = cur[q] /\ next'[q] = next[q]
      /\ name'[q] = name[q]
  BY DEF Others
<1>2. Registers(q)
  BY DEF Typed
<1>3. QED
  BY <1>1, <1>2 DEF Registers

(* The first state is well typed.                                           *)
LEMMA TypeInit == Init => Typed
<1> SUFFICES ASSUME Init PROVE Typed
  OBVIOUS
<1>1. \A a \in Accounts : Token(a) \in Tokens
  BY AccountAssumption, MintToken DEF Init, Token, AccountAssumption
<1>2. store \in [Accounts -> Credentials] /\ live \in Credentials
  BY <1>1 DEF Init, Credentials
<1>3. minted \in [Accounts -> 1..MaxGen] /\ begun \in 0..MaxBegun
  BY AccountAssumption DEF Init, AccountAssumption
<1>4. pc \in [Procs -> Labels] /\ lock \in [LockNames -> Procs \cup {None}]
  BY DEF Init, Labels
<1>5. cur \in [Procs -> Credentials] /\ next \in [Procs -> Credentials]
  BY DEF Init, Credentials
<1>6. want \in [Procs -> Accounts \cup {None}] /\ act \in [Procs -> Accounts \cup {None}]
      /\ name \in [Procs -> Accounts \cup {None}]
  BY DEF Init
<1>7. block \in Accounts \cup {None} /\ active \in Accounts \cup {None}
      /\ profile \in [Accounts -> Accounts \cup {None}] /\ backups \subseteq Tokens
      /\ valid \subseteq Accounts /\ mishaps \subseteq Mishaps
  BY DEF Init
<1>8. TypeOK
  BY <1>2, <1>3, <1>4, <1>5, <1>6, <1>7 DEF TypeOK
<1>9. \A p \in Procs : Registers(p)
  BY DEF Init, Registers, Contending, Loaded
<1>10. QED
  BY <1>8, <1>9 DEF Typed

(* Mishaps are recorded under their names.                                  *)
LEMMA MishapType ==
    ASSUME mishaps \subseteq Mishaps, NEW m \in Mishaps, NEW happens, Mishap(m, happens)
    PROVE  mishaps' \subseteq Mishaps /\ mishaps \subseteq mishaps'
BY DEF Mishap

(* Only p moves.                                                            *)
LEMMA GotoMoves ==
    ASSUME Typed, NEW p \in Procs, NEW x \in Labels, NEW y \in Labels, Goto(p, x, y)
    PROVE  /\ pc' \in [Procs -> Labels] /\ pc[p] = x /\ pc'[p] = y
           /\ \A q \in Procs \ {p} : pc'[q] = pc[q]
BY DEF Typed, TypeOK, Goto

(* Both programs' lock steps.                                               *)
LEMMA TypeLock == ASSUME Typed, NEW p \in Procs, LockStep(p) PROVE Typed'
<1> USE DEF Typed, TypeOK
<1>1. PICK l \in LockNames : Take(p, l) \/ GiveUp(p, l) \/ SeeStale(p, l)
                               \/ BreakLock(p, l) \/ ReleaseLock(p, l)
  BY DEF LockStep
<1>2. l = "primary" \/ l = "legacy"
  BY DEF LockNames
<1>3. UNCHANGED <<live, block, kept, server, begun>>
  BY <1>1 DEF Take, GiveUp, SeeStale, BreakLock, ReleaseLock
<1>4. lock' \in [LockNames -> Procs \cup {None}]
  BY <1>1 DEF Take, GiveUp, SeeStale, BreakLock, ReleaseLock
<1>5. mishaps' \subseteq Mishaps
  BY <1>1, MishapType DEF Take, GiveUp, SeeStale, BreakLock, ReleaseLock, Mishaps
<1>6. ASSUME UNCHANGED registers, pc' \in [Procs -> Labels],
             \A q \in Procs \ {p} : pc'[q] = pc[q], Registers(p)'
      PROVE  Typed'
  <2>1. Others(p)
    BY <1>6 DEF Others, registers
  <2>2. \A q \in Procs : Registers(q)'
    BY <1>6, <2>1, RegistersStep
  <2>3. QED
    BY <1>3, <1>4, <1>5, <1>6, <2>2 DEF registers, kept, server
<1>7. CASE Take(p, l)
  <2>1. UNCHANGED registers
    BY <1>7 DEF Take
  <2> DEFINE y == IF l = "primary" THEN "legacy" ELSE IF p \in Switchers THEN "load" ELSE "reread"
  <2>2. Goto(p, l, y) /\ l \in Labels /\ y \in Labels
    BY <1>2, <1>7 DEF Take, Labels
  <2>3. pc' \in [Procs -> Labels] /\ pc[p] = l /\ pc'[p] = y
        /\ \A q \in Procs \ {p} : pc'[q] = pc[q]
    BY <2>2, GotoMoves
  <2>4. Registers(p)'
    BY <1>2, <2>1, <2>3, Kinds DEF Registers, registers, Contending, Loaded
  <2>5. QED
    BY <1>6, <2>1, <2>3, <2>4
<1>8. CASE GiveUp(p, l) \/ SeeStale(p, l) \/ BreakLock(p, l)
  <2>1. UNCHANGED registers
    BY <1>8 DEF GiveUp, SeeStale, BreakLock
  <2>2. PICK x \in Contending, y \in Contending \cup {"idle", "unprimary"} : Goto(p, x, y)
    BY <1>2, <1>8 DEF GiveUp, SeeStale, BreakLock, Breaking, Contending
  <2>3. x \in Labels /\ y \in Labels
    BY DEF Contending, Labels
  <2>4. pc' \in [Procs -> Labels] /\ pc[p] = x /\ pc'[p] = y
        /\ \A q \in Procs \ {p} : pc'[q] = pc[q]
    BY <2>2, <2>3, GotoMoves
  <2>5. Registers(p)'
    BY <2>1, <2>4 DEF Registers, registers, Contending, Loaded
  <2>6. QED
    BY <1>6, <2>1, <2>4, <2>5
<1>9. CASE ReleaseLock(p, l)
  <2>1. PICK x \in {"unlegacy", "unprimary"}, y \in {"idle", "unprimary"} : Goto(p, x, y)
    BY <1>2, <1>9 DEF ReleaseLock
  <2>2. x \in Labels /\ y \in Labels
    BY DEF Labels
  <2>3. pc' \in [Procs -> Labels] /\ pc[p] = x /\ pc'[p] = y
        /\ \A q \in Procs \ {p} : pc'[q] = pc[q]
    BY <2>1, <2>2, GotoMoves
  <2>4. want' \in [Procs -> Accounts \cup {None}] /\ act' \in [Procs -> Accounts \cup {None}]
        /\ name' \in [Procs -> Accounts \cup {None}]
    BY <1>9 DEF ReleaseLock, Forget, registers
  <2>5. cur' \in [Procs -> Credentials] /\ next' \in [Procs -> Credentials]
    BY <1>9 DEF ReleaseLock, Forget, registers, Credentials
  <2>6. Others(p)
    BY <1>9, <2>3 DEF ReleaseLock, Forget, registers, Others
  <2>7. Registers(p)'
    BY <2>3 DEF Registers, Contending, Loaded
  <2>8. \A q \in Procs : Registers(q)'
    BY <2>6, <2>7, RegistersStep
  <2>9. QED
    BY <1>3, <1>4, <1>5, <2>3, <2>4, <2>5, <2>8 DEF kept, server
<1>10. QED
  BY <1>1, <1>7, <1>8, <1>9

(* A step of p that moves its program counter and leaves the registers.     *)
LEMMA TypeMove ==
    ASSUME Typed, NEW p \in Procs, NEW x \in Labels, NEW y \in Labels, Goto(p, x, y),
           UNCHANGED <<want, act, next, name, lock, minted>>,
           cur' = cur \/ (p \in Switchers /\ y \notin {"readBlock", "capture", "pointAdd"}
                          /\ \E c \in Credentials : cur' = [cur EXCEPT ![p] = c]),
           y \in Loaded => x \in Loaded,
           y \in {"idle", "unlegacy", "unprimary", "dead"} \/ y \in Loaded,
           live' \in Credentials, block' \in Accounts \cup {None},
           store' \in [Accounts -> Credentials],
           profile' \in [Accounts -> Accounts \cup {None}],
           active' \in Accounts \cup {None}, backups' \subseteq Tokens,
           valid' \subseteq Accounts, begun' \in 0..MaxBegun, mishaps' \subseteq Mishaps
    PROVE  Typed'
<1>1. pc' \in [Procs -> Labels] /\ pc[p] = x /\ pc'[p] = y
      /\ \A q \in Procs \ {p} : pc'[q] = pc[q]
  BY GotoMoves
<1>2. cur' \in [Procs -> Credentials] /\ \A q \in Procs \ {p} : cur'[q] = cur[q]
  BY DEF Typed, TypeOK
<1>3. Others(p)
  BY <1>1, <1>2 DEF Others
<1>4. Registers(p)'
  BY <1>1, Kinds DEF Typed, Registers, Contending, Loaded
<1>5. \A q \in Procs : Registers(q)'
  BY <1>3, <1>4, RegistersStep
<1>6. QED
  BY <1>1, <1>2, <1>5 DEF Typed, TypeOK

(* A switch.                                                                *)
LEMMA TypeSwitch == ASSUME Typed, NEW p \in Switchers, SwitchStep(p) PROVE Typed'
<1> USE DEF Typed, TypeOK
<1>0. p \in Procs
  BY DEF Procs
<1>1. CASE Load(p)
  <2>1. want[p] \in Accounts /\ pc[p] = "load"
    BY <1>0, <1>1 DEF Load, Registers
  <2>2. store[want[p]] \in Credentials /\ profile[want[p]] \in Accounts \cup {None}
    BY <2>1
  <2>3. PICK y \in {"unlegacy", "backup"} : Goto(p, "load", y)
          /\ (y = "backup" => store[want[p]] \in Tokens /\ profile[want[p]] # None)
    BY <1>1 DEF Load
  <2>4. "load" \in Labels /\ y \in Labels
    BY DEF Labels
  <2>5. pc' \in [Procs -> Labels] /\ pc'[p] = y /\ \A q \in Procs \ {p} : pc'[q] = pc[q]
    BY <1>0, <2>3, <2>4, GotoMoves
  <2>6. act' = [act EXCEPT ![p] = active] /\ next' = [next EXCEPT ![p] = store[want[p]]]
        /\ name' = [name EXCEPT ![p] = profile[want[p]]]
        /\ UNCHANGED <<lock, live, block, kept, server, want, cur, begun>>
    BY <1>1 DEF Load
  <2>7. act' \in [Procs -> Accounts \cup {None}] /\ next' \in [Procs -> Credentials]
        /\ name' \in [Procs -> Accounts \cup {None}]
    BY <2>2, <2>6
  <2>8. mishaps' \subseteq Mishaps
    BY <1>1, MishapType DEF Load, Mishaps
  <2>9. Others(p)
    BY <2>5, <2>6 DEF Others
  <2>10. Registers(p)'
    BY <1>0, <2>1, <2>2, <2>3, <2>5, <2>6, Kinds DEF Registers, Contending, Loaded
  <2>11. \A q \in Procs : Registers(q)'
    BY <1>0, <2>9, <2>10, RegistersStep
  <2>12. QED
    BY <2>5, <2>6, <2>7, <2>8, <2>11 DEF kept, server
<1>2. CASE Backup(p)
  <2>1. PICK y \in {"save", "unlegacy"} : Goto(p, "backup", y)
    BY <1>2 DEF Backup
  <2>2. "backup" \in Labels /\ y \in Labels
    BY DEF Labels
  <2>3. backups' \subseteq Tokens /\ cur' = [cur EXCEPT ![p] = live]
        /\ UNCHANGED <<lock, live, block, store, profile, active, server, want, act, next,
                       name, mishaps, begun>>
    BY <1>2 DEF Backup
  <2>4. QED
    BY <1>0, <2>1, <2>2, <2>3, TypeMove DEF server, Loaded
<1>3. CASE Save(p)
  <2>1. Goto(p, "save", "check") /\ "save" \in Labels /\ "check" \in Labels
    BY <1>3 DEF Save, Labels
  <2>2. UNCHANGED <<lock, live, block, active, backups, server, registers, begun>>
    BY <1>3 DEF Save
  <2>3. profile' \in [Accounts -> Accounts \cup {None}]
    BY <1>3 DEF Save
  <2>4. store' \in [Accounts -> Credentials]
    BY <1>3 DEF Save, Credentials
  <2>5. mishaps' \subseteq Mishaps
    BY <1>3, MishapType DEF Save, Mishaps
  <2>6. QED
    BY <1>0, <2>1, <2>2, <2>3, <2>4, <2>5, TypeMove DEF server, registers, Loaded
<1>4. CASE Check(p)
  <2>1. PICK y \in {"write", "unlegacy"} : Goto(p, "check", y)
    BY <1>4 DEF Check
  <2>2. "check" \in Labels /\ y \in Labels
    BY DEF Labels
  <2>3. QED
    BY <1>0, <1>4, <2>1, <2>2, TypeMove DEF Check, kept, server, registers, Loaded
<1>5. CASE Write(p)
  <2>1. PICK y \in {"block", "unlegacy"} : Goto(p, "write", y)
    BY <1>5 DEF Write
  <2>2. "write" \in Labels /\ y \in Labels
    BY DEF Labels
  <2>3. live' \in Credentials
    BY <1>0, <1>5 DEF Write, Credentials
  <2>4. QED
    BY <1>0, <1>5, <2>1, <2>2, <2>3, TypeMove DEF Write, kept, server, registers, Loaded
<1>6. CASE WriteBlock(p)
  <2>1. PICK y \in {"point", "unlegacy"} : Goto(p, "block", y)
    BY <1>6 DEF WriteBlock
  <2>2. "block" \in Labels /\ y \in Labels
    BY DEF Labels
  <2>3. live' \in Credentials
    BY <1>0, <1>6 DEF WriteBlock, Credentials
  <2>4. block' \in Accounts \cup {None}
    BY <1>0, <1>6 DEF WriteBlock
  <2>5. mishaps' \subseteq Mishaps
    BY <1>6, MishapType DEF WriteBlock, Mishaps
  <2>6. UNCHANGED <<lock, kept, server, registers, begun>>
    BY <1>6 DEF WriteBlock
  <2>7. QED
    BY <1>0, <2>1, <2>2, <2>3, <2>4, <2>5, <2>6, TypeMove DEF kept, server, registers, Loaded
<1>7. CASE Point(p)
  <2>1. Goto(p, "point", "unlegacy") /\ "point" \in Labels /\ "unlegacy" \in Labels
    BY <1>7 DEF Point, Labels
  <2>2. active' \in Accounts \cup {None}
    <3>1. want[p] \in Accounts \cup {None} /\ active' \in {want[p], active}
      BY <1>0, <1>7 DEF Point
    <3>2. QED
      BY <3>1
  <2>3. mishaps' \subseteq Mishaps
    BY <1>7, MishapType DEF Point, Mishaps
  <2>4. UNCHANGED <<lock, live, block, store, profile, backups, server, registers, begun>>
    BY <1>7 DEF Point
  <2>5. QED
    BY <1>0, <2>1, <2>2, <2>3, <2>4, TypeMove DEF server, registers, Loaded
<1>8. QED
  BY <1>1, <1>2, <1>3, <1>4, <1>5, <1>6, <1>7 DEF SwitchStep

(* How a process begins.                                                    *)
LEMMA TypeBegin ==
    ASSUME Typed, NEW p \in Procs, Starts,
           \/ p \in Switchers /\ \E a \in Accounts : Begin(p, a)
           \/ p \in Adders /\ BeginAdd(p)
           \/ p \in Sessions /\ Expire(p)
    PROVE  Typed'
<1> USE DEF Typed, TypeOK
<1>1. begun' \in 0..MaxBegun
  BY AccountAssumption DEF Starts, AccountAssumption
<1>2. mishaps' \subseteq Mishaps
  BY MishapType DEF Begin, BeginAdd, Expire, Mishaps
<1>3. UNCHANGED <<lock, live, block, kept, server, act, next, name>>
  BY DEF Begin, BeginAdd, Expire
<1>4. PICK y \in {"primary", "readBlock"} : Goto(p, "idle", y)
  BY DEF Begin, BeginAdd, Expire
<1>5. "idle" \in Labels /\ y \in Labels
  BY DEF Labels
<1>6. pc' \in [Procs -> Labels] /\ pc[p] = "idle" /\ pc'[p] = y
      /\ \A q \in Procs \ {p} : pc'[q] = pc[q]
  BY <1>4, <1>5, GotoMoves
<1>7. /\ want' \in [Procs -> Accounts \cup {None}]
      /\ \A q \in Procs \ {p} : want'[q] = want[q]
  BY DEF Begin, BeginAdd, Expire
<1>8. /\ cur' \in [Procs -> Credentials]
      /\ \A q \in Procs \ {p} : cur'[q] = cur[q]
  BY DEF Begin, BeginAdd, Expire
<1>9. Others(p)
  BY <1>3, <1>6, <1>7, <1>8 DEF Others
<1>10. Registers(p)'
  <2>1. CASE p \in Switchers /\ \E a \in Accounts : Begin(p, a)
    <3>1. want'[p] \in Accounts /\ pc'[p] = "primary"
      BY <2>1 DEF Begin, Goto
    <3>2. QED
      BY <2>1, <3>1, Kinds DEF Registers, Contending, Loaded
  <2>2. CASE p \in Adders /\ BeginAdd(p)
    <3>1. cur'[p] \in Tokens /\ pc'[p] = "readBlock"
      BY <2>2 DEF BeginAdd, Goto
    <3>2. QED
      BY <2>2, <3>1, Kinds DEF Registers, Contending, Loaded
  <2>3. CASE p \in Sessions /\ Expire(p)
    <3>1. cur'[p] = live /\ live \in Tokens /\ pc'[p] = "primary"
      BY <2>3 DEF Expire, Goto
    <3>2. QED
      BY <2>3, <3>1, Kinds DEF Registers, Contending, Loaded
  <2>4. QED
    BY <2>1, <2>2, <2>3
<1>11. \A q \in Procs : Registers(q)'
  BY <1>9, <1>10, RegistersStep
<1>12. QED
  BY <1>1, <1>2, <1>3, <1>6, <1>7, <1>8, <1>11 DEF kept, server

(* An add.                                                                  *)
LEMMA TypeAdd == ASSUME Typed, NEW p \in Adders, AddStep(p) PROVE Typed'
<1> USE DEF Typed, TypeOK
<1>0. p \in Procs /\ p \in Switchers
  BY Kinds
<1>1. CASE ReadBlock(p)
  <2> DEFINE y == IF block = None THEN "idle" ELSE "capture"
  <2>1. Goto(p, "readBlock", y) /\ "readBlock" \in Labels /\ y \in Labels
    BY <1>1 DEF ReadBlock, Labels
  <2>2. pc' \in [Procs -> Labels] /\ pc[p] = "readBlock" /\ pc'[p] = y
        /\ \A q \in Procs \ {p} : pc'[q] = pc[q]
    BY <1>0, <2>1, GotoMoves
  <2>3. UNCHANGED <<lock, live, block, kept, server, act, cur, next, name, begun>>
        /\ want' = [want EXCEPT ![p] = block]
    BY <1>1 DEF ReadBlock
  <2>8. mishaps' \subseteq Mishaps
    BY <1>1, MishapType DEF ReadBlock, Mishaps
  <2>4. Others(p)
    BY <2>2, <2>3 DEF Others
  <2>5. Registers(p)'
    BY <1>0, <2>2, <2>3 DEF Registers, Contending, Loaded
  <2>6. \A q \in Procs : Registers(q)'
    BY <1>0, <2>4, <2>5, RegistersStep
  <2>7. QED
    BY <2>2, <2>3, <2>6, <2>8 DEF kept, server
<1>2. CASE Capture(p)
  <2>1. Goto(p, "capture", "pointAdd") /\ "capture" \in Labels /\ "pointAdd" \in Labels
    BY <1>2 DEF Capture, Labels
  <2>2. pc' \in [Procs -> Labels] /\ pc[p] = "capture" /\ pc'[p] = "pointAdd"
        /\ \A q \in Procs \ {p} : pc'[q] = pc[q]
    BY <1>0, <2>1, GotoMoves
  <2>3. UNCHANGED <<lock, live, block, active, backups, server, registers, begun>>
    BY <1>2 DEF Capture
  <2>4. want[p] \in Accounts /\ cur[p] \in Credentials
    BY <1>0, <2>2 DEF Registers
  <2>5. store' \in [Accounts -> Credentials] /\ profile' \in [Accounts -> Accounts \cup {None}]
    BY <1>2, <2>4 DEF Capture
  <2>6. mishaps' = mishaps
    BY <1>2 DEF Capture
  <2>7. Others(p)
    BY <2>2, <2>3 DEF Others, registers
  <2>8. Registers(p)'
    BY <1>0, <2>2, <2>3 DEF Registers, registers, Contending, Loaded
  <2>9. \A q \in Procs : Registers(q)'
    BY <1>0, <2>7, <2>8, RegistersStep
  <2>10. QED
    BY <2>2, <2>3, <2>5, <2>6, <2>9 DEF registers, server
<1>3. CASE PointAdd(p)
  <2>1. Goto(p, "pointAdd", "idle") /\ "pointAdd" \in Labels /\ "idle" \in Labels
    BY <1>3 DEF PointAdd, Labels
  <2>2. pc' \in [Procs -> Labels] /\ pc[p] = "pointAdd" /\ pc'[p] = "idle"
        /\ \A q \in Procs \ {p} : pc'[q] = pc[q]
    BY <1>0, <2>1, GotoMoves
  <2>3. UNCHANGED <<lock, live, block, store, profile, backups, server, mishaps, begun>>
    BY <1>3 DEF PointAdd
  <2>4. want' \in [Procs -> Accounts \cup {None}] /\ act' \in [Procs -> Accounts \cup {None}]
        /\ name' \in [Procs -> Accounts \cup {None}]
    BY <1>3 DEF PointAdd, Forget
  <2>5. cur' \in [Procs -> Credentials] /\ next' \in [Procs -> Credentials]
    BY <1>3 DEF PointAdd, Forget, Credentials
  <2>6. active' \in Accounts
    BY <1>0, <1>3, <2>2 DEF PointAdd, Registers
  <2>7. Others(p)
    BY <1>3, <2>2 DEF PointAdd, Forget, Others
  <2>8. Registers(p)'
    BY <2>2 DEF Registers, Contending, Loaded
  <2>9. \A q \in Procs : Registers(q)'
    BY <1>0, <2>7, <2>8, RegistersStep
  <2>10. QED
    BY <2>2, <2>3, <2>4, <2>5, <2>6, <2>9 DEF server
<1>4. CASE CaptureFails(p)
  <2>1. Goto(p, "capture", "idle") /\ "capture" \in Labels /\ "idle" \in Labels
    BY <1>4 DEF CaptureFails, Labels
  <2>2. pc' \in [Procs -> Labels] /\ pc[p] = "capture" /\ pc'[p] = "idle"
        /\ \A q \in Procs \ {p} : pc'[q] = pc[q]
    BY <1>0, <2>1, GotoMoves
  <2>3. UNCHANGED <<lock, live, block, active, backups, server, begun>>
    BY <1>4 DEF CaptureFails
  <2>4. PICK cred \in {store[want[p]], Blank, cur[p]}, named \in {profile[want[p]], None} :
           /\ store' = [store EXCEPT ![want[p]] = cred]
           /\ profile' = [profile EXCEPT ![want[p]] = named]
    BY <1>4 DEF CaptureFails
  <2>5. want[p] \in Accounts /\ cur[p] \in Credentials
    BY <1>0, <2>2 DEF Registers
  <2>6. cred \in Credentials /\ named \in Accounts \cup {None}
    BY <2>5 DEF Credentials
  <2>7. store' \in [Accounts -> Credentials] /\ profile' \in [Accounts -> Accounts \cup {None}]
    BY <2>4, <2>6
  <2>8. mishaps' = mishaps
    BY <1>4 DEF CaptureFails
  <2>9. want' \in [Procs -> Accounts \cup {None}] /\ act' \in [Procs -> Accounts \cup {None}]
        /\ name' \in [Procs -> Accounts \cup {None}]
    BY <1>4 DEF CaptureFails, Forget
  <2>10. cur' \in [Procs -> Credentials] /\ next' \in [Procs -> Credentials]
    BY <1>4 DEF CaptureFails, Forget, Credentials
  <2>11. Others(p)
    BY <1>4, <2>2 DEF CaptureFails, Forget, Others
  <2>12. Registers(p)'
    BY <2>2 DEF Registers, Contending, Loaded
  <2>13. \A q \in Procs : Registers(q)'
    BY <1>0, <2>11, <2>12, RegistersStep
  <2>14. QED
    BY <2>2, <2>3, <2>7, <2>8, <2>9, <2>10, <2>13 DEF server
<1>5. CASE PointAddFails(p)
  <2>1. Goto(p, "pointAdd", "idle") /\ "pointAdd" \in Labels /\ "idle" \in Labels
    BY <1>5 DEF PointAddFails, Labels
  <2>2. pc' \in [Procs -> Labels] /\ pc[p] = "pointAdd" /\ pc'[p] = "idle"
        /\ \A q \in Procs \ {p} : pc'[q] = pc[q]
    BY <1>0, <2>1, GotoMoves
  <2>3. UNCHANGED <<lock, live, block, kept, server, begun>>
    BY <1>5 DEF PointAddFails
  <2>4. want' \in [Procs -> Accounts \cup {None}] /\ act' \in [Procs -> Accounts \cup {None}]
        /\ name' \in [Procs -> Accounts \cup {None}]
    BY <1>5 DEF PointAddFails, Forget
  <2>5. cur' \in [Procs -> Credentials] /\ next' \in [Procs -> Credentials]
    BY <1>5 DEF PointAddFails, Forget, Credentials
  <2>6. mishaps' \subseteq Mishaps
    BY <1>5, MishapType DEF PointAddFails, Mishaps
  <2>7. Others(p)
    BY <1>5, <2>2 DEF PointAddFails, Forget, Others
  <2>8. Registers(p)'
    BY <2>2 DEF Registers, Contending, Loaded
  <2>9. \A q \in Procs : Registers(q)'
    BY <1>0, <2>7, <2>8, RegistersStep
  <2>10. QED
    BY <2>2, <2>3, <2>4, <2>5, <2>6, <2>9 DEF kept, server
<1>6. QED
  BY <1>1, <1>2, <1>3, <1>4, <1>5 DEF AddStep

(* A refresh.                                                               *)
LEMMA TypeSession == ASSUME Typed, NEW p \in Sessions, SessionStep(p) PROVE Typed'
<1> USE DEF Typed, TypeOK
<1>0. p \in Procs
  BY DEF Procs
<1>1. CASE Renew(p)
  <2>1. PICK y \in {"renewed", "unlegacy"} : Goto(p, "reread", y)
          /\ (y = "renewed" => live = cur[p] /\ minted[cur[p].acct] < MaxGen
                /\ minted' = [minted EXCEPT ![cur[p].acct] = @ + 1]
                /\ next' = [next EXCEPT ![p] =
                              [cur[p] EXCEPT !.gen = minted[cur[p].acct] + 1]])
          /\ (y # "renewed" => UNCHANGED <<minted, next>>)
    BY <1>1 DEF Renew
  <2>2. "reread" \in Labels /\ y \in Labels
    BY DEF Labels
  <2>3. pc' \in [Procs -> Labels] /\ pc[p] = "reread" /\ pc'[p] = y
        /\ \A q \in Procs \ {p} : pc'[q] = pc[q]
    BY <1>0, <2>1, <2>2, GotoMoves
  <2>4. cur[p] \in Tokens /\ cur[p].acct \in Accounts
    BY <1>0, <2>3, TokenParts DEF Registers
  <2>5. UNCHANGED <<lock, block, kept, valid, want, act, cur, name, mishaps, begun>>
        /\ live' \in Credentials
    BY <1>1 DEF Renew, Credentials
  <2>6. /\ minted' \in [Accounts -> 1..MaxGen] /\ next' \in [Procs -> Credentials]
        /\ \A q \in Procs \ {p} : next'[q] = next[q]
        /\ y = "renewed" => next'[p] \in Tokens
    <3>1. CASE y = "renewed"
      <4>1. minted[cur[p].acct] + 1 \in 1..MaxGen
        BY <2>1, <2>4, <3>1, AccountAssumption DEF AccountAssumption
      <4>2. [cur[p] EXCEPT !.gen = minted[cur[p].acct] + 1] \in Tokens
        BY <2>4, <4>1, RenewToken
      <4>3. minted' \in [Accounts -> 1..MaxGen]
        BY <2>1, <2>4, <3>1, <4>1
      <4>4. QED
        BY <1>0, <2>1, <3>1, <4>2, <4>3 DEF Credentials
    <3>2. CASE y # "renewed"
      BY <2>1, <3>2
    <3>3. QED
      BY <3>1, <3>2
  <2>7. Others(p)
    BY <2>3, <2>5, <2>6 DEF Others
  <2>8. Registers(p)'
    BY <1>0, <2>3, <2>4, <2>5, <2>6, Kinds DEF Registers, Contending, Loaded
  <2>9. \A q \in Procs : Registers(q)'
    BY <1>0, <2>7, <2>8, RegistersStep
  <2>10. QED
    BY <2>3, <2>5, <2>6, <2>9 DEF kept
<1>2. CASE SaveRenewed(p)
  <2>1. Goto(p, "renewed", "unlegacy") /\ "renewed" \in Labels /\ "unlegacy" \in Labels
    BY <1>2 DEF SaveRenewed, Labels
  <2>2. live' \in Credentials
    BY <1>0, <1>2 DEF SaveRenewed
  <2>3. UNCHANGED <<lock, block, kept, server, registers, mishaps, begun>>
    BY <1>2 DEF SaveRenewed
  <2>4. QED
    BY <1>0, <2>1, <2>2, <2>3, TypeMove DEF kept, server, registers, Loaded
<1>3. QED
  BY <1>1, <1>2 DEF SessionStep

(* A kill.                                                                  *)
LEMMA TypeCrash == ASSUME Typed, NEW p \in Procs, Crash(p) PROVE Typed'
<1> USE DEF Typed, TypeOK
<1>1. Goto(p, pc[p], "dead") /\ pc[p] \in Labels /\ "dead" \in Labels
  BY DEF Crash, Goto, Labels
<1>2. live' \in Credentials
  BY DEF Crash, Credentials
<1>3. store' \in [Accounts -> Credentials]
  <2>1. PICK cut : store' = [a \in Accounts |->
                       IF a \in cut /\ store[a] # None THEN Blank ELSE store[a]]
    BY DEF Crash
  <2>2. QED
    BY <2>1 DEF Credentials
<1>4. valid' \subseteq Accounts
  BY DEF Crash
<1>5. mishaps' \subseteq Mishaps
  BY MishapType DEF Crash, Mishaps
<1>6. UNCHANGED <<lock, block, profile, active, backups, minted, registers, begun>>
  BY DEF Crash
<1>7. QED
  BY <1>1, <1>2, <1>3, <1>4, <1>5, <1>6, TypeMove DEF registers, Loaded

(* What no process of ours does.                                            *)
LEMMA TypeUser ==
    ASSUME Typed, LogOut \/ \E a \in Accounts : Remove(a) \/ LogIn(a) PROVE Typed'
<1> USE DEF Typed, TypeOK
<1>1. UNCHANGED <<pc, lock, backups, registers>>
  BY DEF LogOut, Remove, LogIn, kept
<1>2. begun' \in 0..MaxBegun
  <2>1. Starts
    BY DEF LogOut, Remove, LogIn
  <2>2. QED
    BY <2>1, AccountAssumption DEF Starts, AccountAssumption
<1>3. mishaps' \subseteq Mishaps
  BY MishapType DEF LogOut, Remove, LogIn, Mishaps
<1>4. valid' \subseteq Accounts
  BY DEF LogOut, Remove, LogIn
<1>5. CASE LogOut
  <2>1. live' \in Credentials /\ block' \in Accounts \cup {None}
    BY <1>5 DEF LogOut, Credentials
  <2>2. UNCHANGED <<kept, minted>>
    BY <1>5 DEF LogOut
  <2>3. QED
    BY <1>1, <1>2, <1>3, <1>4, <2>1, <2>2 DEF kept, registers, Registers
<1>6. ASSUME NEW a \in Accounts, Remove(a) PROVE Typed'
  <2>1. store' \in [Accounts -> Credentials]
    BY <1>6 DEF Remove, Credentials
  <2>2. profile' \in [Accounts -> Accounts \cup {None}] /\ active' \in Accounts \cup {None}
        /\ UNCHANGED <<live, block, minted>>
    BY <1>6 DEF Remove
  <2>3. QED
    BY <1>1, <1>2, <1>3, <1>4, <2>1, <2>2 DEF registers, Registers
<1>7. ASSUME NEW a \in Accounts, LogIn(a) PROVE Typed'
  <2>1. minted[a] + 1 \in 1..MaxGen
    BY <1>7, AccountAssumption DEF LogIn, AccountAssumption
  <2>2. minted' \in [Accounts -> 1..MaxGen]
    BY <1>7, <2>1 DEF LogIn
  <2>3. live' \in Credentials
    BY <1>7, <2>1, MintToken DEF LogIn, Credentials
  <2>4. block' \in Accounts /\ UNCHANGED kept
    BY <1>7 DEF LogIn
  <2>5. QED
    BY <1>1, <1>2, <1>3, <1>4, <2>2, <2>3, <2>4 DEF kept, registers, Registers
<1>8. QED
  BY <1>5, <1>6, <1>7

(* Every step preserves the types.                                          *)
LEMMA TypeStep == Typed /\ [Next]_vars => Typed'
<1> SUFFICES ASSUME Typed, [Next]_vars PROVE Typed'
  OBVIOUS
<1>1. CASE UNCHANGED vars
  BY <1>1 DEF Typed, TypeOK, Registers, vars, kept, server, registers
<1>2. ASSUME NEW p \in Procs, LockStep(p) \/ Crash(p) PROVE Typed'
  BY <1>2, TypeLock, TypeCrash
<1>3. ASSUME NEW p \in Switchers, SwitchStep(p) PROVE Typed'
  BY <1>3, TypeSwitch
<1>4. ASSUME NEW p \in Adders, BeginAdd(p) \/ AddStep(p) PROVE Typed'
  BY <1>4, TypeBegin, TypeAdd, Kinds DEF BeginAdd
<1>5. ASSUME NEW p \in Switchers, NEW a \in Accounts, Begin(p, a) PROVE Typed'
  BY <1>5, TypeBegin, Kinds DEF Begin
<1>6. ASSUME NEW p \in Sessions, Expire(p) \/ SessionStep(p) PROVE Typed'
  BY <1>6, TypeBegin, TypeSession, Kinds DEF Expire
<1>7. CASE LogOut \/ \E a \in Accounts : Remove(a) \/ LogIn(a)
  BY <1>7, TypeUser
<1>8. QED
  BY <1>1, <1>2, <1>3, <1>4, <1>5, <1>6, <1>7 DEF Next

(* Every reachable state is well typed.                                     *)
THEOREM TypeCorrect == Spec => []TypeOK
<1>1. Typed => TypeOK
  BY DEF Typed
<1>2. QED
  BY TypeInit, TypeStep, <1>1, PTL DEF Spec

-----------------------------------------------------------------------------
(* Mutual exclusion.  A lock that is stamped by a process is removed by it, *)
(* or by one that takes it for stale, and then the process was dead unless  *)
(* a takeover happened.                                                     *)
HasBoth == {"load", "backup", "save", "check", "write", "block", "point", "reread",
            "renewed", "unlegacy"}
HasPrimary == HasBoth \cup {"legacy", "breakLegacy", "unprimary"}
Holds(p) ==
    /\ pc[p] \in HasPrimary => lock["primary"] = p
    /\ pc[p] \in HasBoth => lock["legacy"] = p
LockInv == "takeover" \in mishaps \/ \A p \in Procs : Holds(p)

(* What must have happened before clauderig promises less about accounts.   *)
Bad == {"takeover", "untracked", "overlap", "cutoff", "halfway"}

(* One login, seen from its four places.  The live token, the profile block *)
(* and the active pointer name one account, except while a switch is        *)
(* between its writes; and that switch knows what it displaced.             *)
TokenNamesActive == live \in Tokens /\ active # None => live.acct = active
TokenNamesBlock == live \in Tokens /\ block # None => live.acct = block
BlockNamesActive == block # None /\ active # None => block = active
Carries(p) ==
    /\ pc[p] \in Loaded => next[p].acct = want[p] /\ name[p] = want[p] /\ act[p] = active
    /\ pc[p] \in {"save", "check", "write"} => cur[p] = live
    /\ pc[p] \in {"block", "point"} => live = next[p]
    /\ pc[p] = "block" /\ cur[p] \in Tokens =>
          /\ active # None => cur[p].acct = active
          /\ block # None => cur[p].acct = block
    /\ pc[p] = "point" => block = want[p]
    /\ pc[p] = "renewed" => live = cur[p] /\ next[p].acct = cur[p].acct
    /\ Adding(p) => cur[p] = live
    /\ pc[p] \in {"capture", "pointAdd"} => want[p] = block
Named ==
    /\ OwnRecord
    /\ \A a \in Accounts : profile[a] \in {None, a}
    /\ \A p, q \in Procs : Adding(p) => ~Inside(q)
    /\ (\A p \in Procs : pc[p] \notin {"block", "point"}) => TokenNamesActive
    /\ (\A p \in Procs : pc[p] # "block") => TokenNamesBlock
    /\ (\A p \in Procs : pc[p] # "point") => BlockNamesActive
    /\ \A p \in Procs : Carries(p)
NamedInv == mishaps \cap Bad = {} => Named


(* Outside a lock step the locks stay, and nobody comes to hold one.        *)
LEMMA LockFrame ==
    ASSUME LockInv, mishaps \subseteq mishaps', lock' = lock,
           \A p \in Procs : /\ pc'[p] \in HasPrimary => pc[p] \in HasPrimary
                            /\ pc'[p] \in HasBoth => pc[p] \in HasBoth
    PROVE  LockInv'
BY DEF LockInv, Holds

(* A step of p that stays with both locks, or leaves its part.              *)
LEMMA LockMove ==
    ASSUME Typed, LockInv, mishaps \subseteq mishaps', lock' = lock, NEW p \in Procs,
           NEW x \in Labels, NEW y \in Labels, Goto(p, x, y),
           x \in HasBoth \/ y \notin HasPrimary
    PROVE  LockInv'
<1>1. pc[p] = x /\ pc'[p] = y /\ \A q \in Procs \ {p} : pc'[q] = pc[q]
  BY GotoMoves
<1>2. \A q \in Procs : /\ pc'[q] \in HasPrimary => pc[q] \in HasPrimary
                       /\ pc'[q] \in HasBoth => pc[q] \in HasBoth
  BY <1>1 DEF HasPrimary
<1>3. QED
  BY <1>2, LockFrame

(* The lock steps: a lock is taken when it is free, and given up by its     *)
(* holder or taken over from one that is dead.                              *)
LEMMA LockInvLock == ASSUME Typed, LockInv, NEW p \in Procs, LockStep(p) PROVE LockInv'
<1> SUFFICES ASSUME "takeover" \notin mishaps' PROVE \A q \in Procs : Holds(q)'
  BY DEF LockInv
<1>1. PICK l \in LockNames : Take(p, l) \/ GiveUp(p, l) \/ SeeStale(p, l)
                               \/ BreakLock(p, l) \/ ReleaseLock(p, l)
  BY DEF LockStep
<1>2. l = "primary" \/ l = "legacy"
  BY DEF LockNames
<1>3. mishaps \subseteq mishaps'
  BY <1>1 DEF Take, GiveUp, SeeStale, BreakLock, ReleaseLock, Mishap
<1>4. \A q \in Procs : Holds(q)
  BY <1>3 DEF LockInv
<1>5. pc \in [Procs -> Labels] /\ lock \in [LockNames -> Procs \cup {None}]
  BY DEF Typed, TypeOK
<1>6. SUFFICES ASSUME NEW q \in Procs PROVE Holds(q)'
  OBVIOUS
<1>7. Holds(q)
  BY <1>4
<1>8. CASE Take(p, l)
  <2>1. lock[l] = None /\ lock' = [lock EXCEPT ![l] = p]
    BY <1>8 DEF Take
  <2>2. CASE q = p
    <3>1. CASE l = "primary"
      <4>1. pc'[p] = "legacy" /\ lock'["primary"] = p
        BY <1>5, <1>8, <2>1, <3>1 DEF Take, Goto, LockNames
      <4>2. QED
        BY <2>2, <4>1 DEF Holds, HasBoth
    <3>2. CASE l = "legacy"
      <4>1. pc[p] = "legacy" /\ lock'["legacy"] = p /\ lock'["primary"] = lock["primary"]
        BY <1>5, <1>8, <2>1, <3>2 DEF Take, Goto, LockNames
      <4>2. lock["primary"] = p
        BY <1>7, <2>2, <4>1 DEF Holds, HasPrimary
      <4>3. QED
        BY <2>2, <4>1, <4>2 DEF Holds
    <3>3. QED
      BY <1>2, <3>1, <3>2
  <2>3. CASE q # p
    <3>1. pc'[q] = pc[q]
      BY <1>5, <1>8, <2>3 DEF Take, Goto
    <3>2. \A m \in LockNames : lock[m] = q => lock'[m] = q
      BY <1>5, <2>1, Kinds
    <3>3. QED
      BY <1>7, <3>1, <3>2 DEF Holds, LockNames
  <2>4. QED
    BY <2>2, <2>3
<1>9. CASE GiveUp(p, l) \/ SeeStale(p, l)
  <2>1. lock' = lock
    BY <1>9 DEF GiveUp, SeeStale
  <2>2. pc'[q] \in HasBoth => pc[q] \in HasBoth
    BY <1>2, <1>5, <1>9 DEF GiveUp, SeeStale, Goto, Breaking, HasBoth
  <2>3. pc'[q] \in HasPrimary => pc[q] \in HasPrimary
    BY <1>2, <1>5, <1>9 DEF GiveUp, SeeStale, Goto, Breaking, HasBoth, HasPrimary
  <2>4. QED
    BY <1>7, <2>1, <2>2, <2>3 DEF Holds
<1>10. CASE BreakLock(p, l)
  <2>1. lock' = [lock EXCEPT ![l] = None] /\ (lock[l] = None \/ ~Alive(lock[l]))
    BY <1>10 DEF BreakLock, Mishap
  <2>2. pc'[q] \in HasPrimary => pc[q] \in HasPrimary
    BY <1>2, <1>5, <1>10 DEF BreakLock, Goto, Breaking, HasBoth, HasPrimary
  <2>3. pc'[q] \in HasBoth => pc[q] \in HasBoth
    BY <1>2, <1>5, <1>10 DEF BreakLock, Goto, Breaking, HasBoth
  <2>4. pc[q] \in HasPrimary => q # lock[l]
    BY <2>1, Kinds DEF Alive, HasBoth, HasPrimary
  <2>5. \A m \in LockNames : pc[q] \in HasPrimary /\ lock[m] = q => lock'[m] = q
    BY <1>5, <2>1, <2>4
  <2>6. QED
    BY <1>7, <2>2, <2>3, <2>5 DEF Holds, LockNames, HasPrimary
<1>11. CASE ReleaseLock(p, l)
  <2>1. lock' = [lock EXCEPT ![l] = IF @ = p THEN None ELSE @]
    BY <1>11 DEF ReleaseLock
  <2>2. CASE q = p
    <3>1. CASE l = "primary"
      BY <1>5, <1>11, <2>2, <3>1 DEF ReleaseLock, Goto, Holds, HasBoth, HasPrimary
    <3>2. CASE l = "legacy"
      <4>1. pc[p] = "unlegacy" /\ pc'[p] = "unprimary" /\ lock'["primary"] = lock["primary"]
        BY <1>5, <1>11, <2>1, <3>2 DEF ReleaseLock, Goto, LockNames
      <4>2. QED
        BY <1>7, <2>2, <4>1 DEF Holds, HasBoth, HasPrimary
    <3>3. QED
      BY <1>2, <3>1, <3>2
  <2>3. CASE q # p
    <3>1. pc'[q] = pc[q]
      BY <1>5, <1>2, <1>11, <2>3 DEF ReleaseLock, Goto
    <3>2. \A m \in LockNames : lock[m] = q => lock'[m] = q
      BY <1>5, <2>1, <2>3
    <3>3. QED
      BY <1>7, <3>1, <3>2 DEF Holds, LockNames
  <2>4. QED
    BY <2>2, <2>3
<1>12. QED
  BY <1>1, <1>8, <1>9, <1>10, <1>11

(* Every step keeps who holds what.                                         *)
LEMMA LockInvStep == Typed /\ LockInv /\ [Next]_vars => LockInv'
<1> SUFFICES ASSUME Typed, LockInv, [Next]_vars PROVE LockInv'
  OBVIOUS
<1> USE DEF Labels, HasBoth, HasPrimary
<1>1. CASE UNCHANGED vars
  BY <1>1 DEF LockInv, Holds, vars
<1>2. ASSUME NEW p \in Procs, LockStep(p) PROVE LockInv'
  BY <1>2, LockInvLock
<1>3. ASSUME NEW p \in Procs, Crash(p) PROVE LockInv'
  <2>1. Goto(p, pc[p], "dead") /\ pc[p] \in Labels /\ lock' = lock /\ mishaps \subseteq mishaps'
    BY <1>3 DEF Crash, Goto, Mishap, Typed, TypeOK
  <2>2. QED
    BY <2>1, LockMove
<1>4. ASSUME NEW p \in Switchers, SwitchStep(p) PROVE LockInv'
  <2>1. lock' = lock /\ mishaps \subseteq mishaps'
    BY <1>4 DEF SwitchStep, Load, Backup, Save, Check, Write, WriteBlock, Point, Mishap
  <2>2. \E x \in {"load", "backup", "save", "check", "write", "block", "point"} :
           \E y \in Labels : Goto(p, x, y)
    BY <1>4 DEF SwitchStep, Load, Backup, Save, Check, Write, WriteBlock, Point
  <2>3. QED
    BY <2>1, <2>2, LockMove, Kinds
<1>5. ASSUME NEW p \in Adders, BeginAdd(p) \/ AddStep(p) PROVE LockInv'
  <2>1. lock' = lock /\ mishaps \subseteq mishaps'
    BY <1>5 DEF BeginAdd, AddStep, ReadBlock, Capture, CaptureFails, PointAdd,
     PointAddFails, Mishap
  <2>2. \E x \in Labels : \E y \in {"readBlock", "capture", "pointAdd", "idle"} : Goto(p, x, y)
    BY <1>5 DEF BeginAdd, AddStep, ReadBlock, Capture, CaptureFails, PointAdd, PointAddFails
  <2>3. QED
    BY <2>1, <2>2, LockMove, Kinds
<1>6. ASSUME NEW p \in Switchers, NEW a \in Accounts, Begin(p, a) PROVE LockInv'
  BY <1>6, LockMove, Kinds DEF Begin
<1>7. ASSUME NEW p \in Sessions, Expire(p) PROVE LockInv'
  BY <1>7, LockMove, Kinds DEF Expire
<1>8. ASSUME NEW p \in Sessions, SessionStep(p) PROVE LockInv'
  <2>1. lock' = lock /\ mishaps \subseteq mishaps'
    BY <1>8 DEF SessionStep, Renew, SaveRenewed
  <2>2. \E x \in {"reread", "renewed"} : \E y \in Labels : Goto(p, x, y)
    BY <1>8 DEF SessionStep, Renew, SaveRenewed
  <2>3. QED
    BY <2>1, <2>2, LockMove, Kinds
<1>9. ASSUME NEW a \in Accounts, Remove(a) \/ LogIn(a) PROVE LockInv'
  BY <1>9, LockFrame DEF Remove, LogIn, Mishap
<1>10. CASE LogOut
  BY <1>10, LockFrame DEF LogOut
<1>11. QED
  BY <1>1, <1>2, <1>3, <1>4, <1>5, <1>6, <1>7, <1>8, <1>9, <1>10 DEF Next

(* No lock is held at first.                                                *)
LEMMA LockInvInit == Init => LockInv
BY DEF Init, LockInv, Holds, HasPrimary, HasBoth

(* Whoever is inside has stamped both locks, so there is one.               *)
LEMMA Alone ==
    ASSUME LockInv, "takeover" \notin mishaps, NEW p \in Procs, NEW q \in Procs,
           Inside(p), Inside(q)
    PROVE  p = q
BY DEF LockInv, Holds, HasBoth, Inside

(* A switch and a refresh, or two switches, never work on the login at once.*)
THEOREM OneWorksAtATime == Spec => []OneAtATime
<1>1. LockInv => OneAtATime
  BY Alone DEF OneAtATime
<1>2. QED
  BY TypeInit, TypeStep, LockInvInit, LockInvStep, <1>1, PTL DEF Spec

-----------------------------------------------------------------------------
(* Everything names one account at first.                                   *)
LEMMA NamedInit == Init => NamedInv
<1> SUFFICES ASSUME Init PROVE Named
  BY DEF NamedInv
<1>1. \A a \in Accounts : store[a].acct = a
  BY DEF Init, Token
<1>2. OwnRecord
  BY <1>1 DEF OwnRecord
<1>3. \A a \in Accounts : profile[a] \in {None, a}
  BY DEF Init
<1>4. live.acct = active /\ block = active
  BY DEF Init, Token
<1>5. TokenNamesActive /\ TokenNamesBlock /\ BlockNamesActive
  BY <1>4 DEF TokenNamesActive, TokenNamesBlock, BlockNamesActive
<1>6. \A p \in Procs : pc[p] = "idle"
  BY DEF Init
<1>7. \A p \in Procs : Carries(p) /\ ~Adding(p)
  BY <1>6 DEF Carries, Adding, Loaded
<1>8. QED
  BY <1>2, <1>3, <1>5, <1>7 DEF Named

(* A process that is neither inside nor adding carries nothing of interest. *)
LEMMA CarriesNothing ==
    ASSUME NEW q, ~Inside(q), ~Adding(q) PROVE Carries(q)
BY DEF Inside, Adding, Carries, Loaded

(* Steps that leave the login and the pointer.                              *)
LEMMA NamedStores ==
    ASSUME Typed, Named, NEW p \in Procs, Others(p), Carries(p)',
           UNCHANGED <<live, block, active>>,
           OwnRecord', \A a \in Accounts : profile'[a] \in {None, a},
           pc[p] \notin {"block", "point"}, pc'[p] \notin {"block", "point"},
           Inside(p)' => ~Adding(p)' /\ (Inside(p) \/ \A q \in Procs : ~Adding(q)),
           Adding(p)' => Adding(p) \/ \A q \in Procs : ~Inside(q)
    PROVE  Named'
<1>1. \A q \in Procs \ {p} : /\ pc'[q] = pc[q] /\ want'[q] = want[q] /\ act'[q] = act[q]
                             /\ cur'[q] = cur[q] /\ next'[q] = next[q] /\ name'[q] = name[q]
  BY DEF Others
<1>2. \A q \in Procs : Carries(q)'
  BY <1>1 DEF Named, Carries, Adding
<1>3. \A q, r \in Procs : (Adding(q) => ~Inside(r))'
  BY <1>1 DEF Named, Adding, Inside
<1>4. (\A q \in Procs : pc'[q] \notin {"block", "point"}) => TokenNamesActive'
  BY <1>1 DEF Named, TokenNamesActive
<1>5. (\A q \in Procs : pc'[q] # "block") => TokenNamesBlock'
  BY <1>1 DEF Named, TokenNamesBlock
<1>6. (\A q \in Procs : pc'[q] # "point") => BlockNamesActive'
  BY <1>1 DEF Named, BlockNamesActive
<1>7. QED
  BY <1>2, <1>3, <1>4, <1>5, <1>6 DEF Named

(* Steps that write none of the four places.                                *)
LEMMA NamedQuietly ==
    ASSUME Typed, Named, NEW p \in Procs, Others(p), Carries(p)',
           UNCHANGED <<live, block, store, profile, active>>,
           pc[p] \notin {"block", "point"}, pc'[p] \notin {"block", "point"},
           Inside(p)' => ~Adding(p)' /\ (Inside(p) \/ \A q \in Procs : ~Adding(q)),
           Adding(p)' => Adding(p) \/ \A q \in Procs : ~Inside(q)
    PROVE  Named'
<1>1. OwnRecord' /\ \A a \in Accounts : profile'[a] \in {None, a}
  BY DEF Named, OwnRecord
<1>2. QED
  BY <1>1, NamedStores

(* The steps of a process that works alone, inside or adding.               *)
LEMMA NamedAlone ==
    ASSUME Typed, Named, NEW p \in Procs, Others(p), Carries(p)',
           \A q \in Procs \ {p} : ~Inside(q) /\ ~Adding(q),
           ~(Inside(p)' /\ Adding(p)'),
           OwnRecord', \A a \in Accounts : profile'[a] \in {None, a},
           pc'[p] \notin {"block", "point"} => TokenNamesActive',
           pc'[p] # "block" => TokenNamesBlock',
           pc'[p] # "point" => BlockNamesActive'
    PROVE  Named'
<1>1. \A q \in Procs \ {p} : (~Inside(q) /\ ~Adding(q))'
  BY DEF Others, Inside, Adding
<1>2. \A q \in Procs : Carries(q)'
  BY <1>1 DEF Inside, Adding, Carries, Loaded
<1>3. \A q, r \in Procs : (Adding(q) => ~Inside(r))'
  BY <1>1
<1>4. QED
  BY <1>2, <1>3 DEF Named

(* The locks.  An add that is going on when both are taken is an overlap.   *)
LEMMA NamedLock ==
    ASSUME Typed, Named, mishaps' \cap Bad = {}, NEW p \in Procs, LockStep(p)
    PROVE  Named'
<1>1. PICK l \in LockNames : Take(p, l) \/ GiveUp(p, l) \/ SeeStale(p, l)
                               \/ BreakLock(p, l) \/ ReleaseLock(p, l)
  BY DEF LockStep
<1>2. l = "primary" \/ l = "legacy"
  BY DEF LockNames
<1>3. UNCHANGED <<live, block, store, profile, active>>
  BY <1>1 DEF Take, GiveUp, SeeStale, BreakLock, ReleaseLock, kept
<1>4. pc \in [Procs -> Labels]
  BY DEF Typed, TypeOK
<1>5. CASE Take(p, l)
  <2>1. pc[p] = l /\ pc'[p] \in {"legacy", "load", "reread"} /\ UNCHANGED registers
        /\ \A q \in Procs \ {p} : pc'[q] = pc[q]
    BY <1>2, <1>4, <1>5 DEF Take, Goto
  <2>2. Others(p)
    BY <2>1 DEF Others, registers
  <2>3. Carries(p)'
    BY <2>1 DEF Carries, Adding, Loaded
  <2>4. Inside(p)' => \A q \in Procs : ~Adding(q)
    <3>1. CASE l = "primary"
      BY <1>4, <1>5, <3>1 DEF Take, Goto, Inside
    <3>2. CASE l = "legacy"
      BY <1>5, <3>2 DEF Take, Mishap, Bad
    <3>3. QED
      BY <1>2, <3>1, <3>2
  <2>5. ~Adding(p)'
    BY <2>1 DEF Adding
  <2>6. pc[p] \notin {"block", "point"} /\ pc'[p] \notin {"block", "point"}
    BY <1>2, <2>1
  <2>7. QED
    BY <1>3, <2>2, <2>3, <2>4, <2>5, <2>6, NamedQuietly
<1>6. CASE GiveUp(p, l) \/ SeeStale(p, l) \/ BreakLock(p, l) \/ ReleaseLock(p, l)
  <2>1. Others(p)
    BY <1>4, <1>6 DEF Others, GiveUp, SeeStale, BreakLock, ReleaseLock, Goto, Forget, registers,
       Typed, TypeOK
  <2>2. pc'[p] \in Contending \cup {"idle", "unprimary"}
        /\ pc[p] \in Contending \cup {"unlegacy", "unprimary"}
    BY <1>2, <1>4, <1>6 DEF GiveUp, SeeStale, BreakLock, ReleaseLock, Goto, Breaking, Contending
  <2>3. Carries(p)' /\ ~Inside(p)' /\ ~Adding(p)'
    BY <2>2 DEF Carries, Inside, Adding, Loaded, Contending
  <2>4. pc[p] \notin {"block", "point"} /\ pc'[p] \notin {"block", "point"}
    BY <2>2 DEF Contending
  <2>5. QED
    BY <1>3, <2>1, <2>3, <2>4, NamedQuietly
<1>7. QED
  BY <1>1, <1>5, <1>6

(* How a process begins.  An add that finds somebody inside is an overlap.  *)
LEMMA NamedBegin ==
    ASSUME Typed, Named, mishaps' \cap Bad = {}, NEW p \in Procs,
           (\E a \in Accounts : Begin(p, a)) \/ BeginAdd(p) \/ Expire(p)
    PROVE  Named'
<1>1. pc \in [Procs -> Labels]
  BY DEF Typed, TypeOK
<1>2. UNCHANGED <<live, block, store, profile, active>>
  BY DEF Begin, BeginAdd, Expire, kept
<1>3. Others(p)
  BY <1>1 DEF Begin, BeginAdd, Expire, Goto, Others, Typed, TypeOK
<1>4. pc[p] = "idle" /\ pc'[p] \in {"primary", "readBlock"}
  BY <1>1 DEF Begin, BeginAdd, Expire, Goto
<1>5. pc'[p] = "readBlock" => cur'[p] = live /\ \A q \in Procs : ~Inside(q)
  <2>1. CASE BeginAdd(p)
    <3>1. \A q \in Procs : ~Inside(q)
      BY <2>1 DEF BeginAdd, Mishap, Bad
    <3>2. cur'[p] = live
      BY <2>1 DEF BeginAdd, Typed, TypeOK
    <3>3. QED
      BY <3>1, <3>2
  <2>2. CASE (\E a \in Accounts : Begin(p, a)) \/ Expire(p)
    BY <1>1, <2>2 DEF Begin, Expire, Goto
  <2>3. QED
    BY <2>1, <2>2
<1>6. Carries(p)'
  BY <1>2, <1>4, <1>5 DEF Carries, Adding, Loaded
<1>7. ~Inside(p)' /\ (Adding(p)' => \A q \in Procs : ~Inside(q))
  BY <1>4, <1>5 DEF Inside, Adding
<1>8. QED
  BY <1>2, <1>3, <1>4, <1>6, <1>7, NamedQuietly


(* Who is inside is alone, and nobody adds.                                 *)
LEMMA InsideAlone ==
    ASSUME LockInv, Named, mishaps \cap Bad = {}, NEW p \in Procs, Inside(p)
    PROVE  \A q \in Procs \ {p} : /\ ~Inside(q) /\ ~Adding(q)
                                  /\ pc[q] \notin {"block", "point"}
<1>1. "takeover" \notin mishaps
  BY DEF Bad
<1>2. \A q \in Procs \ {p} : ~Inside(q) /\ ~Adding(q)
  BY <1>1, Alone DEF Named
<1>3. QED
  BY <1>2 DEF Inside

(* Mishaps are never forgotten.                                             *)
LEMMA MishapsStay == ASSUME Typed, [Next]_vars PROVE mishaps \subseteq mishaps'
<1>1. CASE UNCHANGED vars \/ LogOut \/ \E a \in Accounts : Remove(a) \/ LogIn(a)
  BY <1>1 DEF vars, LogOut, Remove, LogIn, Mishap
<1>2. ASSUME NEW p \in Procs, LockStep(p) \/ Crash(p) PROVE mishaps \subseteq mishaps'
  BY <1>2 DEF LockStep, Take, GiveUp, SeeStale, BreakLock, ReleaseLock, Crash, Mishap
<1>3. ASSUME NEW p \in Switchers, SwitchStep(p) PROVE mishaps \subseteq mishaps'
  BY <1>3 DEF SwitchStep, Load, Backup, Save, Check, Write, WriteBlock, Point, Mishap
<1>4. ASSUME NEW p \in Adders, BeginAdd(p) \/ AddStep(p) PROVE mishaps \subseteq mishaps'
  BY <1>4 DEF BeginAdd, AddStep, ReadBlock, Capture, CaptureFails, PointAdd,
     PointAddFails, Mishap
<1>5. ASSUME NEW p \in Switchers, NEW a \in Accounts, Begin(p, a)
      PROVE mishaps \subseteq mishaps'
  BY <1>5 DEF Begin
<1>6. ASSUME NEW p \in Sessions, Expire(p) \/ SessionStep(p) PROVE mishaps \subseteq mishaps'
  BY <1>6 DEF Expire, SessionStep, Renew, SaveRenewed
<1>7. QED
  BY <1>1, <1>2, <1>3, <1>4, <1>5, <1>6 DEF Next

(* A switch: what it reads under the lock stays true until its two writes,  *)
(* and these and the pointer bring the three names together again.          *)
LEMMA NamedSwitch ==
    ASSUME Typed, LockInv, Named, mishaps \cap Bad = {}, mishaps' \cap Bad = {},
           NEW p \in Switchers, SwitchStep(p)
    PROVE  Named'
<1>0. p \in Procs
  BY Kinds
<1>1. pc \in [Procs -> Labels] /\ act \in [Procs -> Accounts \cup {None}]
      /\ cur \in [Procs -> Credentials] /\ next \in [Procs -> Credentials]
      /\ name \in [Procs -> Accounts \cup {None}]
  BY DEF Typed, TypeOK
<1>2. Inside(p) /\ Others(p)
  BY <1>0, <1>1 DEF SwitchStep, Load, Backup, Save, Check, Write, WriteBlock, Point, Goto,
     Inside, Others, registers
<1>3. \A q \in Procs \ {p} : ~Inside(q) /\ ~Adding(q) /\ pc[q] \notin {"block", "point"}
  BY <1>0, <1>2, InsideAlone
<1>4. ~Adding(p)' /\ ~Adding(p)
  BY <1>0, <1>1 DEF SwitchStep, Load, Backup, Save, Check, Write, WriteBlock, Point, Goto,
     Adding
<1>5. Carries(p) /\ Registers(p)
  BY <1>0 DEF Named, Typed
<1>6. pc[p] \notin {"block", "point"} => TokenNamesActive /\ TokenNamesBlock
  BY <1>3 DEF Named
<1>7. pc[p] # "point" => BlockNamesActive
  BY <1>3 DEF Named
<1>8. ASSUME pc'[p] = "unlegacy" PROVE Carries(p)'
  BY <1>8 DEF Carries, Adding, Loaded
<1>9. OwnRecord /\ \A a \in Accounts : profile[a] \in {None, a}
  BY DEF Named
<1>10. ASSUME UNCHANGED <<store, profile>>
       PROVE  OwnRecord' /\ \A a \in Accounts : profile'[a] \in {None, a}
  BY <1>9, <1>10 DEF OwnRecord
<1>11. CASE Load(p)
  <2>1. want[p] \in Accounts /\ pc[p] = "load"
    BY <1>5, <1>11 DEF Load, Registers
  <2>2. UNCHANGED <<live, block, store, profile, active, want>>
    BY <1>11 DEF Load, kept
  <2>3. Carries(p)'
    <3>1. CASE pc'[p] = "backup"
      <4>1. store[want[p]] \in Tokens /\ profile[want[p]] # None
        BY <1>0, <1>1, <1>11, <3>1 DEF Load, Goto
      <4>2. store[want[p]].acct = want[p] /\ profile[want[p]] = want[p]
        BY <1>9, <2>1, <4>1 DEF OwnRecord
      <4>3. next'[p] = store[want[p]] /\ name'[p] = profile[want[p]] /\ act'[p] = active
        BY <1>0, <1>1, <1>11 DEF Load
      <4>4. QED
        BY <2>2, <3>1, <4>2, <4>3 DEF Carries, Adding
    <3>2. CASE pc'[p] # "backup"
      BY <1>0, <1>1, <1>8, <1>11, <3>2 DEF Load, Goto
    <3>3. QED
      BY <3>1, <3>2
  <2>4. pc'[p] \notin {"block", "point"}
    BY <1>0, <1>1, <1>11 DEF Load, Goto
  <2>5. QED
    BY <1>0, <1>2, <1>4, <2>1, <2>2, <2>3, <2>4, NamedQuietly
<1>12. CASE Backup(p)
  <2>1. UNCHANGED <<live, block, store, profile, active, want, act, next, name>>
        /\ cur' = [cur EXCEPT ![p] = live]
    BY <1>12 DEF Backup
  <2>2. pc[p] = "backup" /\ pc'[p] \in {"save", "unlegacy"}
    BY <1>0, <1>1, <1>12 DEF Backup, Goto
  <2>3. Carries(p)'
    BY <1>0, <1>1, <1>5, <2>1, <2>2 DEF Carries, Adding, Loaded
  <2>4. QED
    BY <1>0, <1>2, <1>4, <2>1, <2>2, <2>3, NamedQuietly
<1>13. CASE Save(p)
  <2>1. UNCHANGED <<live, block, active, registers>>
    BY <1>13 DEF Save
  <2>2. pc[p] = "save" /\ pc'[p] = "check"
    BY <1>0, <1>1, <1>13 DEF Save, Goto
  <2>3. Carries(p)'
    BY <1>5, <2>1, <2>2 DEF Carries, Adding, Loaded, registers
  <2>4. act[p] = active /\ cur[p] = live
    BY <1>5, <2>2 DEF Carries, Loaded
  <2>5. OwnRecord'
    <3>1. store \in [Accounts -> Credentials] /\ Blank \notin Tokens
      BY AccountAssumption DEF Typed, TypeOK, AccountAssumption
    <3>2. Displaces(p) /\ cur[p] \in Tokens => cur[p].acct = act[p]
      BY <1>6, <2>2, <2>4 DEF Displaces, TokenNamesActive
    <3>3. store' = store \/ (Displaces(p) /\ cur[p] \in Tokens
             /\ \E c \in {cur[p], store[act[p]], Blank} : store' = [store EXCEPT ![act[p]] = c])
      BY <1>13 DEF Save
    <3>4. ASSUME NEW a \in Accounts, store'[a] \in Tokens PROVE store'[a].acct = a
      BY <1>9, <3>1, <3>2, <3>3, <3>4 DEF OwnRecord
    <3>5. QED
      BY <3>4 DEF OwnRecord
  <2>6. \A a \in Accounts : profile'[a] \in {None, a}
    <3>1. Displaces(p) /\ block # None => block = act[p]
      BY <1>7, <2>2, <2>4 DEF Displaces, BlockNamesActive
    <3>2. profile' = profile \/ (Displaces(p) /\ block # None
                                  /\ profile' = [profile EXCEPT ![act[p]] = block])
      BY <1>13 DEF Save
    <3>3. profile \in [Accounts -> Accounts \cup {None}]
      BY DEF Typed, TypeOK
    <3>4. QED
      BY <1>9, <3>1, <3>2, <3>3
  <2>7. QED
    BY <1>0, <1>2, <1>4, <2>1, <2>2, <2>3, <2>5, <2>6, NamedStores
<1>14. CASE Check(p)
  <2>1. UNCHANGED <<live, block, store, profile, active, registers>>
    BY <1>14 DEF Check, kept
  <2>2. pc[p] = "check" /\ pc'[p] \in {"write", "unlegacy"}
    BY <1>0, <1>1, <1>14 DEF Check, Goto
  <2>3. Carries(p)'
    BY <1>5, <2>1, <2>2 DEF Carries, Adding, Loaded, registers
  <2>4. QED
    BY <1>0, <1>2, <1>4, <2>1, <2>2, <2>3, NamedQuietly
<1>15. CASE Write(p)
  <2>1. UNCHANGED <<block, store, profile, active, registers>>
    BY <1>15 DEF Write, kept
  <2>2. pc[p] = "write" /\ pc'[p] \in {"block", "unlegacy"}
        /\ (pc'[p] = "block" => live' = next[p])
        /\ (pc'[p] = "unlegacy" => live' \in {live, Blank})
    BY <1>0, <1>1, <1>15 DEF Write, Goto
  <2>3. cur[p] = live /\ TokenNamesActive /\ TokenNamesBlock /\ BlockNamesActive
    BY <1>5, <1>6, <1>7, <2>2 DEF Carries
  <2>4. Carries(p)'
    <3>1. CASE pc'[p] = "block"
      BY <1>5, <2>1, <2>2, <2>3, <3>1 DEF Carries, Adding, Loaded, registers,
         TokenNamesActive, TokenNamesBlock
    <3>2. CASE pc'[p] = "unlegacy"
      BY <1>8, <3>2
    <3>3. QED
      BY <2>2, <3>1, <3>2
  <2>5. pc'[p] # "block" => TokenNamesActive' /\ TokenNamesBlock'
    BY <2>1, <2>2, <2>3, AccountAssumption DEF AccountAssumption, TokenNamesActive,
       TokenNamesBlock
  <2>6. BlockNamesActive'
    BY <2>1, <2>3 DEF BlockNamesActive
  <2>7. QED
    BY <1>0, <1>2, <1>3, <1>4, <1>10, <2>1, <2>4, <2>5, <2>6, NamedAlone
<1>16. CASE WriteBlock(p)
  <2>1. UNCHANGED <<store, profile, active, registers>>
    BY <1>16 DEF WriteBlock, kept
  <2>2. pc[p] = "block" /\ pc'[p] \in {"point", "unlegacy"}
    BY <1>0, <1>1, <1>16 DEF WriteBlock, Goto
  <2>3. CASE pc'[p] = "point"
    <3>1. live' = live /\ block' = name[p]
      BY <1>0, <1>1, <1>16, <2>3 DEF WriteBlock, Goto
    <3>2. live = next[p] /\ next[p].acct = want[p] /\ name[p] = want[p]
      BY <1>5, <2>2 DEF Carries, Loaded
    <3>3. Carries(p)'
      BY <1>5, <2>1, <2>2, <2>3, <3>1, <3>2 DEF Carries, Adding, Loaded, registers
    <3>4. TokenNamesBlock'
      BY <3>1, <3>2 DEF TokenNamesBlock
    <3>5. QED
      BY <1>0, <1>2, <1>3, <1>4, <1>10, <2>1, <2>3, <3>3, <3>4, NamedAlone
  <2>4. CASE pc'[p] = "unlegacy"
    <3>1. block' = block /\ live' = cur[p]
      BY <1>0, <1>1, <1>16, <2>4 DEF WriteBlock, Goto, Mishap, Bad
    <3>2. Carries(p)'
      BY <1>8, <2>4
    <3>3. TokenNamesActive' /\ TokenNamesBlock'
      BY <1>5, <2>1, <2>2, <3>1 DEF Carries, TokenNamesActive, TokenNamesBlock
    <3>4. BlockNamesActive'
      BY <1>7, <2>1, <2>2, <3>1 DEF BlockNamesActive
    <3>5. QED
      BY <1>0, <1>2, <1>3, <1>4, <1>10, <2>1, <3>2, <3>3, <3>4, NamedAlone
  <2>5. QED
    BY <2>2, <2>3, <2>4
<1>17. CASE Point(p)
  <2>1. UNCHANGED <<live, block, store, profile>> /\ active' = want[p]
    BY <1>17 DEF Point, Mishap, Bad
  <2>2. pc[p] = "point" /\ pc'[p] = "unlegacy"
    BY <1>0, <1>1, <1>17 DEF Point, Goto
  <2>3. live = next[p] /\ next[p].acct = want[p] /\ block = want[p]
    BY <1>5, <2>2 DEF Carries, Loaded
  <2>4. TokenNamesActive' /\ TokenNamesBlock' /\ BlockNamesActive'
    BY <2>1, <2>3 DEF TokenNamesActive, TokenNamesBlock, BlockNamesActive
  <2>5. QED
    BY <1>0, <1>2, <1>3, <1>4, <1>8, <1>10, <2>1, <2>2, <2>4, NamedAlone
<1>18. QED
  BY <1>11, <1>12, <1>13, <1>14, <1>15, <1>16, <1>17 DEF SwitchStep


(* An add: nobody is inside, so what it read is still there.                *)
LEMMA NamedAdd ==
    ASSUME Typed, Named, mishaps' \cap Bad = {}, NEW p \in Adders, AddStep(p)
    PROVE  Named'
<1>0. p \in Procs
  BY Kinds
<1>1. pc \in [Procs -> Labels] /\ want \in [Procs -> Accounts \cup {None}]
  BY DEF Typed, TypeOK
<1>2. Adding(p) /\ Others(p)
  BY <1>0, <1>1 DEF AddStep, ReadBlock, Capture, CaptureFails, PointAdd, PointAddFails, Goto,
     Forget, Adding, Others, Typed, TypeOK, registers
<1>3. \A q \in Procs : ~Inside(q) /\ pc[q] \notin {"block", "point"}
  BY <1>0, <1>2 DEF Named, Inside
<1>4. ~Inside(p)'
  BY <1>0, <1>1 DEF AddStep, ReadBlock, Capture, CaptureFails, PointAdd, PointAddFails, Goto,
     Inside
<1>5. Carries(p) /\ Registers(p)
  BY <1>0 DEF Named, Typed
<1>6. OwnRecord /\ \A a \in Accounts : profile[a] \in {None, a}
  BY DEF Named
<1>7. CASE ReadBlock(p)
  <2>1. UNCHANGED <<live, block, store, profile, active, cur>> /\ want'[p] = block
    BY <1>0, <1>1, <1>7 DEF ReadBlock, kept
  <2>2. pc[p] = "readBlock" /\ pc'[p] \in {"idle", "capture"}
    BY <1>0, <1>1, <1>7 DEF ReadBlock, Goto
  <2>3. Carries(p)'
    BY <1>5, <2>1, <2>2 DEF Carries, Adding, Loaded
  <2>4. QED
    BY <1>0, <1>2, <1>4, <2>1, <2>2, <2>3, NamedQuietly
<1>8. CASE Capture(p)
  <2>1. UNCHANGED <<live, block, active, registers>>
        /\ store' = [store EXCEPT ![want[p]] = cur[p]]
        /\ profile' = [profile EXCEPT ![want[p]] = want[p]]
    BY <1>8 DEF Capture
  <2>2. pc[p] = "capture" /\ pc'[p] = "pointAdd"
    BY <1>0, <1>1, <1>8 DEF Capture, Goto
  <2>3. want[p] \in Accounts /\ want[p] # None /\ want[p] = block /\ cur[p] = live
        /\ cur[p] \in Tokens
    BY <1>2, <1>5, <2>2, Kinds DEF Carries, Registers
  <2>4. cur[p].acct = want[p]
    BY <1>3, <2>3 DEF Named, TokenNamesBlock
  <2>5. OwnRecord'
    BY <1>6, <2>1, <2>4 DEF OwnRecord, Typed, TypeOK
  <2>6. \A a \in Accounts : profile'[a] \in {None, a}
    BY <1>6, <2>1 DEF Typed, TypeOK
  <2>7. Carries(p)'
    BY <1>5, <2>1, <2>2 DEF Carries, Adding, Loaded, registers
  <2>8. QED
    BY <1>0, <1>2, <1>4, <2>1, <2>2, <2>5, <2>6, <2>7, NamedStores
<1>9. CASE PointAdd(p)
  <2>1. UNCHANGED <<live, block, store, profile>> /\ active' = want[p]
    BY <1>9 DEF PointAdd
  <2>2. pc[p] = "pointAdd" /\ pc'[p] = "idle"
    BY <1>0, <1>1, <1>9 DEF PointAdd, Goto
  <2>3. want[p] = block /\ TokenNamesBlock
    BY <1>3, <1>5, <2>2 DEF Carries, Named
  <2>4. TokenNamesActive' /\ TokenNamesBlock' /\ BlockNamesActive'
    BY <2>1, <2>3 DEF TokenNamesActive, TokenNamesBlock, BlockNamesActive
  <2>5. \A q \in Procs \ {p} : ~Inside(q)' /\ pc[q] \notin Loaded
    BY <1>2, <1>3 DEF Others, Inside, Loaded
  <2>6. ASSUME NEW q \in Procs \ {p} PROVE Carries(q)'
    <3>1. pc'[q] = pc[q] /\ want'[q] = want[q] /\ cur'[q] = cur[q] /\ next'[q] = next[q]
      BY <1>2 DEF Others
    <3>2. Carries(q) /\ ~Inside(q)
      BY <1>3 DEF Named
    <3>3. pc'[q] \notin Loaded \cup {"renewed"}
      BY <3>1, <3>2 DEF Inside, Loaded
    <3>4. QED
      BY <2>1, <3>1, <3>2, <3>3 DEF Carries, Adding, Loaded
  <2>7. Carries(p)' /\ ~Inside(p)'
    BY <2>2 DEF Carries, Adding, Loaded, Inside
  <2>8. OwnRecord' /\ \A a \in Accounts : profile'[a] \in {None, a}
    BY <1>6, <2>1 DEF OwnRecord
  <2>9. QED
    BY <2>4, <2>5, <2>6, <2>7, <2>8 DEF Named
<1>10. CASE CaptureFails(p)
  <2>1. UNCHANGED <<live, block, active>>
    BY <1>10 DEF CaptureFails
  <2>2. pc[p] = "capture" /\ pc'[p] = "idle"
    BY <1>0, <1>1, <1>10 DEF CaptureFails, Goto
  <2>3. PICK cred \in {store[want[p]], Blank, cur[p]}, named \in {profile[want[p]], None} :
           /\ store' = [store EXCEPT ![want[p]] = cred]
           /\ profile' = [profile EXCEPT ![want[p]] = named]
    BY <1>10 DEF CaptureFails
  <2>4. want[p] \in Accounts /\ want[p] # None /\ want[p] = block /\ cur[p] = live
        /\ cur[p] \in Tokens
    BY <1>2, <1>5, <2>2, Kinds DEF Carries, Registers
  <2>5. cur[p].acct = want[p]
    BY <1>3, <2>4 DEF Named, TokenNamesBlock
  <2>6. cred \in Tokens => cred.acct = want[p]
    BY <1>6, <2>4, <2>5, TokenParts DEF OwnRecord
  <2>7. OwnRecord'
    BY <1>6, <2>3, <2>6 DEF OwnRecord, Typed, TypeOK
  <2>8. \A a \in Accounts : profile'[a] \in {None, a}
    BY <1>6, <2>3, <2>4 DEF Typed, TypeOK
  <2>9. Carries(p)'
    BY <2>2 DEF Carries, Adding, Loaded
  <2>10. QED
    BY <1>0, <1>2, <1>4, <2>1, <2>2, <2>7, <2>8, <2>9, NamedStores
<1>11. CASE PointAddFails(p)
  BY <1>11 DEF PointAddFails, Mishap, Bad
<1>12. QED
  BY <1>7, <1>8, <1>9, <1>10, <1>11 DEF AddStep

(* A refresh keeps the account.                                             *)
LEMMA NamedSession ==
    ASSUME Typed, LockInv, Named, mishaps \cap Bad = {}, NEW p \in Sessions, SessionStep(p)
    PROVE  Named'
<1>0. p \in Procs
  BY Kinds
<1>1. pc \in [Procs -> Labels] /\ next \in [Procs -> Credentials]
  BY DEF Typed, TypeOK
<1>2. Inside(p) /\ Others(p) /\ ~Adding(p)'
  BY <1>0, <1>1 DEF SessionStep, Renew, SaveRenewed, Goto, Inside, Others, Adding, registers
<1>3. \A q \in Procs \ {p} : ~Inside(q) /\ ~Adding(q) /\ pc[q] \notin {"block", "point"}
  BY <1>0, <1>2, InsideAlone
<1>4. Carries(p) /\ Registers(p)
  BY <1>0 DEF Named, Typed
<1>5. pc[p] \in {"reread", "renewed"} /\ pc'[p] \in {"renewed", "unlegacy"}
  BY <1>0, <1>1 DEF SessionStep, Renew, SaveRenewed, Goto
<1>6. TokenNamesActive /\ TokenNamesBlock /\ BlockNamesActive
  BY <1>3, <1>5 DEF Named
<1>7. UNCHANGED <<block, store, profile, active, cur>>
  BY DEF SessionStep, Renew, SaveRenewed, kept, registers
<1>8. OwnRecord' /\ \A a \in Accounts : profile'[a] \in {None, a}
  BY <1>7 DEF Named, OwnRecord
<1>9. CASE pc'[p] = "renewed"
  <2>1. live' = live /\ live = cur[p]
        /\ next'[p] = [cur[p] EXCEPT !.gen = minted[cur[p].acct] + 1]
    BY <1>0, <1>1, <1>9 DEF SessionStep, Renew, SaveRenewed, Goto
  <2>2. cur[p] \in Tokens
    BY <1>0, <1>4, <1>5, Kinds DEF Registers
  <2>3. next'[p].acct = cur[p].acct
    BY <2>1, <2>2 DEF Tokens
  <2>4. Carries(p)'
    BY <1>7, <1>9, <2>1, <2>3 DEF Carries, Adding, Loaded
  <2>5. QED
    BY <1>0, <1>2, <1>5, <1>7, <2>1, <2>4, NamedQuietly
<1>10. CASE pc'[p] = "unlegacy"
  <2>1. live' \in {live, Blank} \/ (pc[p] = "renewed" /\ live' = next[p])
    BY <1>0, <1>1, <1>10 DEF SessionStep, Renew, SaveRenewed, Goto
  <2>2. pc[p] = "renewed" => live \in Tokens /\ next[p].acct = live.acct
    BY <1>4 DEF Carries, Registers
  <2>3. TokenNamesActive' /\ TokenNamesBlock'
    BY <1>6, <1>7, <2>1, <2>2, AccountAssumption DEF AccountAssumption, TokenNamesActive,
       TokenNamesBlock
  <2>4. BlockNamesActive'
    BY <1>6, <1>7 DEF BlockNamesActive
  <2>5. Carries(p)'
    BY <1>10 DEF Carries, Adding, Loaded
  <2>6. QED
    BY <1>0, <1>2, <1>3, <1>8, <2>3, <2>4, <2>5, NamedAlone
<1>11. QED
  BY <1>5, <1>9, <1>10

(* A kill between the writes is a cutoff; elsewhere it may blank a file.    *)
LEMMA NamedCrash ==
    ASSUME Typed, LockInv, Named, mishaps \cap Bad = {}, mishaps' \cap Bad = {},
           NEW p \in Procs, Crash(p)
    PROVE  Named'
<1>1. pc[p] \notin {"block", "point"}
  BY DEF Crash, Mishap, Bad
<1>2. UNCHANGED <<block, profile, active, registers>> /\ pc'[p] = "dead"
      /\ \A q \in Procs \ {p} : pc'[q] = pc[q]
  BY DEF Crash, Typed, TypeOK
<1>3. Others(p) /\ Carries(p)' /\ ~Inside(p)' /\ ~Adding(p)'
  BY <1>2 DEF Others, registers, Carries, Adding, Inside, Loaded
<1>4. OwnRecord' /\ \A a \in Accounts : profile'[a] \in {None, a}
  <2>1. \A a \in Accounts : store'[a] \in {Blank, store[a]}
    BY DEF Crash
  <2>2. QED
    BY <1>2, <2>1, AccountAssumption DEF AccountAssumption, Named, OwnRecord
<1>5. CASE pc[p] = "write"
  <2>1. Inside(p)
    BY <1>5 DEF Inside
  <2>2. \A q \in Procs \ {p} : ~Inside(q) /\ ~Adding(q) /\ pc[q] \notin {"block", "point"}
    BY <2>1, InsideAlone
  <2>3. TokenNamesActive /\ TokenNamesBlock /\ BlockNamesActive
    BY <1>1, <1>5, <2>2 DEF Named
  <2>4. live' \in {live, Blank}
    BY DEF Crash
  <2>5. TokenNamesActive' /\ TokenNamesBlock' /\ BlockNamesActive'
    BY <1>2, <2>3, <2>4, AccountAssumption DEF AccountAssumption, TokenNamesActive,
       TokenNamesBlock, BlockNamesActive
  <2>6. QED
    BY <1>3, <1>4, <2>2, <2>5, NamedAlone
<1>6. CASE pc[p] # "write"
  <2>1. live' = live
    BY <1>6 DEF Crash
  <2>2. QED
    BY <1>1, <1>2, <1>3, <1>4, <2>1, NamedStores
<1>7. QED
  BY <1>5, <1>6

(* The user, while nobody works on the login.                               *)
LEMMA NamedUser ==
    ASSUME Typed, Named, mishaps' \cap Bad = {},
           LogOut \/ \E a \in Accounts : Remove(a) \/ LogIn(a)
    PROVE  Named'
<1>1. \A q \in Procs : ~Inside(q) /\ ~Adding(q)
  BY DEF LogOut, Remove, LogIn, Quiet, Mishap, Bad
<1>2. UNCHANGED <<pc, registers>>
  BY DEF LogOut, Remove, LogIn
<1>3. \A q \in Procs : ~Inside(q)' /\ ~Adding(q)' /\ pc[q] \notin {"block", "point"}
  BY <1>1, <1>2 DEF Inside, Adding
<1>4. \A q \in Procs : Carries(q)'
  BY <1>3 DEF Inside, Adding, Carries, Loaded
<1>5. TokenNamesActive /\ TokenNamesBlock /\ BlockNamesActive
  BY <1>3 DEF Named
<1>6. OwnRecord /\ \A a \in Accounts : profile[a] \in {None, a}
  BY DEF Named
<1>7. CASE LogOut
  <2>1. live' \notin Tokens /\ block' \in {block, None} /\ UNCHANGED <<store, profile, active>>
    BY <1>7, AccountAssumption DEF LogOut, AccountAssumption, kept
  <2>2. TokenNamesActive' /\ TokenNamesBlock' /\ BlockNamesActive'
    BY <1>5, <2>1 DEF TokenNamesActive, TokenNamesBlock, BlockNamesActive
  <2>3. QED
    BY <1>3, <1>4, <1>6, <2>1, <2>2 DEF Named, OwnRecord
<1>8. ASSUME NEW a \in Accounts, Remove(a) PROVE Named'
  <2>1. active' \in {active, None} /\ UNCHANGED <<live, block>>
    BY <1>8 DEF Remove
  <2>2. TokenNamesActive' /\ TokenNamesBlock' /\ BlockNamesActive'
    BY <1>5, <2>1 DEF TokenNamesActive, TokenNamesBlock, BlockNamesActive
  <2>3. OwnRecord'
    BY <1>6, <1>8, AccountAssumption DEF Remove, OwnRecord, AccountAssumption, Typed, TypeOK
  <2>4. \A b \in Accounts : profile'[b] \in {None, b}
    BY <1>6, <1>8 DEF Remove, Typed, TypeOK
  <2>5. QED
    BY <1>3, <1>4, <2>2, <2>3, <2>4 DEF Named
<1>9. ASSUME NEW a \in Accounts, LogIn(a) PROVE Named'
  <2>1. a = active /\ block' = a /\ live'.acct = a /\ UNCHANGED <<store, profile, active>>
    BY <1>9 DEF LogIn, Mishap, Bad, kept
  <2>2. TokenNamesActive' /\ TokenNamesBlock' /\ BlockNamesActive'
    BY <2>1 DEF TokenNamesActive, TokenNamesBlock, BlockNamesActive
  <2>3. QED
    BY <1>3, <1>4, <1>6, <2>1, <2>2 DEF Named, OwnRecord
<1>10. QED
  BY <1>7, <1>8, <1>9

(* Every step keeps the names together, or is a mishap.                     *)
LEMMA NamedStep == Typed /\ LockInv /\ NamedInv /\ [Next]_vars => NamedInv'
<1> SUFFICES ASSUME Typed, LockInv, NamedInv, [Next]_vars, mishaps' \cap Bad = {}
             PROVE  Named'
  BY DEF NamedInv
<1>1. mishaps \cap Bad = {}
  BY MishapsStay
<1>2. Named
  BY <1>1 DEF NamedInv
<1>3. CASE UNCHANGED vars
  BY <1>2, <1>3 DEF vars, kept, registers, Named, OwnRecord, Adding, Inside, Carries,
     TokenNamesActive, TokenNamesBlock, BlockNamesActive
<1>4. ASSUME NEW p \in Procs, LockStep(p) \/ Crash(p) PROVE Named'
  BY <1>1, <1>2, <1>4, NamedLock, NamedCrash
<1>5. ASSUME NEW p \in Switchers, SwitchStep(p) PROVE Named'
  BY <1>1, <1>2, <1>5, NamedSwitch
<1>6. ASSUME NEW p \in Adders, BeginAdd(p) \/ AddStep(p) PROVE Named'
  BY <1>2, <1>6, NamedBegin, NamedAdd, Kinds
<1>7. ASSUME NEW p \in Switchers, NEW a \in Accounts, Begin(p, a) PROVE Named'
  BY <1>2, <1>7, NamedBegin, Kinds
<1>8. ASSUME NEW p \in Sessions, Expire(p) \/ SessionStep(p) PROVE Named'
  BY <1>1, <1>2, <1>8, NamedBegin, NamedSession, Kinds
<1>9. CASE LogOut \/ \E a \in Accounts : Remove(a) \/ LogIn(a)
  BY <1>2, <1>9, NamedUser
<1>10. QED
  BY <1>3, <1>4, <1>5, <1>6, <1>7, <1>8, <1>9 DEF Next

(* The invariants hold in every reachable state.                            *)
LEMMA NamedAlways == Spec => [](Typed /\ LockInv /\ NamedInv)
BY TypeInit, TypeStep, LockInvInit, LockInvStep, NamedInit, NamedStep, PTL DEF Spec

(* No token is ever filed under another account's name.                     *)
THEOREM NeverAnothersToken == Spec => []StoreHoldsItsOwn
<1>1. NamedInv => StoreHoldsItsOwn
  BY DEF NamedInv, Named, Bad, StoreHoldsItsOwn
<1>2. QED
  BY NamedAlways, <1>1, PTL

(* The live token and the profile block name one account.                   *)
THEOREM PairsAgree == Spec => []PairAgrees
<1>1. Typed /\ NamedInv => PairAgrees
  <2> SUFFICES ASSUME Typed, NamedInv, mishaps \cap Bad = {},
                      ~\E p \in Switchers : Swapping(p)
               PROVE  live \in Tokens /\ block # None => live.acct = block
    BY DEF PairAgrees, Bad
  <2>1. \A p \in Procs : pc[p] # "block"
    BY DEF Swapping, Typed, Registers, Loaded
  <2>2. QED
    BY <2>1 DEF NamedInv, Named, TokenNamesBlock
<1>2. QED
  BY NamedAlways, <1>1, PTL
-----------------------------------------------------------------------------
(* No token is lost.  The last token of an account that is still accepted is *)
(* live, backed up or in the hands of the session that renewed it, or it is  *)
(* in the account's own store and the account is not the active one, whose   *)
(* store the next switch overwrites.                                         *)
Covering == mishaps \cap {"takeover", "untracked", "overlap", "misfiled"} = {}
Renewed == {next[s] : s \in {r \in Sessions : pc[r] = "renewed"}}
Safe(a) == Token(a) \in {live} \cup backups \cup Renewed
Apart(a) == Token(a) = store[a] /\ a # active
Findable == \A a \in valid : Safe(a) \/ Apart(a)

(* A token somewhere is none that is still to be minted; the last one in    *)
(* another account's store came there by way of a backup.                   *)
Minted(t) == t \in Tokens => t.gen <= minted[t.acct]
Past ==
    /\ Minted(live)
    /\ \A a \in Accounts : Minted(store[a])
    /\ \A t \in backups : Minted(t)
Strays == \A a, b \in Accounts :
    a # b /\ a \in valid /\ store[b] = Token(a) => Token(a) \in backups

(* What a process knows of the login while nobody else works on it.         *)
Swaps(p) == pc[p] \in {"save", "check", "write", "block", "point"}
Knows(p) ==
    /\ pc[p] \in Loaded => next[p] = store[want[p]] /\ act[p] = active
    /\ Swaps(p) => /\ cur[p] \in Tokens => cur[p] \in backups
                   /\ \A a \in valid : Token(a) \in backups \/ Apart(a)
    /\ pc[p] \in {"save", "check", "write"} => live = cur[p]
    /\ pc[p] \in {"block", "point"} => live = next[p]
    /\ pc[p] = "renewed" => live = cur[p] /\ next[p] = Token(cur[p].acct) /\ cur[p] # next[p]
    /\ Adding(p) => live = cur[p]
    /\ pc[p] \in {"capture", "pointAdd"} =>
          cur[p].acct = want[p] /\ (want[p] \in valid => cur[p] = Token(want[p]))
Apiece == \A p, q \in Procs : Adding(p) => ~Inside(q)
Kept == Apiece /\ Findable /\ Past /\ Strays /\ \A p \in Procs : Knows(p)
KeptInv == Covering => Kept

(* The live token is current.  A store that a switch may be made from has   *)
(* the last token of its account, or the account is the live one.           *)
Current(a) == store[a] \in Tokens => store[a] = Token(a)
RestCurrent == \A a \in valid : a # active /\ profile[a] # None => Current(a)
LiveUntracked ==
    /\ \A p \in Procs : pc[p] \notin {"block", "point", "pointAdd"}
    /\ live \in Tokens /\ active = None
    => profile[live.acct] = None
BlankCurrent == active \in valid /\ live \notin Tokens => Current(active)
Replaces(p) ==
    /\ pc[p] \in Loaded => profile[want[p]] # None
    /\ pc[p] \in {"backup", "save"} => (live \in Tokens => live.acct # want[p])
    /\ Swaps(p) /\ cur[p] \in Tokens =>
          /\ cur[p].acct \in valid => cur[p] = Token(cur[p].acct)
          /\ active = None => profile[cur[p].acct] = None
    /\ Swaps(p) /\ pc[p] # "save" =>
          \A a \in valid : profile[a] # None \/ a = active => Current(a)
Recent == /\ RestCurrent /\ LiveUntracked /\ BlankCurrent /\ LiveIsCurrent
          /\ \A p \in Procs : Replaces(p)
RecentInv == mishaps = {} => Recent

(* A reached state of no mishap among these is covered.                     *)
LEMMA CoveringStays == ASSUME Typed, [Next]_vars, Covering' PROVE Covering
BY MishapsStay DEF Covering

(* Of an account, only the last token is its last.                          *)
LEMMA LastTokens ==
    ASSUME Typed
    PROVE  /\ \A a \in Accounts : /\ Token(a) \in Tokens /\ Token(a).acct = a
                                  /\ Token(a).gen = minted[a]
           /\ \A a, b \in Accounts : Token(a) = Token(b) => a = b
           /\ valid \subseteq Accounts
<1>1. minted \in [Accounts -> 1..MaxGen] /\ valid \subseteq Accounts
  BY DEF Typed, TypeOK
<1>2. ASSUME NEW a \in Accounts
      PROVE  Token(a) \in Tokens /\ Token(a).acct = a /\ Token(a).gen = minted[a]
  BY <1>1, MintToken DEF Token
<1>3. QED
  BY <1>1, <1>2

(* Whoever is inside is alone, and nobody adds meanwhile.                   *)
LEMMA InsideOnly ==
    ASSUME LockInv, Covering, Apiece, NEW p \in Procs, Inside(p)
    PROVE  \A q \in Procs \ {p} : ~Inside(q) /\ ~Adding(q)
BY Alone DEF Covering, Apiece

(* A process that is neither inside nor adding knows nothing of interest.   *)
LEMMA KnowsNothing == ASSUME NEW q, ~Inside(q), ~Adding(q) PROVE Knows(q)
BY DEF Inside, Adding, Knows, Swaps, Loaded

(* The first state has every token in its store, and the live one.          *)
LEMMA KeptInit == Init => KeptInv
<1> SUFFICES ASSUME Init PROVE Kept
  BY DEF KeptInv
<1>1. Typed
  BY TypeInit
<1>2. \A p \in Procs : Knows(p) /\ ~Adding(p)
  BY DEF Init, Knows, Swaps, Adding, Loaded
<1>3. live = Token(active) /\ \A a \in Accounts : store[a] = Token(a)
  BY DEF Init
<1>4. Findable /\ Strays
  BY <1>1, <1>3, LastTokens DEF Findable, Safe, Apart, Strays
<1>5. \A a \in Accounts : Minted(Token(a))
  <2>1. \A a \in Accounts : minted[a] = 1 /\ Token(a).gen = minted[a] /\ Token(a).acct = a
    BY <1>1, LastTokens DEF Init
  <2>2. QED
    BY <2>1 DEF Minted
<1>6. Past
  BY <1>3, <1>5 DEF Past, Init
<1>7. QED
  BY <1>2, <1>4, <1>6 DEF Kept, Apiece

(* Steps that leave the login, the pointer and every token where it is.     *)
LEMMA KeptQuietly ==
    ASSUME Typed, Kept, NEW p \in Procs, Others(p), Knows(p)',
           UNCHANGED <<live, store, active, backups, minted, valid>>,
           pc[p] # "renewed", pc'[p] # "renewed",
           Inside(p)' => ~Adding(p)' /\ (Inside(p) \/ \A q \in Procs : ~Adding(q)),
           Adding(p)' => Adding(p) \/ \A q \in Procs : ~Inside(q)
    PROVE  Kept'
<1>1. \A q \in Procs \ {p} : /\ pc'[q] = pc[q] /\ want'[q] = want[q] /\ act'[q] = act[q]
                             /\ cur'[q] = cur[q] /\ next'[q] = next[q] /\ name'[q] = name[q]
  BY DEF Others
<1>2. \A a : Token(a)' = Token(a)
  BY DEF Token
<1>3. \A q \in Procs : Knows(q)'
  BY <1>1, <1>2 DEF Kept, Knows, Swaps, Adding, Apart
<1>4. \A s \in Sessions : pc[s] = "renewed" <=> pc'[s] = "renewed"
  BY <1>1, Kinds
<1>5. \A s \in Sessions : pc[s] = "renewed" => next'[s] = next[s]
  BY <1>1, Kinds
<1>6. Renewed' = Renewed
  BY <1>4, <1>5 DEF Renewed
<1>7. Findable' /\ Strays'
  BY <1>2, <1>6 DEF Kept, Findable, Safe, Apart, Strays
<1>8. Past'
  BY DEF Kept, Past, Minted
<1>9. Apiece'
  BY <1>1 DEF Kept, Apiece, Adding, Inside
<1>10. QED
  BY <1>3, <1>7, <1>8, <1>9 DEF Kept

(* The steps of a process that is inside, and so works alone.               *)
LEMMA KeptAlone ==
    ASSUME Typed, NEW p \in Procs, Others(p), Knows(p)',
           \A q \in Procs \ {p} : ~Inside(q) /\ ~Adding(q), ~Adding(p)',
           Findable', Past', Strays'
    PROVE  Kept'
<1>1. \A q \in Procs \ {p} : (~Inside(q) /\ ~Adding(q))'
  BY DEF Others, Inside, Adding
<1>2. \A q \in Procs : Knows(q)'
  BY <1>1 DEF Inside, Adding, Knows, Swaps, Loaded
<1>3. QED
  BY <1>1, <1>2 DEF Kept, Apiece

(* The locks.  An add that is going on when both are taken is an overlap.   *)
LEMMA KeptLock ==
    ASSUME Typed, Kept, Covering', NEW p \in Procs, LockStep(p)
    PROVE  Kept'
<1>1. PICK l \in LockNames : Take(p, l) \/ GiveUp(p, l) \/ SeeStale(p, l)
                               \/ BreakLock(p, l) \/ ReleaseLock(p, l)
  BY DEF LockStep
<1>2. l = "primary" \/ l = "legacy"
  BY DEF LockNames
<1>3. UNCHANGED <<live, store, active, backups, minted, valid>>
  BY <1>1 DEF Take, GiveUp, SeeStale, BreakLock, ReleaseLock, kept, server
<1>4. pc \in [Procs -> Labels]
  BY DEF Typed, TypeOK
<1>5. CASE Take(p, l)
  <2>1. pc[p] = l /\ pc'[p] \in {"legacy", "load", "reread"} /\ UNCHANGED registers
        /\ \A q \in Procs \ {p} : pc'[q] = pc[q]
    BY <1>2, <1>4, <1>5 DEF Take, Goto
  <2>2. Others(p)
    BY <2>1 DEF Others, registers
  <2>3. Knows(p)' /\ ~Adding(p)' /\ pc[p] # "renewed" /\ pc'[p] # "renewed"
    BY <1>2, <2>1 DEF Knows, Swaps, Adding, Loaded
  <2>4. Inside(p)' => \A q \in Procs : ~Adding(q)
    <3>1. CASE l = "primary"
      BY <1>4, <1>5, <3>1 DEF Take, Goto, Inside
    <3>2. CASE l = "legacy"
      BY <1>5, <3>2 DEF Take, Mishap, Covering
    <3>3. QED
      BY <1>2, <3>1, <3>2
  <2>5. QED
    BY <1>3, <2>2, <2>3, <2>4, KeptQuietly
<1>6. CASE GiveUp(p, l) \/ SeeStale(p, l) \/ BreakLock(p, l) \/ ReleaseLock(p, l)
  <2>1. Others(p)
    BY <1>4, <1>6 DEF Others, GiveUp, SeeStale, BreakLock, ReleaseLock, Goto, Forget, registers,
       Typed, TypeOK
  <2>2. pc'[p] \in Contending \cup {"idle", "unprimary"}
        /\ pc[p] \in Contending \cup {"unlegacy", "unprimary"}
    BY <1>2, <1>4, <1>6 DEF GiveUp, SeeStale, BreakLock, ReleaseLock, Goto, Breaking, Contending
  <2>3. Knows(p)' /\ ~Inside(p)' /\ ~Adding(p)' /\ pc[p] # "renewed" /\ pc'[p] # "renewed"
    BY <2>2 DEF Knows, Swaps, Inside, Adding, Loaded, Contending
  <2>4. QED
    BY <1>3, <2>1, <2>3, KeptQuietly
<1>7. QED
  BY <1>1, <1>5, <1>6

(* How a process begins.  An add that finds somebody inside is an overlap.  *)
LEMMA KeptBegin ==
    ASSUME Typed, Kept, Covering', NEW p \in Procs,
           (\E a \in Accounts : Begin(p, a)) \/ BeginAdd(p) \/ Expire(p)
    PROVE  Kept'
<1>1. pc \in [Procs -> Labels] /\ cur \in [Procs -> Credentials]
  BY DEF Typed, TypeOK
<1>2. UNCHANGED <<live, store, active, backups, minted, valid>>
  BY DEF Begin, BeginAdd, Expire, kept, server
<1>3. Others(p)
  BY <1>1 DEF Begin, BeginAdd, Expire, Goto, Others, Typed, TypeOK
<1>4. pc[p] = "idle" /\ pc'[p] \in {"primary", "readBlock"}
  BY <1>1 DEF Begin, BeginAdd, Expire, Goto
<1>5. pc'[p] = "readBlock" => cur'[p] = live /\ \A q \in Procs : ~Inside(q)
  <2>1. CASE BeginAdd(p)
    <3>1. \A q \in Procs : ~Inside(q)
      BY <2>1 DEF BeginAdd, Mishap, Covering
    <3>2. cur'[p] = live
      BY <1>1, <2>1 DEF BeginAdd
    <3>3. QED
      BY <3>1, <3>2
  <2>2. CASE (\E a \in Accounts : Begin(p, a)) \/ Expire(p)
    BY <1>1, <2>2 DEF Begin, Expire, Goto
  <2>3. QED
    BY <2>1, <2>2
<1>6. Knows(p)'
  BY <1>2, <1>4, <1>5 DEF Knows, Swaps, Adding, Loaded
<1>7. ~Inside(p)' /\ (Adding(p)' => \A q \in Procs : ~Inside(q))
  BY <1>4, <1>5 DEF Inside, Adding
<1>8. QED
  BY <1>2, <1>3, <1>4, <1>6, <1>7, KeptQuietly

(* A switch: what the live login held is backed up before it is replaced,   *)
(* and the store it saves to is not the only place of a token it needs.     *)
LEMMA KeptSwitch ==
    ASSUME Typed, LockInv, Kept, Covering, NEW p \in Switchers, SwitchStep(p)
    PROVE  Kept'
<1>0. p \in Procs
  BY Kinds
<1>1. pc \in [Procs -> Labels] /\ act \in [Procs -> Accounts \cup {None}]
      /\ cur \in [Procs -> Credentials] /\ next \in [Procs -> Credentials]
      /\ name \in [Procs -> Accounts \cup {None}] /\ store \in [Accounts -> Credentials]
  BY DEF Typed, TypeOK
<1>2. Inside(p) /\ Others(p)
  BY <1>0, <1>1 DEF SwitchStep, Load, Backup, Save, Check, Write, WriteBlock, Point, Goto,
     Inside, Others, registers
<1>3. \A q \in Procs \ {p} : ~Inside(q) /\ ~Adding(q)
  BY <1>0, <1>2, InsideOnly DEF Kept
<1>4. ~Adding(p)' /\ ~Adding(p) /\ pc[p] # "renewed" /\ pc'[p] # "renewed"
  BY <1>0, <1>1 DEF SwitchStep, Load, Backup, Save, Check, Write, WriteBlock, Point, Goto,
     Adding
<1>5. Knows(p) /\ Registers(p)
  BY <1>0 DEF Kept, Typed
<1>6. Renewed = {} /\ Renewed' = {}
  <2>1. \A s \in Sessions : pc[s] # "renewed"
    BY <1>3, <1>4, Kinds DEF Inside
  <2>2. \A s \in Sessions : pc'[s] # "renewed"
    BY <1>2, <1>4, <2>1, Kinds DEF Others
  <2>3. QED
    BY <2>1, <2>2 DEF Renewed
<1>7. UNCHANGED <<minted, valid>> /\ \A a : Token(a)' = Token(a)
  BY DEF SwitchStep, Load, Backup, Save, Check, Write, WriteBlock, Point, server, Token
<1>8. \A a \in valid : Token(a) = live \/ Token(a) \in backups \/ Apart(a)
  BY <1>6 DEF Kept, Findable, Safe
<1>9. ASSUME pc'[p] = "unlegacy" PROVE Knows(p)'
  BY <1>9 DEF Knows, Swaps, Adding, Loaded
<1>10. ASSUME UNCHANGED <<store, backups>>, Minted(live)'
       PROVE  Past' /\ Strays'
  BY <1>7, <1>10 DEF Kept, Past, Strays, Minted
<1>11. CASE Load(p)
  <2>1. UNCHANGED <<live, store, active, backups, minted, valid, want>> /\ pc[p] = "load"
    BY <1>11 DEF Load, kept, server
  <2>2. Knows(p)'
    <3>1. CASE pc'[p] = "backup"
      <4>1. next'[p] = store[want[p]] /\ act'[p] = active
        BY <1>0, <1>1, <1>11 DEF Load
      <4>2. QED
        BY <2>1, <3>1, <4>1 DEF Knows, Swaps, Adding
    <3>2. CASE pc'[p] # "backup"
      BY <1>0, <1>1, <1>9, <1>11, <3>2 DEF Load, Goto
    <3>3. QED
      BY <3>1, <3>2
  <2>3. QED
    BY <1>0, <1>2, <1>4, <2>1, <2>2, KeptQuietly
<1>12. CASE Backup(p)
  <2>1. UNCHANGED <<live, store, active, want, act, next>> /\ cur'[p] = live
    BY <1>0, <1>1, <1>12 DEF Backup
  <2>2. pc[p] = "backup" /\ pc'[p] \in {"save", "unlegacy"} /\ backups \subseteq backups'
        /\ (pc'[p] = "save" => backups' = backups \cup ({live} \cap Tokens))
        /\ (pc'[p] = "unlegacy" => backups' = backups)
    BY <1>0, <1>1, <1>12 DEF Backup, Goto
  <2>3. pc'[p] = "save" => \A a \in valid : Token(a) \in backups' \/ Apart(a)
    BY <1>8, <2>2, LastTokens
  <2>4. \A a : Apart(a)' <=> Apart(a)
    BY <1>7, <2>1 DEF Apart
  <2>5. Knows(p)'
    <3>1. CASE pc'[p] = "save"
      <4>1. next[p] = store[want[p]] /\ act[p] = active
        BY <1>5, <2>2 DEF Knows, Loaded
      <4>2. cur'[p] \in Tokens => cur'[p] \in backups'
        BY <2>1, <2>2, <3>1
      <4>3. QED
        BY <1>7, <2>1, <2>3, <2>4, <3>1, <4>1, <4>2 DEF Knows, Swaps, Adding
    <3>2. CASE pc'[p] = "unlegacy"
      BY <1>9, <3>2
    <3>3. QED
      BY <2>2, <3>1, <3>2
  <2>6. Findable'
    BY <1>7, <1>8, <2>1, <2>2, <2>4 DEF Findable, Safe
  <2>7. Past' /\ Strays'
    BY <1>7, <2>1, <2>2 DEF Kept, Past, Strays, Minted
  <2>8. QED
    BY <1>0, <1>2, <1>3, <1>4, <2>5, <2>6, <2>7, KeptAlone
<1>13. CASE Save(p)
  <2>1. UNCHANGED <<live, active, backups, registers>>
    BY <1>13 DEF Save
  <2>2. pc[p] = "save" /\ pc'[p] = "check"
    BY <1>0, <1>1, <1>13 DEF Save, Goto
  <2>3. /\ next[p] = store[want[p]] /\ act[p] = active /\ live = cur[p]
        /\ cur[p] \in Tokens => cur[p] \in backups
        /\ \A a \in valid : Token(a) \in backups \/ Apart(a)
    BY <1>5, <2>2 DEF Knows, Swaps, Loaded
  <2>4. store' = store \/ (active \in Accounts /\ active # want[p] /\ cur[p] \in Tokens
           /\ \E c \in {cur[p], store[active], Blank} : store' = [store EXCEPT ![active] = c])
    <3>1. store' = store \/ (Displaces(p) /\ cur[p] \in Tokens
             /\ \E c \in {cur[p], store[act[p]], Blank} : store' = [store EXCEPT ![act[p]] = c])
      BY <1>13 DEF Save
    <3>2. Displaces(p) => active \in Accounts /\ active # want[p]
      BY <2>3 DEF Displaces, Typed, TypeOK
    <3>3. QED
      BY <2>3, <3>1, <3>2
  <2>5. \A a \in Accounts : a # active => store'[a] = store[a]
    BY <1>1, <2>4
  <2>6. ASSUME NEW a \in Accounts
        PROVE  store'[a] \in {store[a], Blank} \/ store'[a] \in backups
    BY <1>1, <2>3, <2>4
  <2>7. \A a \in valid : Token(a) \in backups \/ Apart(a)'
    BY <1>7, <2>1, <2>3, <2>5, LastTokens DEF Apart
  <2>8. want[p] \in Accounts /\ store'[want[p]] = store[want[p]]
    BY <1>1, <1>5, <2>2, <2>4 DEF Registers, Loaded
  <2>9. Knows(p)'
    BY <1>7, <2>1, <2>2, <2>3, <2>7, <2>8 DEF Knows, Swaps, Adding, registers
  <2>10. Findable'
    BY <1>7, <2>1, <2>7 DEF Findable, Safe
  <2>11. Past'
    BY <1>7, <2>1, <2>6, AccountAssumption DEF Kept, Past, Minted, AccountAssumption
  <2>12. Strays'
    BY <1>7, <2>1, <2>6, LastTokens, TokenParts DEF Kept, Strays
  <2>13. QED
    BY <1>0, <1>2, <1>3, <1>4, <2>9, <2>10, <2>11, <2>12, KeptAlone
<1>14. CASE Check(p)
  <2>1. UNCHANGED <<live, store, active, backups, minted, valid, registers>>
    BY <1>14 DEF Check, kept, server
  <2>2. pc[p] = "check" /\ pc'[p] \in {"write", "unlegacy"}
    BY <1>0, <1>1, <1>14 DEF Check, Goto
  <2>3. \A a : Apart(a)' <=> Apart(a)
    BY <1>7, <2>1 DEF Apart
  <2>4. Knows(p)'
    BY <1>5, <1>7, <2>1, <2>2, <2>3 DEF Knows, Swaps, Adding, Loaded, registers
  <2>5. QED
    BY <1>0, <1>2, <1>4, <2>1, <2>4, KeptQuietly
<1>15. CASE Write(p)
  <2>1. UNCHANGED <<store, active, backups, registers>>
    BY <1>15 DEF Write, kept
  <2>2. pc[p] = "write" /\ pc'[p] \in {"block", "unlegacy"}
        /\ (pc'[p] = "block" => live' = next[p])
        /\ (pc'[p] = "unlegacy" => live' \in {live, Blank})
    BY <1>0, <1>1, <1>15 DEF Write, Goto
  <2>3. /\ next[p] = store[want[p]] /\ act[p] = active /\ want[p] \in Accounts
        /\ cur[p] \in Tokens => cur[p] \in backups
        /\ \A a \in valid : Token(a) \in backups \/ Apart(a)
    BY <1>5, <2>2 DEF Knows, Swaps, Loaded, Registers
  <2>4. \A a : Apart(a)' <=> Apart(a)
    BY <1>7, <2>1 DEF Apart
  <2>5. Knows(p)'
    BY <1>7, <1>9, <2>1, <2>2, <2>3, <2>4 DEF Knows, Swaps, Adding, Loaded, registers
  <2>6. Findable'
    BY <1>7, <2>1, <2>3, <2>4 DEF Findable, Safe
  <2>7. Minted(live)'
    BY <1>1, <1>7, <2>2, <2>3, AccountAssumption DEF Kept, Past, Minted, AccountAssumption
  <2>8. QED
    BY <1>0, <1>2, <1>3, <1>4, <1>10, <2>1, <2>5, <2>6, <2>7, KeptAlone
<1>16. CASE WriteBlock(p)
  <2>1. UNCHANGED <<store, active, backups, registers>>
    BY <1>16 DEF WriteBlock, kept
  <2>2. pc[p] = "block" /\ pc'[p] \in {"point", "unlegacy"}
        /\ (pc'[p] = "point" => live' = live) /\ live' \in {live, cur[p], Blank}
    BY <1>0, <1>1, <1>16 DEF WriteBlock, Goto
  <2>3. /\ next[p] = store[want[p]] /\ act[p] = active /\ live = next[p]
        /\ cur[p] \in Tokens => cur[p] \in backups
        /\ \A a \in valid : Token(a) \in backups \/ Apart(a)
    BY <1>5, <2>2 DEF Knows, Swaps, Loaded
  <2>4. \A a : Apart(a)' <=> Apart(a)
    BY <1>7, <2>1 DEF Apart
  <2>5. Knows(p)'
    BY <1>7, <1>9, <2>1, <2>2, <2>3, <2>4 DEF Knows, Swaps, Adding, Loaded, registers
  <2>6. Findable'
    BY <1>7, <2>1, <2>3, <2>4 DEF Findable, Safe
  <2>7. Minted(live)'
    BY <1>7, <2>2, <2>3, AccountAssumption DEF Kept, Past, Minted, AccountAssumption
  <2>8. QED
    BY <1>0, <1>2, <1>3, <1>4, <1>10, <2>1, <2>5, <2>6, <2>7, KeptAlone
<1>17. CASE Point(p)
  <2>1. UNCHANGED <<live, store, backups, registers>> /\ active' \in {want[p], active}
    BY <1>17 DEF Point
  <2>2. pc[p] = "point" /\ pc'[p] = "unlegacy"
    BY <1>0, <1>1, <1>17 DEF Point, Goto
  <2>3. /\ live = store[want[p]]
        /\ \A a \in valid : Token(a) \in backups \/ Apart(a)
    BY <1>5, <2>2 DEF Knows, Swaps, Loaded
  <2>4. \A a \in valid : Token(a) \in backups \/ Token(a) = live \/ Apart(a)'
    BY <1>7, <2>1, <2>3 DEF Apart
  <2>5. Findable'
    BY <1>7, <2>1, <2>4 DEF Findable, Safe
  <2>6. Minted(live)'
    BY <1>7, <2>1 DEF Kept, Past, Minted
  <2>7. QED
    BY <1>0, <1>2, <1>3, <1>4, <1>9, <1>10, <2>1, <2>2, <2>5, <2>6, KeptAlone
<1>18. QED
  BY <1>11, <1>12, <1>13, <1>14, <1>15, <1>16, <1>17 DEF SwitchStep

(* An add: it files the live token, which is its account's last one.        *)
LEMMA KeptAdd ==
    ASSUME Typed, Kept, Covering', NEW p \in Adders, AddStep(p)
    PROVE  Kept'
<1>0. p \in Procs
  BY Kinds
<1>1. pc \in [Procs -> Labels] /\ want \in [Procs -> Accounts \cup {None}]
      /\ cur \in [Procs -> Credentials] /\ store \in [Accounts -> Credentials]
  BY DEF Typed, TypeOK
<1>2. Adding(p) /\ pc'[p] \in {"idle", "capture", "pointAdd"}
  BY <1>0, <1>1 DEF AddStep, ReadBlock, Capture, CaptureFails, PointAdd, PointAddFails, Goto,
     Adding
<1>3. Others(p)
  BY <1>0, <1>1 DEF AddStep, ReadBlock, Capture, CaptureFails, PointAdd, PointAddFails, Goto,
     Forget, Others, registers, Typed, TypeOK
<1>4. \A q \in Procs : ~Inside(q) /\ ~Inside(q)'
  BY <1>0, <1>2, <1>3 DEF Kept, Apiece, Inside, Others
<1>5. UNCHANGED <<live, backups, minted, valid>> /\ \A a : Token(a)' = Token(a)
  BY DEF AddStep, ReadBlock, Capture, CaptureFails, PointAdd, PointAddFails, kept, server, Token
<1>6. Renewed = {} /\ Renewed' = {}
  BY <1>4, Kinds DEF Renewed, Inside
<1>7. \A a \in valid : Token(a) = live \/ Token(a) \in backups \/ Apart(a)
  BY <1>6 DEF Kept, Findable, Safe
<1>8. ASSUME Knows(p)', Findable', Past', Strays' PROVE Kept'
  <2>1. ASSUME NEW q \in Procs, q # p PROVE Knows(q)'
    <3>1. Knows(q) /\ ~Inside(q)
      BY <1>4 DEF Kept
    <3>2. pc'[q] = pc[q] /\ want'[q] = want[q] /\ cur'[q] = cur[q]
      BY <1>3, <2>1 DEF Others
    <3>3. QED
      BY <1>5, <3>1, <3>2 DEF Knows, Swaps, Adding, Inside, Loaded
  <2>2. Apiece'
    BY <1>4 DEF Apiece
  <2>3. QED
    BY <1>8, <2>1, <2>2 DEF Kept
<1>9. Knows(p)
  BY <1>0 DEF Kept
<1>10. ASSUME pc'[p] = "idle" PROVE Knows(p)'
  BY <1>10 DEF Knows, Swaps, Adding, Loaded
<1>11. \A a \in valid : Token(a) = live \/ Token(a) \in backups
          \/ (Token(a) = store[a] /\ a # active)
  BY <1>7 DEF Apart
<1>12. CASE ReadBlock(p)
  <2>1. UNCHANGED <<store, active, cur>> /\ want'[p] = block /\ pc[p] = "readBlock"
        /\ pc'[p] = IF block = None THEN "idle" ELSE "capture"
    BY <1>0, <1>1, <1>12 DEF ReadBlock, Goto, kept
  <2>2. block # None => cur[p].acct = block /\ (block \in valid => cur[p] = Token(block))
    BY <1>12 DEF ReadBlock, Mishap, Covering
  <2>3. live = cur[p]
    BY <1>2, <1>9 DEF Knows
  <2>4. Knows(p)'
    <3>1. CASE block = None
      BY <1>10, <2>1, <3>1
    <3>2. CASE block # None
      BY <1>5, <2>1, <2>2, <2>3, <3>2 DEF Knows, Swaps, Adding, Loaded
    <3>3. QED
      BY <3>1, <3>2
  <2>5. QED
    BY <1>0, <1>2, <1>3, <1>4, <1>5, <2>1, <2>4, KeptQuietly
<1>13. CASE Capture(p) \/ CaptureFails(p)
  <2>1. UNCHANGED active /\ pc[p] = "capture"
    BY <1>13 DEF Capture, CaptureFails, Goto
  <2>2. live = cur[p] /\ cur[p].acct = want[p] /\ (want[p] \in valid => cur[p] = Token(want[p]))
    BY <1>2, <1>9, <2>1 DEF Knows
  <2>3. want[p] \in Accounts
    BY <1>0, <2>1 DEF Typed, Registers
  <2>4. \E c \in {store[want[p]], Blank, live} : store' = [store EXCEPT ![want[p]] = c]
    BY <1>13, <2>2 DEF Capture, CaptureFails
  <2>5. \A a \in Accounts \ {want[p]} : store'[a] = store[a]
    BY <1>1, <2>4
  <2>6. store'[want[p]] \in {store[want[p]], Blank, live}
    BY <1>1, <2>3, <2>4
  <2>7. Knows(p)'
    <3>1. CASE Capture(p)
      <4>1. pc'[p] = "pointAdd" /\ UNCHANGED registers
        BY <1>0, <1>1, <3>1 DEF Capture, Goto
      <4>2. QED
        BY <1>5, <2>2, <4>1 DEF Knows, Swaps, Adding, Loaded, registers
    <3>2. CASE CaptureFails(p)
      BY <1>0, <1>1, <1>10, <3>2 DEF CaptureFails, Goto
    <3>3. QED
      BY <1>13, <3>1, <3>2
  <2>8. Findable'
    <3>1. \A a \in valid : a \in Accounts
      BY LastTokens
    <3>2. ASSUME NEW a \in valid
          PROVE  Token(a) = live \/ Token(a) \in backups \/ (Token(a) = store'[a] /\ a # active)
      BY <1>11, <2>2, <2>5, <3>1
    <3>3. QED
      BY <1>5, <2>1, <3>2 DEF Findable, Safe, Apart
  <2>9. \A a \in Accounts : store'[a] \in {store[a], Blank, live}
    BY <2>5, <2>6
  <2>10. Past'
    BY <1>5, <2>9, AccountAssumption DEF Kept, Past, Minted, AccountAssumption
  <2>11. Strays'
    <3>1. ASSUME NEW a \in Accounts, NEW b \in Accounts, a # b, a \in valid,
                 store'[b] = Token(a)
          PROVE  Token(a) \in backups
      <4>1. Token(a) \in Tokens /\ Token(a).acct = a /\ Token(a) # Blank
        BY LastTokens, TokenParts
      <4>2. store'[b] = store[b]
        BY <2>2, <2>5, <2>6, <3>1, <4>1
      <4>3. QED
        BY <3>1, <4>2 DEF Kept, Strays
    <3>2. QED
      BY <1>5, <3>1 DEF Strays
  <2>12. QED
    BY <1>8, <2>7, <2>8, <2>10, <2>11
<1>14. CASE PointAdd(p)
  <2>1. UNCHANGED store /\ active' = want[p] /\ pc[p] = "pointAdd" /\ pc'[p] = "idle"
    BY <1>0, <1>1, <1>14 DEF PointAdd, Goto
  <2>2. live = cur[p] /\ (want[p] \in valid => cur[p] = Token(want[p]))
    BY <1>2, <1>9, <2>1 DEF Knows
  <2>3. Findable'
    <3>1. \A a \in valid : Token(a) = live \/ Token(a) \in backups
              \/ (Token(a) = store[a] /\ a # want[p])
      BY <1>11, <2>2
    <3>2. QED
      BY <1>5, <2>1, <3>1 DEF Findable, Safe, Apart
  <2>4. Past' /\ Strays'
    BY <1>5, <2>1 DEF Kept, Past, Strays, Minted
  <2>5. QED
    BY <1>8, <1>10, <2>1, <2>3, <2>4
<1>15. CASE PointAddFails(p)
  <2>1. UNCHANGED <<store, active>> /\ pc'[p] = "idle"
    BY <1>0, <1>1, <1>15 DEF PointAddFails, Goto, kept
  <2>2. QED
    BY <1>0, <1>2, <1>3, <1>4, <1>5, <1>10, <2>1, KeptQuietly DEF Adding
<1>16. QED
  BY <1>12, <1>13, <1>14, <1>15 DEF AddStep

(* The server mints an account's next token, which is nowhere yet.          *)
LEMMA Mints ==
    ASSUME Typed, Past, NEW a \in Accounts, minted[a] < MaxGen,
           minted' = [minted EXCEPT ![a] = @ + 1]
    PROVE  /\ Token(a)' = [acct |-> a, gen |-> minted[a] + 1]
           /\ Token(a)' \in Tokens /\ Token(a)'.acct = a /\ Token(a)'.gen = minted[a] + 1
           /\ Token(a)' # Token(a) /\ minted[a] \in Nat
           /\ \A b \in Accounts \ {a} : Token(b)' = Token(b)
           /\ \A b \in Accounts : store[b] # Token(a)'
           /\ \A t \in Tokens : t.gen <= minted[t.acct] => t.gen <= minted'[t.acct]
           /\ Token(a)'.gen <= minted'[a]
<1>1. minted \in [Accounts -> 1..MaxGen]
  BY DEF Typed, TypeOK
<1>2. minted[a] \in 1..MaxGen /\ minted[a] + 1 \in 1..MaxGen
  BY <1>1, AccountAssumption DEF AccountAssumption
<1>3. minted'[a] = minted[a] + 1 /\ \A b \in Accounts \ {a} : minted'[b] = minted[b]
  BY <1>1
<1>4. \A b \in Accounts : minted[b] <= minted'[b] /\ minted[b] \in Nat /\ minted'[b] \in Nat
  BY <1>1, <1>2, <1>3
<1>5. \A b \in Accounts \ {a} : Token(b)' = Token(b)
  BY <1>3 DEF Token
<1>6. Token(a)' = [acct |-> a, gen |-> minted[a] + 1] /\ Token(a)' \in Tokens
      /\ Token(a)'.gen = minted[a] + 1 /\ Token(a)'.acct = a
  BY <1>2, <1>3, MintToken DEF Token
<1>7. Token(a)' # Token(a)
  BY <1>2, <1>6, LastTokens
<1>8. ASSUME NEW b \in Accounts PROVE store[b] # Token(a)'
  <2>1. store[b] \in Tokens /\ store[b].acct = a => store[b].gen <= minted[a]
    BY DEF Past, Minted
  <2>2. QED
    BY <1>2, <1>6, <2>1
<1>9. ASSUME NEW t \in Tokens, t.gen <= minted[t.acct] PROVE t.gen <= minted'[t.acct]
  <2>1. t.acct \in Accounts /\ t.gen \in Nat
    BY TokenParts
  <2>2. QED
    BY <1>4, <1>9, <2>1
<1>10. Token(a)'.gen <= minted'[a]
  BY <1>2, <1>3, <1>6
<1>11. minted[a] \in Nat
  BY <1>2
<1>12. QED
  BY <1>5, <1>6, <1>7, <1>8, <1>9, <1>10, <1>11

(* A session: a renewed token is in its hands until it is live, and a       *)
(* refused one was no account's last.                                       *)
LEMMA KeptSession ==
    ASSUME Typed, LockInv, Kept, Covering, NEW s \in Sessions, SessionStep(s)
    PROVE  Kept'
<1>0. s \in Procs
  BY Kinds
<1>1. pc \in [Procs -> Labels] /\ cur \in [Procs -> Credentials]
      /\ next \in [Procs -> Credentials] /\ minted \in [Accounts -> 1..MaxGen]
  BY DEF Typed, TypeOK
<1>2. Inside(s) /\ Others(s) /\ ~Adding(s)'
  BY <1>0, <1>1 DEF SessionStep, Renew, SaveRenewed, Goto, Inside, Adding, Others, registers
<1>3. \A q \in Procs \ {s} : ~Inside(q) /\ ~Adding(q) /\ ~Inside(q)'
  BY <1>0, <1>2, InsideOnly DEF Kept, Inside, Others
<1>4. UNCHANGED <<store, active, backups, valid>>
  BY DEF SessionStep, Renew, SaveRenewed, kept, server
<1>5. pc[s] = "reread" => Renewed = {}
  BY <1>3, Kinds DEF Renewed, Inside
<1>6. pc'[s] = "unlegacy" => Renewed' = {} /\ Knows(s)'
  BY <1>3, Kinds DEF Renewed, Inside, Knows, Swaps, Adding, Loaded
<1>7. Registers(s) /\ Knows(s)
  BY <1>0 DEF Typed, Kept
<1>8. ASSUME UNCHANGED minted PROVE \A a : Token(a)' = Token(a)
  BY <1>8 DEF Token
<1>9. CASE Renew(s) /\ pc'[s] = "unlegacy" /\ live' = live
  <2>1. pc[s] = "reread" /\ UNCHANGED minted
    BY <1>0, <1>1, <1>9 DEF Renew, Goto
  <2>2. QED
    BY <1>0, <1>2, <1>4, <1>6, <1>9, <2>1, KeptQuietly DEF Adding
<1>10. CASE Renew(s) /\ pc'[s] = "unlegacy" /\ live' = Blank /\ ~Accepted(live)
  <2>1. pc[s] = "reread" /\ UNCHANGED minted
    BY <1>0, <1>1, <1>10 DEF Renew, Goto
  <2>2. \A a \in valid : Token(a) # live
    BY <1>10, LastTokens DEF Accepted
  <2>3. \A a \in valid : Token(a) \in backups \/ Apart(a)
    BY <1>5, <2>1, <2>2 DEF Kept, Findable, Safe
  <2>4. Findable'
    BY <1>4, <1>8, <2>1, <2>3 DEF Findable, Safe, Apart
  <2>5. Past'
    BY <1>4, <1>10, <2>1, AccountAssumption DEF Kept, Past, Minted, AccountAssumption
  <2>6. Strays'
    BY <1>4, <1>8, <2>1 DEF Kept, Strays
  <2>7. QED
    BY <1>0, <1>2, <1>3, <1>6, <1>10, <2>4, <2>5, <2>6, KeptAlone
<1>11. CASE Renew(s) /\ pc'[s] = "renewed"
  <2>1. pc[s] = "reread"
    BY <1>0, <1>1, <1>11 DEF Renew, Goto
  <2>2. PICK a \in Accounts : a = cur[s].acct
    BY <1>0, <1>7, <2>1, TokenParts DEF Registers, Contending
  <2>3. /\ live = cur[s] /\ Accepted(cur[s]) /\ minted[a] < MaxGen
        /\ minted' = [minted EXCEPT ![a] = @ + 1]
        /\ next' = [next EXCEPT ![s] = [cur[s] EXCEPT !.gen = minted[a] + 1]]
        /\ UNCHANGED <<live, cur>>
    BY <1>0, <1>1, <1>11, <2>2 DEF Renew, Goto
  <2>4. a \in valid /\ cur[s] = Token(a)
    BY <2>2, <2>3 DEF Accepted
  <2>5. Token(a)' = [acct |-> a, gen |-> minted[a] + 1] /\ Token(a)' # Token(a)
        /\ \A b \in Accounts \ {a} : Token(b)' = Token(b)
    BY <2>3, Mints DEF Kept
  <2>6. next'[s] = Token(a)'
    <3>1. cur[s] = [acct |-> a, gen |-> minted[a]]
      BY <2>4 DEF Token
    <3>2. [cur[s] EXCEPT !.gen = minted[a] + 1] = [acct |-> a, gen |-> minted[a] + 1]
      BY <3>1
    <3>3. QED
      BY <1>0, <1>1, <2>3, <2>5, <3>2
  <2>7. Token(a)' \in Renewed'
    BY <1>11, <2>6 DEF Renewed
  <2>8. Knows(s)'
    <3>1. cur'[s] = cur[s] /\ live' = cur[s] /\ cur'[s].acct = a
      BY <2>2, <2>3
    <3>2. Token(cur[s].acct)' = Token(a)'
      BY <3>1 DEF Token
    <3>3. QED
      BY <1>11, <2>4, <2>5, <2>6, <3>1, <3>2 DEF Knows, Swaps, Adding, Loaded
  <2>9. Findable'
    <3>1. ASSUME NEW b \in valid, b # a PROVE Safe(b)' \/ Apart(b)'
      <4>1. b \in Accounts
        BY LastTokens
      <4>2. Token(b) = live \/ Token(b) \in backups \/ Apart(b)
        BY <1>5, <2>1 DEF Kept, Findable, Safe
      <4>3. QED
        BY <1>4, <2>3, <2>5, <3>1, <4>1, <4>2 DEF Safe, Apart
    <3>2. Safe(a)'
      BY <2>7 DEF Safe
    <3>3. QED
      BY <1>4, <3>1, <3>2 DEF Findable
  <2>10. Past'
    <3>1. \A t \in Tokens : t.gen <= minted[t.acct] => t.gen <= minted'[t.acct]
      BY <2>3, Mints DEF Kept
    <3>2. QED
      BY <1>4, <2>3, <3>1 DEF Kept, Past, Minted
  <2>11. Strays'
    <3>1. \A b \in Accounts : store[b] # Token(a)'
      BY <2>3, Mints DEF Kept
    <3>2. ASSUME NEW b \in Accounts, NEW c \in Accounts, b # c, b \in valid,
                 store[c] = Token(b)'
          PROVE  Token(b)' \in backups
      <4>1. b # a
        BY <3>1, <3>2
      <4>2. Token(b)' = Token(b)
        BY <2>5, <4>1
      <4>3. QED
        BY <3>2, <4>2 DEF Kept, Strays
    <3>3. QED
      BY <1>4, <3>2 DEF Strays
  <2>12. QED
    BY <1>0, <1>2, <1>3, <2>8, <2>9, <2>10, <2>11, KeptAlone
<1>12. CASE SaveRenewed(s)
  <2>1. pc[s] = "renewed" /\ pc'[s] = "unlegacy" /\ live' = next[s] /\ UNCHANGED minted
    BY <1>0, <1>1, <1>12 DEF SaveRenewed, Goto, server
  <2>2. live = cur[s] /\ next[s] = Token(cur[s].acct) /\ cur[s] # next[s]
    BY <1>7, <2>1 DEF Knows
  <2>3. \A a \in valid : Token(a) # live
    BY <2>2, LastTokens
  <2>4. Renewed = {next[s]}
    BY <1>0, <1>3, <2>1, Kinds DEF Renewed, Inside
  <2>5. \A a \in valid : Token(a) = next[s] \/ Token(a) \in backups \/ Apart(a)
    BY <2>3, <2>4 DEF Kept, Findable, Safe
  <2>6. Findable'
    BY <1>4, <1>8, <2>1, <2>5 DEF Findable, Safe, Apart
  <2>7. Minted(live)'
    <3>1. cur[s].acct \in Accounts
      BY <1>7, <2>1, TokenParts DEF Registers
    <3>2. next[s].gen = minted[cur[s].acct] /\ next[s].acct = cur[s].acct
      BY <2>2, <3>1, LastTokens
    <3>3. minted[cur[s].acct] \in 1..MaxGen
      BY <1>1, <3>1
    <3>4. QED
      BY <2>1, <3>2, <3>3 DEF Minted
  <2>8. Past' /\ Strays'
    BY <1>4, <1>8, <2>1, <2>7 DEF Kept, Past, Strays, Minted
  <2>9. QED
    BY <1>0, <1>2, <1>3, <1>6, <2>1, <2>6, <2>8, KeptAlone
<1>13. QED
  <2>1. ASSUME Renew(s)
        PROVE  \/ pc'[s] = "unlegacy" /\ live' = live
               \/ pc'[s] = "unlegacy" /\ live' = Blank /\ ~Accepted(live)
               \/ pc'[s] = "renewed"
    BY <1>0, <1>1, <2>1 DEF Renew, Goto
  <2>2. QED
    BY <1>9, <1>10, <1>11, <1>12, <2>1 DEF SessionStep

(* A kill: what it cuts short is backed up, or another copy stays.          *)
LEMMA KeptCrash ==
    ASSUME Typed, LockInv, Kept, Covering, NEW p \in Procs, Crash(p)
    PROVE  Kept'
<1>1. store \in [Accounts -> Credentials] /\ pc \in [Procs -> Labels]
  BY DEF Typed, TypeOK
<1>2. Others(p) /\ UNCHANGED <<active, backups, minted, registers>> /\ pc'[p] = "dead"
  BY <1>1 DEF Crash, Others, registers
<1>3. \A a : Token(a)' = Token(a)
  BY <1>2 DEF Token
<1>4. Knows(p)' /\ ~Inside(p)' /\ ~Adding(p)'
  BY <1>2 DEF Knows, Swaps, Inside, Adding, Loaded
<1>5. live' \in {live, Blank} /\ (pc[p] # "write" => live' = live)
      /\ valid' \subseteq valid /\ (pc[p] # "renewed" => valid' = valid)
  BY DEF Crash
<1>6. PICK cut : /\ \A a \in Accounts :
                      store'[a] = IF a \in cut /\ store[a] # None THEN Blank ELSE store[a]
                 /\ \/ cut = {}
                    \/ pc[p] = "save" /\ cut = {act[p]}
                    \/ pc[p] = "capture" /\ cut = {want[p]}
  BY DEF Crash
<1>7. \A a \in Accounts : store'[a] \in {store[a], Blank}
  BY <1>6
<1>8. Past'
  BY <1>2, <1>5, <1>7, AccountAssumption DEF Kept, Past, Minted, AccountAssumption
<1>9. Strays'
  <2>1. ASSUME NEW a \in Accounts, NEW b \in Accounts, a # b, a \in valid, store'[b] = Token(a)
        PROVE  Token(a) \in backups
    BY <1>7, <2>1, LastTokens, TokenParts DEF Kept, Strays
  <2>2. QED
    BY <1>2, <1>3, <1>5, <2>1 DEF Strays
<1>10. Knows(p) /\ Registers(p)
  BY DEF Kept, Typed
<1>11. \A a \in valid : a \in Accounts
  BY LastTokens
<1>12. ASSUME \A a \in valid' : \/ Token(a) \in {live'} \cup backups
                                \/ Token(a) = store'[a] /\ a # active
       PROVE  Findable'
  BY <1>2, <1>3, <1>12 DEF Findable, Safe, Apart
<1>13. CASE Inside(p)
  <2>1. \A q \in Procs \ {p} : ~Inside(q) /\ ~Adding(q)
    BY <1>13, InsideOnly DEF Kept
  <2>2. Renewed \subseteq {next[p]} /\ (pc[p] # "renewed" => Renewed = {})
    BY <2>1, Kinds DEF Renewed, Inside
  <2>3. CASE Swaps(p)
    <3>1. act[p] = active /\ \A a \in valid : Token(a) \in backups \/ Apart(a)
      BY <1>10, <2>3 DEF Knows, Swaps, Loaded
    <3>2. \A a \in Accounts : a # active => store'[a] = store[a]
      BY <1>6, <2>3, <3>1 DEF Swaps
    <3>3. Findable'
      BY <1>5, <1>11, <1>12, <3>1, <3>2 DEF Apart
    <3>4. QED
      BY <1>2, <1>4, <1>8, <1>9, <2>1, <3>3, KeptAlone
  <2>4. CASE ~Swaps(p)
    <3>1. pc[p] \notin {"save", "capture", "write"}
      BY <1>13, <2>4 DEF Swaps, Inside
    <3>2. live' = live /\ \A a \in Accounts : store'[a] = store[a]
      BY <1>5, <1>6, <3>1
    <3>3. ASSUME NEW a \in valid' PROVE Token(a) \notin Renewed
      <4>1. CASE pc[p] = "renewed"
        <5>1. valid' = valid \ {next[p].acct}
          BY <4>1 DEF Crash
        <5>2. QED
          BY <2>2, <3>3, <5>1, LastTokens
      <4>2. CASE pc[p] # "renewed"
        BY <2>2, <4>2
      <4>3. QED
        BY <4>1, <4>2
    <3>4. Findable'
      BY <1>5, <1>11, <1>12, <3>2, <3>3 DEF Kept, Findable, Safe, Apart
    <3>5. QED
      BY <1>2, <1>4, <1>8, <1>9, <2>1, <3>4, KeptAlone
  <2>5. QED
    BY <2>3, <2>4
<1>14. CASE pc[p] = "capture"
  <2>1. live' = live /\ valid' = valid
    BY <1>5, <1>14
  <2>2. Adding(p) /\ \A q \in Procs : ~Inside(q)
    BY <1>14 DEF Adding, Kept, Apiece
  <2>3. Renewed = {}
    BY <2>2, Kinds DEF Renewed, Inside
  <2>4. want[p] \in valid => Token(want[p]) = live
    BY <1>10, <1>14 DEF Knows, Adding
  <2>5. \A a \in Accounts : a # want[p] => store'[a] = store[a]
    BY <1>6, <1>14
  <2>6. Findable'
    BY <1>11, <1>12, <2>1, <2>3, <2>4, <2>5 DEF Kept, Findable, Safe, Apart
  <2>7. ASSUME NEW q \in Procs, q # p PROVE Knows(q)' /\ ~Inside(q)'
    <3>1. pc'[q] = pc[q] /\ want'[q] = want[q] /\ cur'[q] = cur[q]
      BY <1>2, <2>7 DEF Others
    <3>2. Knows(q) /\ ~Inside(q)
      BY <2>2 DEF Kept
    <3>3. QED
      BY <1>3, <2>1, <3>1, <3>2 DEF Knows, Swaps, Adding, Inside, Loaded
  <2>8. Apiece'
    BY <1>4, <2>7 DEF Apiece
  <2>9. QED
    BY <1>4, <1>8, <1>9, <2>6, <2>7, <2>8 DEF Kept
<1>15. CASE ~Inside(p) /\ pc[p] # "capture"
  <2>1. pc[p] \notin {"save", "write", "renewed", "capture"}
    BY <1>15 DEF Inside
  <2>2. store' = store
    BY <1>1, <2>1 DEF Crash
  <2>3. UNCHANGED <<live, store, active, backups, minted, valid>>
    BY <1>2, <1>5, <2>1, <2>2
  <2>4. QED
    BY <1>2, <1>4, <2>1, <2>3, KeptQuietly
<1>16. QED
  BY <1>13, <1>14, <1>15

(* The user, while nobody works on the login.  An account is given up with  *)
(* its last token.                                                          *)
LEMMA KeptUser ==
    ASSUME Typed, Kept, Covering',
           LogOut \/ \E a \in Accounts : Remove(a) \/ LogIn(a)
    PROVE  Kept'
<1>1. \A q \in Procs : ~Inside(q) /\ ~Adding(q)
  BY DEF LogOut, Remove, LogIn, Quiet, Mishap, Covering
<1>2. UNCHANGED <<pc, registers, backups>>
  BY DEF LogOut, Remove, LogIn, kept
<1>3. \A q \in Procs : ~Inside(q)' /\ ~Adding(q)'
  BY <1>1, <1>2 DEF Inside, Adding
<1>4. Apiece' /\ \A q \in Procs : Knows(q)'
  BY <1>3 DEF Inside, Adding, Apiece, Knows, Swaps, Loaded
<1>5. {r \in Sessions : pc[r] = "renewed"} = {} /\ Renewed = {}
  BY <1>1, Kinds DEF Renewed, Inside
<1>6. \A b \in valid : Token(b) = live \/ Token(b) \in backups
                         \/ (Token(b) = store[b] /\ b # active)
  BY <1>5 DEF Kept, Findable, Safe, Apart
<1>7. store \in [Accounts -> Credentials] /\ \A b \in valid : b \in Accounts
  BY LastTokens DEF Typed, TypeOK
<1>8. CASE LogOut
  <2>1. live' \notin Tokens /\ live \in Tokens /\ UNCHANGED <<store, active, minted>>
        /\ valid' = valid \ {live.acct}
    BY <1>8, AccountAssumption DEF LogOut, AccountAssumption, kept
  <2>2. \A b : Token(b)' = Token(b)
    BY <2>1 DEF Token
  <2>3. \A b \in valid' : Token(b) # live
    BY <2>1, LastTokens
  <2>4. Findable'
    BY <1>2, <1>6, <2>1, <2>2, <2>3 DEF Findable, Safe, Apart
  <2>5. Past' /\ Strays'
    BY <1>2, <2>1, <2>2 DEF Kept, Past, Minted, Strays
  <2>6. QED
    BY <1>4, <2>4, <2>5 DEF Kept
<1>9. ASSUME NEW a \in Accounts, Remove(a) PROVE Kept'
  <2>1. /\ store' = [store EXCEPT ![a] = None] /\ active' \in {active, None}
        /\ valid' = {b \in valid : Token(b) \in {live} \cup CopiesWith(store')}
        /\ UNCHANGED <<live, minted>>
    BY <1>9 DEF Remove
  <2>2. store'[a] = None /\ \A b \in Accounts \ {a} : store'[b] = store[b]
    BY <1>7, <2>1
  <2>3. \A b : Token(b)' = Token(b)
    BY <2>1 DEF Token
  <2>4. ASSUME NEW b \in valid'
        PROVE  Token(b) = live \/ Token(b) \in backups \/ (Token(b) = store'[b] /\ b # active')
    <3>1. b \in valid /\ b \in Accounts /\ b # None
      BY <1>7, <2>1, Kinds
    <3>2. Token(b) \in Tokens /\ Token(b) # None
      BY <3>1, LastTokens, TokenParts
    <3>3. Token(b) = live \/ Token(b) \in backups \/ \E c \in Accounts : Token(b) = store'[c]
      BY <1>5, <2>1 DEF CopiesWith
    <3>4. ASSUME NEW c \in Accounts, Token(b) = store'[c], c # b
          PROVE  Token(b) \in backups
      BY <2>2, <3>1, <3>2, <3>4 DEF Kept, Strays
    <3>5. ASSUME Token(b) = store'[b]
          PROVE  Token(b) = live \/ Token(b) \in backups \/ (Token(b) = store'[b] /\ b # active')
      BY <1>6, <2>1, <3>1, <3>5
    <3>6. QED
      BY <3>3, <3>4, <3>5
  <2>5. Findable'
    BY <1>2, <2>1, <2>3, <2>4 DEF Findable, Safe, Apart
  <2>6. Past'
    BY <1>2, <2>1, <2>2, AccountAssumption DEF Kept, Past, Minted, AccountAssumption
  <2>7. Strays'
    <3>1. ASSUME NEW b \in Accounts, NEW c \in Accounts, b # c, b \in valid, store'[c] = Token(b)
          PROVE  Token(b) \in backups
      BY <2>2, <3>1, LastTokens, TokenParts DEF Kept, Strays
    <3>2. QED
      BY <1>2, <2>1, <2>3, <3>1 DEF Strays
  <2>8. QED
    BY <1>4, <2>5, <2>6, <2>7 DEF Kept
<1>10. ASSUME NEW a \in Accounts, LogIn(a) PROVE Kept'
  <2>1. /\ a = active /\ minted[a] < MaxGen /\ minted' = [minted EXCEPT ![a] = @ + 1]
        /\ live' = [acct |-> a, gen |-> minted[a] + 1]
        /\ valid' = {a} \cup {b \in valid : Token(b) \in Copies}
        /\ UNCHANGED <<store, active>>
    BY <1>10 DEF LogIn, Mishap, Covering, kept
  <2>2. Token(a)' = live' /\ Token(a)'.gen <= minted'[a] /\ Token(a)'.acct = a
        /\ \A b \in Accounts \ {a} : Token(b)' = Token(b)
    BY <2>1, Mints DEF Kept
  <2>3. ASSUME NEW b \in valid, b # a, Token(b) \in Copies
        PROVE  Token(b) \in backups \/ (Token(b) = store[b] /\ b # active)
    <3>1. Token(b) \in backups \/ \E c \in Accounts : Token(b) = store[c]
      BY <1>5, <2>3 DEF Copies, CopiesWith
    <3>2. QED
      BY <1>7, <2>1, <2>3, <3>1 DEF Kept, Strays
  <2>4. Findable'
    <3>1. ASSUME NEW b \in valid', b # a PROVE Safe(b)' \/ Apart(b)'
      <4>1. b \in valid /\ b \in Accounts /\ Token(b) \in Copies
        BY <1>7, <2>1, <3>1
      <4>2. QED
        BY <1>2, <2>1, <2>2, <2>3, <3>1, <4>1 DEF Safe, Apart
    <3>2. Safe(a)'
      BY <2>2 DEF Safe
    <3>3. QED
      BY <3>1, <3>2 DEF Findable
  <2>5. Past'
    <3>1. \A t \in Tokens : t.gen <= minted[t.acct] => t.gen <= minted'[t.acct]
      BY <2>1, Mints DEF Kept
    <3>2. live'.gen <= minted'[live'.acct]
      BY <2>2
    <3>3. QED
      BY <1>2, <2>1, <3>1, <3>2 DEF Kept, Past, Minted
  <2>6. Strays'
    <3>1. \A b \in Accounts : store[b] # Token(a)'
      BY <2>1, Mints DEF Kept
    <3>2. ASSUME NEW b \in Accounts, NEW c \in Accounts, b # c, b \in valid',
                 store[c] = Token(b)'
          PROVE  Token(b)' \in backups
      <4>1. b # a
        BY <3>1, <3>2
      <4>2. Token(b)' = Token(b) /\ b \in valid
        BY <2>1, <2>2, <3>2, <4>1
      <4>3. QED
        BY <3>2, <4>2 DEF Kept, Strays
    <3>3. QED
      BY <1>2, <2>1, <3>2 DEF Strays
  <2>7. QED
    BY <1>4, <2>4, <2>5, <2>6 DEF Kept
<1>11. QED
  BY <1>8, <1>9, <1>10

(* Every step keeps the tokens, or is a mishap.                             *)
LEMMA KeptStep == Typed /\ LockInv /\ KeptInv /\ [Next]_vars => KeptInv'
<1> SUFFICES ASSUME Typed, LockInv, KeptInv, [Next]_vars, Covering' PROVE Kept'
  BY DEF KeptInv
<1>1. Covering
  BY CoveringStays
<1>2. Kept
  BY <1>1 DEF KeptInv
<1>3. CASE UNCHANGED vars
  <2>1. UNCHANGED <<pc, live, store, active, backups, minted, valid, registers>>
    BY <1>3 DEF vars, kept, server
  <2>2. (\A a : Token(a)' = Token(a)) /\ Renewed' = Renewed
    BY <2>1 DEF Token, Renewed, registers
  <2>3. \A p \in Procs : Knows(p)'
    BY <1>2, <2>1, <2>2 DEF Kept, Knows, Swaps, Adding, Apart, registers
  <2>4. Findable' /\ Past' /\ Strays' /\ Apiece'
    BY <1>2, <2>1, <2>2 DEF Kept, Findable, Safe, Apart, Past, Minted, Strays, Apiece, Inside,
       Adding
  <2>5. QED
    BY <2>3, <2>4 DEF Kept
<1>4. ASSUME NEW p \in Procs, LockStep(p) \/ Crash(p) PROVE Kept'
  BY <1>1, <1>2, <1>4, KeptLock, KeptCrash
<1>5. ASSUME NEW p \in Switchers, SwitchStep(p) PROVE Kept'
  BY <1>1, <1>2, <1>5, KeptSwitch
<1>6. ASSUME NEW p \in Adders, BeginAdd(p) \/ AddStep(p) PROVE Kept'
  BY <1>2, <1>6, KeptBegin, KeptAdd, Kinds
<1>7. ASSUME NEW p \in Switchers, NEW a \in Accounts, Begin(p, a) PROVE Kept'
  BY <1>2, <1>7, KeptBegin, Kinds
<1>8. ASSUME NEW p \in Sessions, Expire(p) \/ SessionStep(p) PROVE Kept'
  BY <1>1, <1>2, <1>8, KeptBegin, KeptSession, Kinds
<1>9. CASE LogOut \/ \E a \in Accounts : Remove(a) \/ LogIn(a)
  BY <1>2, <1>9, KeptUser
<1>10. QED
  BY <1>3, <1>4, <1>5, <1>6, <1>7, <1>8, <1>9 DEF Next

(* The invariants hold in every reachable state.                            *)
LEMMA KeptAlways == Spec => [](Typed /\ LockInv /\ NamedInv /\ KeptInv)
BY TypeInit, TypeStep, LockInvInit, LockInvStep, NamedInit, NamedStep, KeptInit, KeptStep,
   PTL DEF Spec

(* The last token of an account the server still accepts is never lost.     *)
THEOREM TokensSurvive == Spec => []NoTokenLost
<1>1. Typed /\ KeptInv => NoTokenLost
  <2> SUFFICES ASSUME Typed, KeptInv, Covering, NEW a \in valid
               PROVE  Token(a) \in {live} \cup Copies
    BY DEF NoTokenLost, Covering
  <2>1. a \in Accounts /\ (Safe(a) \/ Apart(a))
    BY LastTokens DEF KeptInv, Kept, Findable
  <2>2. Renewed \subseteq Copies /\ backups \subseteq Copies /\ store[a] \in Copies
    BY <2>1 DEF Renewed, Copies, CopiesWith
  <2>3. QED
    BY <2>1, <2>2 DEF Safe, Apart
<1>2. QED
  BY KeptAlways, <1>1, PTL

(* What is known while there was no mishap.                                 *)
Well == Typed /\ LockInv /\ Named /\ Kept /\ Recent /\ mishaps = {}

(* Nobody inside, nothing to replace.                                       *)
LEMMA ReplacesNothing == ASSUME NEW q, ~Inside(q) PROVE Replaces(q)
BY DEF Inside, Replaces, Swaps, Loaded

(* Whoever is inside is alone there, and sees the pointer name the live     *)
(* login until its own two writes.                                          *)
LEMMA InsideWell ==
    ASSUME Well, NEW p \in Procs, Inside(p)
    PROVE  /\ \A q \in Procs \ {p} : ~Inside(q) /\ ~Adding(q)
           /\ pc[p] \notin {"block", "point"} => TokenNamesActive
           /\ pc[p] \notin {"block", "point"} /\ live \in Tokens /\ active = None
                => profile[live.acct] = None
           /\ pc[p] # "renewed" /\ live \in Tokens /\ live.acct \in valid
                => live = Token(live.acct)
<1>1. \A q \in Procs \ {p} : ~Inside(q) /\ ~Adding(q)
  BY InsideOnly DEF Well, Covering, Kept
<1>2. \A q \in Procs \ {p} : pc[q] \notin {"block", "point", "pointAdd", "renewed"}
  BY <1>1 DEF Inside, Adding
<1>3. pc[p] \notin {"block", "point"} => TokenNamesActive
  BY <1>2 DEF Well, Named
<1>4. pc[p] # "pointAdd"
  BY DEF Inside
<1>5. pc[p] \notin {"block", "point"} /\ live \in Tokens /\ active = None
        => profile[live.acct] = None
  BY <1>2, <1>4 DEF Well, Recent, LiveUntracked
<1>6. pc[p] # "renewed" /\ live \in Tokens /\ live.acct \in valid => live = Token(live.acct)
  BY <1>2, Kinds DEF Well, Recent, LiveIsCurrent
<1>7. QED
  BY <1>1, <1>3, <1>5, <1>6

(* The first state: every store has its account's only token.               *)
LEMMA RecentInit == Init => RecentInv
<1> SUFFICES ASSUME Init PROVE Recent
  BY DEF RecentInv
<1>1. Typed
  BY TypeInit
<1>2. live = Token(active) /\ active \in Accounts /\ \A a \in Accounts : store[a] = Token(a)
  BY DEF Init
<1>3. live.acct = active /\ active # None
  BY <1>1, <1>2, LastTokens, Kinds
<1>4. \A p \in Procs : Replaces(p)
  BY DEF Init, Replaces, Swaps, Loaded
<1>5. RestCurrent /\ BlankCurrent /\ LiveUntracked /\ LiveIsCurrent
  BY <1>1, <1>2, <1>3, LastTokens DEF RestCurrent, BlankCurrent, LiveUntracked, LiveIsCurrent,
     Current
<1>6. QED
  BY <1>4, <1>5 DEF Recent

(* Steps that leave the login, the pointer, the stores and the server.      *)
LEMMA RecentQuietly ==
    ASSUME Typed, Recent, NEW p \in Procs, Others(p), Replaces(p)',
           UNCHANGED <<live, store, profile, active, minted, valid>>,
           pc[p] \notin {"block", "point", "pointAdd", "renewed"}
           \/ (pc'[p] \in {"block", "point", "pointAdd"} /\ pc[p] # "renewed")
    PROVE  Recent'
<1>1. \A q \in Procs \ {p} : /\ pc'[q] = pc[q] /\ want'[q] = want[q] /\ cur'[q] = cur[q]
  BY DEF Others
<1>2. \A a : Token(a)' = Token(a) /\ (Current(a)' <=> Current(a))
  BY DEF Token, Current
<1>3. \A q \in Procs : Replaces(q)'
  BY <1>1, <1>2 DEF Recent, Replaces, Swaps
<1>4. RestCurrent' /\ BlankCurrent'
  BY <1>2 DEF Recent, RestCurrent, BlankCurrent
<1>5. LiveUntracked'
  BY <1>1 DEF Recent, LiveUntracked
<1>6. LiveIsCurrent'
  <2>1. \A s \in Sessions : pc[s] = "renewed" => pc'[s] = "renewed"
    BY <1>1, Kinds
  <2>2. QED
    BY <1>2, <2>1 DEF Recent, LiveIsCurrent
<1>7. QED
  BY <1>3, <1>4, <1>5, <1>6 DEF Recent

(* The steps of a process while nobody else is inside.                      *)
LEMMA RecentAlone ==
    ASSUME NEW p \in Procs, Others(p), Replaces(p)', \A q \in Procs \ {p} : ~Inside(q),
           RestCurrent', LiveUntracked', BlankCurrent', LiveIsCurrent'
    PROVE  Recent'
<1>1. \A q \in Procs \ {p} : Replaces(q)'
  BY DEF Others, Inside, Replaces, Swaps, Loaded
<1>2. QED
  BY <1>1 DEF Recent

(* The locks, and how a process begins.                                     *)
LEMMA RecentLock ==
    ASSUME Typed, Recent, NEW p \in Procs,
           LockStep(p) \/ (\E a \in Accounts : Begin(p, a)) \/ BeginAdd(p) \/ Expire(p)
    PROVE  Recent'
<1>1. pc \in [Procs -> Labels]
  BY DEF Typed, TypeOK
<1>2. ASSUME Others(p), UNCHANGED <<live, store, profile, active, minted, valid>>,
             pc'[p] \in {"primary", "legacy", "breakPrimary", "breakLegacy", "load", "reread",
                         "idle", "unprimary", "readBlock"},
             pc[p] \in {"primary", "legacy", "breakPrimary", "breakLegacy", "idle", "unlegacy",
                        "unprimary"}
      PROVE  Recent'
  <2>1. Replaces(p)'
    BY <1>2 DEF Replaces, Swaps, Loaded
  <2>2. QED
    BY <1>2, <2>1, RecentQuietly
<1>3. CASE LockStep(p)
  <2>1. PICK l \in LockNames : Take(p, l) \/ GiveUp(p, l) \/ SeeStale(p, l)
                                 \/ BreakLock(p, l) \/ ReleaseLock(p, l)
    BY <1>3 DEF LockStep
  <2>2. l = "primary" \/ l = "legacy"
    BY DEF LockNames
  <2>3. UNCHANGED <<live, store, profile, active, minted, valid>>
    BY <2>1 DEF Take, GiveUp, SeeStale, BreakLock, ReleaseLock, kept, server
  <2>4. Others(p)
    BY <1>1, <2>1 DEF Others, Take, GiveUp, SeeStale, BreakLock, ReleaseLock, Goto, Forget,
       registers, Typed, TypeOK
  <2>5. CASE Take(p, l)
    <3>1. pc'[p] \in {"legacy", "load", "reread"} /\ pc[p] = l
      BY <1>1, <2>2, <2>5 DEF Take, Goto
    <3>2. QED
      BY <1>2, <2>2, <2>3, <2>4, <3>1
  <2>6. CASE GiveUp(p, l) \/ SeeStale(p, l) \/ BreakLock(p, l) \/ ReleaseLock(p, l)
    <3>1. pc'[p] \in {"primary", "legacy", "breakPrimary", "breakLegacy", "idle", "unprimary"}
          /\ pc[p] \in {"primary", "legacy", "breakPrimary", "breakLegacy", "unlegacy",
                        "unprimary"}
      BY <1>1, <2>2, <2>6 DEF GiveUp, SeeStale, BreakLock, ReleaseLock, Goto, Breaking
    <3>2. QED
      BY <1>2, <2>3, <2>4, <3>1
  <2>7. QED
    BY <2>1, <2>5, <2>6
<1>4. CASE (\E a \in Accounts : Begin(p, a)) \/ BeginAdd(p) \/ Expire(p)
  <2>1. UNCHANGED <<live, store, profile, active, minted, valid>>
    BY <1>4 DEF Begin, BeginAdd, Expire, kept, server
  <2>2. Others(p)
    BY <1>1, <1>4 DEF Begin, BeginAdd, Expire, Goto, Others, Typed, TypeOK
  <2>3. pc[p] = "idle" /\ pc'[p] \in {"primary", "readBlock"}
    BY <1>1, <1>4 DEF Begin, BeginAdd, Expire, Goto
  <2>4. QED
    BY <1>2, <2>1, <2>2, <2>3
<1>5. QED
  BY <1>3, <1>4

(* A switch: it saves what it displaces, so that no store is left behind,   *)
(* and makes a current token live.                                          *)
LEMMA RecentSwitch ==
    ASSUME Well, mishaps' = {}, NEW p \in Switchers, SwitchStep(p)
    PROVE  Recent'
<1>0. p \in Procs
  BY Kinds
<1>1. pc \in [Procs -> Labels] /\ act \in [Procs -> Accounts \cup {None}]
      /\ cur \in [Procs -> Credentials] /\ next \in [Procs -> Credentials]
      /\ store \in [Accounts -> Credentials] /\ profile \in [Accounts -> Accounts \cup {None}]
      /\ name \in [Procs -> Accounts \cup {None}]
      /\ active \in Accounts \cup {None} /\ \A a \in valid : a \in Accounts
  BY DEF Well, Typed, TypeOK
<1>2. Inside(p) /\ Others(p)
  BY <1>0, <1>1 DEF SwitchStep, Load, Backup, Save, Check, Write, WriteBlock, Point, Goto,
     Inside, Others, registers
<1>3. \A q \in Procs \ {p} : ~Inside(q) /\ ~Adding(q)
  BY <1>0, <1>2, InsideWell
<1>4. pc[p] \in {"load", "backup", "save", "check", "write", "block", "point"}
  BY DEF SwitchStep, Load, Backup, Save, Check, Write, WriteBlock, Point, Goto
<1>5. Knows(p) /\ Registers(p) /\ Carries(p) /\ Replaces(p) /\ Typed
  BY <1>0 DEF Well, Kept, Typed, Named, Recent
<1>6. /\ pc[p] \notin {"block", "point"} => TokenNamesActive
      /\ pc[p] \notin {"block", "point"} /\ live \in Tokens /\ active = None
           => profile[live.acct] = None
      /\ live \in Tokens /\ live.acct \in valid => live = Token(live.acct)
  BY <1>0, <1>2, <1>4, InsideWell
<1>7. UNCHANGED <<minted, valid>> /\ \A a : Token(a)' = Token(a)
  BY DEF SwitchStep, Load, Backup, Save, Check, Write, WriteBlock, Point, server, Token
<1>8. ASSUME pc'[p] = "unlegacy" PROVE Replaces(p)'
  BY <1>8 DEF Replaces, Swaps, Loaded
<1>9. RestCurrent /\ BlankCurrent
  BY DEF Well, Recent
<1>10. ASSUME UNCHANGED <<store, profile, active>>
       PROVE  RestCurrent' /\ \A a : Current(a)' <=> Current(a)
  BY <1>7, <1>9, <1>10 DEF RestCurrent, Current
<1>11. ASSUME live' \in Tokens => (live'.acct \in valid => live' = Token(live'.acct))
       PROVE  LiveIsCurrent'
  BY <1>7, <1>11 DEF LiveIsCurrent
<1>12. CASE Load(p)
  <2>1. UNCHANGED <<live, store, profile, active, minted, valid, want>> /\ pc[p] = "load"
        /\ pc'[p] \in {"unlegacy", "backup"}
    BY <1>0, <1>1, <1>12 DEF Load, Goto, kept, server
  <2>2. ASSUME pc'[p] = "backup" PROVE Replaces(p)'
    <3>1. profile[want[p]] # None
      BY <1>0, <1>1, <1>12, <2>2 DEF Load, Goto
    <3>2. live \in Tokens => live.acct # want[p]
      BY <1>12 DEF Load, Mishap
    <3>3. QED
      BY <2>1, <2>2, <3>1, <3>2 DEF Replaces, Swaps
  <2>3. QED
    BY <1>0, <1>2, <1>5, <1>8, <2>1, <2>2, RecentQuietly DEF Well
<1>13. CASE Backup(p)
  <2>1. UNCHANGED <<live, store, profile, active, minted, valid, want>> /\ cur'[p] = live
        /\ pc[p] = "backup" /\ pc'[p] \in {"save", "unlegacy"}
    BY <1>0, <1>1, <1>13 DEF Backup, Goto, server
  <2>2. ASSUME pc'[p] = "save" PROVE Replaces(p)'
    <3>1. profile[want[p]] # None /\ (live \in Tokens => live.acct # want[p])
      BY <1>5, <2>1 DEF Replaces, Loaded
    <3>2. QED
      BY <1>6, <1>7, <2>1, <2>2, <3>1 DEF Replaces, Swaps
  <2>3. QED
    BY <1>0, <1>2, <1>5, <1>8, <2>1, <2>2, RecentQuietly DEF Well
<1>14. CASE Save(p)
  <2>1. UNCHANGED <<live, active, registers>> /\ pc[p] = "save" /\ pc'[p] = "check"
    BY <1>0, <1>1, <1>14 DEF Save, Goto
  <2>2. act[p] = active /\ live = cur[p] /\ want[p] \in Accounts
        /\ profile[want[p]] # None /\ (live \in Tokens => live.acct # want[p])
    BY <1>5, <2>1 DEF Knows, Swaps, Loaded, Registers, Replaces
  <2> DEFINE displaces == active # None /\ active # want[p]
  <2>3. Displaces(p) <=> displaces
    BY <2>2 DEF Displaces
  <2>4. store' = IF displaces /\ live \in Tokens /\ store[active] # None
                 THEN [store EXCEPT ![active] = live] ELSE store
    BY <1>14, <2>2, <2>3 DEF Save, Mishap
  <2>5. profile' = profile \/ (displaces /\ profile' = [profile EXCEPT ![active] = block])
    BY <1>14, <2>2, <2>3 DEF Save
  <2>6. \A a \in Accounts : a # active => store'[a] = store[a] /\ profile'[a] = profile[a]
    BY <1>1, <2>4, <2>5
  <2>7. want[p] # active \/ profile' = profile
    BY <2>5
  <2>8. profile'[want[p]] # None
    BY <2>2, <2>6, <2>7
  <2>9. \A a \in Accounts : a # active => (Current(a)' <=> Current(a))
    BY <1>7, <2>6 DEF Current
  <2>10. RestCurrent'
    BY <1>1, <1>7, <1>9, <2>1, <2>6, <2>9 DEF RestCurrent
  <2>11. ASSUME active \in valid PROVE Current(active)'
    <3>1. active \in Accounts /\ active # None
      BY <1>1, <2>11, Kinds
    <3>2. CASE live \in Tokens
      <4>1. live.acct = active
        BY <1>6, <2>1, <3>1, <3>2 DEF TokenNamesActive
      <4>2. displaces /\ live = Token(active)
        BY <1>6, <2>2, <2>11, <3>1, <3>2, <4>1
      <4>3. store'[active] = Token(active) \/ store'[active] = None
        BY <1>1, <2>4, <3>1, <3>2, <4>2
      <4>4. None \notin Tokens
        BY AccountAssumption DEF AccountAssumption
      <4>5. Current(active)'
        BY <1>7, <2>1, <4>3, <4>4 DEF Current
      <4>6. QED
        BY <4>5
    <3>3. CASE live \notin Tokens
      <4>1. Current(active) /\ store' = store
        BY <1>9, <2>4, <2>11, <3>3 DEF BlankCurrent
      <4>2. QED
        BY <1>7, <2>1, <4>1 DEF Current
    <3>4. QED
      BY <3>2, <3>3
  <2>12. BlankCurrent'
    BY <1>7, <2>1, <2>11 DEF BlankCurrent
  <2>13. LiveIsCurrent'
    BY <1>6, <1>11, <2>1
  <2>14. active = None => profile' = profile
    BY <2>5
  <2>15. live \in Tokens /\ active = None => profile[live.acct] = None
    BY <1>6, <2>1
  <2>16. LiveUntracked'
    BY <2>1, <2>14, <2>15 DEF LiveUntracked
  <2>17. \A a \in valid : profile'[a] # None \/ a = active => Current(a)'
    BY <1>1, <1>7, <2>1, <2>10, <2>11 DEF RestCurrent
  <2>18. Replaces(p)'
    <3>1. want'[p] = want[p] /\ cur'[p] = live /\ active' = active
      BY <2>1, <2>2 DEF registers
    <3>2. live \in Tokens /\ live.acct \in valid => live = Token(live.acct)
      BY <1>6
    <3>3. QED
      BY <1>7, <2>1, <2>8, <2>14, <2>15, <2>17, <3>1, <3>2 DEF Replaces, Swaps, Loaded
  <2>19. QED
    BY <1>0, <1>2, <1>3, <2>10, <2>12, <2>13, <2>16, <2>18, RecentAlone
<1>15. CASE Check(p)
  <2>1. UNCHANGED <<live, store, profile, active, minted, valid, registers>>
        /\ pc[p] = "check" /\ pc'[p] \in {"write", "unlegacy"}
    BY <1>0, <1>1, <1>15 DEF Check, Goto, kept, server
  <2>2. ASSUME pc'[p] = "write" PROVE Replaces(p)'
    <3>1. \A a : Current(a)' <=> Current(a)
      BY <1>10, <2>1
    <3>2. QED
      BY <1>5, <1>7, <2>1, <2>2, <3>1 DEF Replaces, Swaps, Loaded, registers
  <2>3. QED
    BY <1>0, <1>2, <1>5, <1>8, <2>1, <2>2, RecentQuietly DEF Well
<1>16. CASE Write(p) \/ WriteBlock(p)
  <2>1. UNCHANGED <<store, profile, active, registers>>
        /\ pc[p] \in {"write", "block"} /\ pc'[p] \in {"block", "point", "unlegacy"}
    BY <1>0, <1>1, <1>16 DEF Write, WriteBlock, Goto, kept
  <2>2. RestCurrent' /\ \A a : Current(a)' <=> Current(a)
    BY <1>10, <2>1
  <2>3. /\ profile[want[p]] # None /\ want[p] \in Accounts /\ next[p] \in Tokens
        /\ next[p].acct = want[p] /\ next[p] = store[want[p]]
        /\ \A a \in valid : profile[a] # None \/ a = active => Current(a)
        /\ cur[p] \in Tokens /\ cur[p].acct \in valid => cur[p] = Token(cur[p].acct)
        /\ cur[p] \in Tokens /\ active = None => profile[cur[p].acct] = None
    BY <1>5, <2>1 DEF Replaces, Swaps, Loaded, Registers, Knows, Carries
  <2>4. \A a \in valid : (profile[a] # None \/ a = active => Current(a))'
    BY <1>7, <2>1, <2>2, <2>3
  <2>5. next[p].acct \in valid => next[p] = Token(next[p].acct)
    BY <2>3 DEF Current
  <2>6. CASE pc'[p] \in {"block", "point"}
    <3>1. live' = next[p]
      BY <1>0, <1>1, <1>5, <1>16, <2>6 DEF Write, WriteBlock, Goto, Carries
    <3>2. Replaces(p)'
      BY <1>7, <2>1, <2>3, <2>4, <2>6 DEF Replaces, Swaps, registers
    <3>3. LiveUntracked'
      BY <1>0, <2>6 DEF LiveUntracked
    <3>4. BlankCurrent' /\ LiveIsCurrent'
      BY <1>11, <2>3, <2>5, <3>1 DEF BlankCurrent
    <3>5. QED
      BY <1>0, <1>2, <1>3, <2>2, <3>2, <3>3, <3>4, RecentAlone
  <2>7. CASE pc'[p] = "unlegacy"
    <3>1. live' \in {cur[p], Blank}
      BY <1>0, <1>1, <1>5, <1>16, <2>7 DEF Write, WriteBlock, Goto, Mishap, Knows
    <3>2. BlankCurrent'
      BY <1>7, <2>1, <2>2, <2>3 DEF BlankCurrent
    <3>3. LiveIsCurrent'
      BY <1>11, <2>3, <3>1, AccountAssumption DEF AccountAssumption
    <3>4. LiveUntracked'
      BY <2>1, <2>3, <3>1, AccountAssumption DEF AccountAssumption, LiveUntracked
    <3>5. QED
      BY <1>0, <1>2, <1>3, <1>8, <2>2, <2>7, <3>2, <3>3, <3>4, RecentAlone
  <2>8. QED
    BY <2>1, <2>6, <2>7
<1>17. CASE Point(p)
  <2>1. UNCHANGED <<live, store, profile>> /\ active' = want[p] /\ pc[p] = "point"
        /\ pc'[p] = "unlegacy"
    BY <1>0, <1>1, <1>17 DEF Point, Goto, Mishap
  <2>2. /\ want[p] \in Accounts /\ live \in Tokens
        /\ \A a \in valid : profile[a] # None \/ a = active => Current(a)
    BY <1>5, <2>1 DEF Replaces, Swaps, Loaded, Registers, Knows
  <2>3. RestCurrent'
    BY <1>7, <2>1, <2>2 DEF RestCurrent, Current
  <2>4. BlankCurrent' /\ LiveUntracked'
    BY <2>1, <2>2, Kinds DEF BlankCurrent, LiveUntracked
  <2>5. LiveIsCurrent'
    BY <1>6, <1>11, <2>1
  <2>6. QED
    BY <1>0, <1>2, <1>3, <1>8, <2>1, <2>3, <2>4, <2>5, RecentAlone
<1>18. QED
  BY <1>12, <1>13, <1>14, <1>15, <1>16, <1>17 DEF SwitchStep

(* An add files the live token, which is current, under its own account.    *)
LEMMA RecentAdd ==
    ASSUME Well, mishaps' = {}, NEW p \in Adders, AddStep(p)
    PROVE  Recent'
<1>0. p \in Procs
  BY Kinds
<1>1. pc \in [Procs -> Labels] /\ want \in [Procs -> Accounts \cup {None}]
      /\ store \in [Accounts -> Credentials] /\ profile \in [Accounts -> Accounts \cup {None}]
      /\ \A a \in valid : a \in Accounts
  BY DEF Well, Typed, TypeOK
<1>2. Adding(p) /\ pc[p] # "renewed"
  BY <1>0, <1>1 DEF AddStep, ReadBlock, Capture, CaptureFails, PointAdd, PointAddFails, Goto,
     Adding
<1>3. Others(p)
  BY <1>0, <1>1 DEF AddStep, ReadBlock, Capture, CaptureFails, PointAdd, PointAddFails, Goto,
     Forget, Others, registers, Well, Typed, TypeOK
<1>4. \A q \in Procs : ~Inside(q)
  BY <1>0, <1>2 DEF Well, Kept, Apiece
<1>5. TokenNamesActive
  BY <1>4 DEF Well, Named, Inside
<1>6. Knows(p) /\ Registers(p)
  BY <1>0 DEF Well, Kept, Typed
<1>7. live = cur[p] /\ live \in Tokens
  BY <1>2, <1>6 DEF Knows, Registers, Adding
<1>8. UNCHANGED <<live, minted, valid>> /\ \A a : Token(a)' = Token(a)
  BY DEF AddStep, ReadBlock, Capture, CaptureFails, PointAdd, PointAddFails, server, Token
<1>9. LiveIsCurrent'
  BY <1>4, <1>8, Kinds DEF Well, Recent, LiveIsCurrent, Inside
<1>10. RestCurrent
  BY DEF Well, Recent
<1>11. Replaces(p)'
  BY <1>0, <1>1 DEF AddStep, ReadBlock, Capture, CaptureFails, PointAdd, PointAddFails, Goto,
     Replaces, Swaps, Loaded
<1>12. CASE ReadBlock(p) \/ PointAddFails(p)
  <2>1. ~PointAddFails(p)
    BY DEF PointAddFails, Mishap
  <2>2. UNCHANGED <<live, store, profile, active, minted, valid>> /\ pc[p] = "readBlock"
    BY <1>12, <2>1 DEF ReadBlock, Goto, kept, server
  <2>3. QED
    BY <1>0, <1>3, <1>11, <2>2, RecentQuietly DEF Well
<1>13. CASE Capture(p) \/ CaptureFails(p)
  <2>1. UNCHANGED active /\ pc[p] = "capture" /\ want[p] \in Accounts
    BY <1>0, <1>6, <1>13 DEF Capture, CaptureFails, Goto, Registers
  <2>2. live.acct = want[p] /\ (want[p] \in valid => live = Token(want[p]))
    BY <1>6, <1>7, <2>1 DEF Knows
  <2>3. /\ \A a \in Accounts \ {want[p]} : store'[a] = store[a] /\ profile'[a] = profile[a]
        /\ \/ store'[want[p]] = live
           \/ store'[want[p]] \in {store[want[p]], Blank} /\ profile'[want[p]] = profile[want[p]]
    BY <1>1, <1>7, <1>13, <2>1 DEF Capture, CaptureFails
  <2>4. RestCurrent'
    <3>1. ASSUME NEW a \in valid, a # active, profile'[a] # None, store'[a] \in Tokens
          PROVE  store'[a] = Token(a)
      <4>1. CASE a = want[p]
        <5>1. CASE store'[a] = live
          BY <2>2, <4>1, <5>1
        <5>2. CASE store'[a] \in {store[a], Blank} /\ profile'[a] = profile[a]
          BY <1>10, <3>1, <5>2, AccountAssumption DEF AccountAssumption, RestCurrent, Current
        <5>3. QED
          BY <2>3, <4>1, <5>1, <5>2
      <4>2. CASE a # want[p]
        BY <1>1, <1>10, <2>3, <3>1, <4>2 DEF RestCurrent, Current
      <4>3. QED
        BY <4>1, <4>2
    <3>2. QED
      BY <1>8, <2>1, <3>1 DEF RestCurrent, Current
  <2>5. BlankCurrent'
    BY <1>7, <1>8 DEF BlankCurrent
  <2>6. LiveUntracked'
    <3>1. CASE Capture(p)
      <4>1. pc'[p] = "pointAdd"
        BY <1>0, <1>1, <3>1 DEF Capture, Goto
      <4>2. QED
        BY <1>0, <4>1 DEF LiveUntracked
    <3>2. CASE CaptureFails(p)
      <4>1. profile'[want[p]] \in {profile[want[p]], None}
        BY <1>1, <2>1, <3>2 DEF CaptureFails
      <4>2. pc[p] # "pointAdd" /\ \A q \in Procs : pc[q] \notin {"block", "point"}
        BY <1>4, <2>1 DEF Inside
      <4>3. \A q \in Procs \ {p} : pc'[q] = pc[q]
        BY <1>3 DEF Others
      <4>4. ASSUME \A q \in Procs : pc'[q] \notin {"block", "point", "pointAdd"},
                   active = None
            PROVE  profile'[live.acct] = None
        <5>1. \A q \in Procs : pc[q] \notin {"block", "point", "pointAdd"}
          BY <4>2, <4>3, <4>4
        <5>2. profile[live.acct] = None
          BY <1>7, <4>4, <5>1 DEF Well, Recent, LiveUntracked
        <5>3. QED
          BY <2>2, <4>1, <5>2
      <4>5. QED
        BY <1>8, <2>1, <4>4 DEF LiveUntracked
    <3>3. QED
      BY <1>13, <3>1, <3>2
  <2>7. QED
    BY <1>0, <1>3, <1>4, <1>9, <1>11, <2>4, <2>5, <2>6, RecentAlone
<1>14. CASE PointAdd(p)
  <2>1. UNCHANGED <<store, profile>> /\ active' = want[p] /\ pc[p] = "pointAdd"
    BY <1>14 DEF PointAdd, Goto
  <2>2. want[p] \in Accounts /\ live.acct = want[p]
    BY <1>6, <1>7, <2>1 DEF Registers, Knows
  <2>3. active # None => active = want[p]
    BY <1>5, <1>7, <2>2 DEF TokenNamesActive
  <2>4. RestCurrent'
    BY <1>1, <1>8, <1>10, <2>1, <2>3, Kinds DEF RestCurrent, Current
  <2>5. BlankCurrent' /\ LiveUntracked'
    BY <1>7, <1>8, <2>1, <2>2, Kinds DEF BlankCurrent, LiveUntracked
  <2>6. QED
    BY <1>0, <1>3, <1>4, <1>9, <1>11, <2>4, <2>5, RecentAlone
<1>15. QED
  BY <1>12, <1>13, <1>14 DEF AddStep

(* A session: the account it renews is the active one, or has no profile a  *)
(* switch could be made from.                                               *)
LEMMA RecentSession ==
    ASSUME Well, NEW s \in Sessions, SessionStep(s)
    PROVE  Recent'
<1>0. s \in Procs
  BY Kinds
<1>1. pc \in [Procs -> Labels] /\ cur \in [Procs -> Credentials]
      /\ next \in [Procs -> Credentials] /\ minted \in [Accounts -> 1..MaxGen]
      /\ \A a \in valid : a \in Accounts
  BY DEF Well, Typed, TypeOK
<1>2. Inside(s) /\ Others(s) /\ pc[s] \in {"reread", "renewed"}
      /\ pc'[s] \in {"renewed", "unlegacy"}
  BY <1>0, <1>1 DEF SessionStep, Renew, SaveRenewed, Goto, Inside, Others, registers
<1>3. \A q \in Procs \ {s} : ~Inside(q)
  BY <1>0, <1>2, InsideWell
<1>4. UNCHANGED <<store, profile, active, valid>>
  BY DEF SessionStep, Renew, SaveRenewed, kept, server
<1>5. Replaces(s)'
  BY <1>2 DEF Replaces, Swaps, Loaded
<1>6. /\ TokenNamesActive
      /\ live \in Tokens /\ active = None => profile[live.acct] = None
      /\ pc[s] # "renewed" /\ live \in Tokens /\ live.acct \in valid => live = Token(live.acct)
  BY <1>0, <1>2, InsideWell
<1>7. Registers(s) /\ Knows(s) /\ RestCurrent /\ BlankCurrent
  BY <1>0 DEF Well, Typed, Kept, Recent
<1>8. ASSUME UNCHANGED minted
      PROVE  RestCurrent' /\ \A a : Token(a)' = Token(a) /\ (Current(a)' <=> Current(a))
  BY <1>4, <1>7, <1>8 DEF RestCurrent, Current, Token
<1>9. CASE Renew(s) /\ pc'[s] = "unlegacy" /\ live' = live
  <2>1. pc[s] = "reread" /\ UNCHANGED minted
    BY <1>0, <1>1, <1>9 DEF Renew, Goto
  <2>2. QED
    BY <1>0, <1>2, <1>4, <1>5, <1>9, <2>1, RecentQuietly DEF Well
<1>10. CASE Renew(s) /\ pc'[s] = "unlegacy" /\ live' = Blank /\ ~Accepted(live)
            /\ live = cur[s]
  <2>1. pc[s] = "reread" /\ UNCHANGED minted
    BY <1>0, <1>1, <1>10 DEF Renew, Goto
  <2>2. live \in Tokens /\ Blank \notin Tokens
    BY <1>0, <1>7, <1>10, <2>1, AccountAssumption
       DEF AccountAssumption, Registers, Contending
  <2>3. active \notin valid
    BY <1>1, <1>6, <1>10, <2>1, <2>2, Kinds DEF TokenNamesActive, Accepted
  <2>4. BlankCurrent' /\ LiveUntracked' /\ LiveIsCurrent'
    BY <1>4, <1>10, <2>2, <2>3 DEF BlankCurrent, LiveUntracked, LiveIsCurrent
  <2>5. QED
    BY <1>0, <1>2, <1>3, <1>5, <1>8, <2>1, <2>4, RecentAlone
<1>11. CASE Renew(s) /\ pc'[s] = "renewed"
  <2>1. pc[s] = "reread"
    BY <1>0, <1>1, <1>11 DEF Renew, Goto
  <2>2. PICK a \in Accounts : a = cur[s].acct
    BY <1>0, <1>7, <2>1, TokenParts DEF Registers, Contending
  <2>3. live = cur[s] /\ live \in Tokens /\ minted[a] < MaxGen
        /\ minted' = [minted EXCEPT ![a] = @ + 1] /\ UNCHANGED live
    BY <1>0, <1>1, <1>7, <1>11, <2>1, <2>2 DEF Renew, Goto, Registers, Contending
  <2>4. \A b \in Accounts \ {a} : Token(b)' = Token(b)
    BY <2>3, Mints DEF Well, Kept
  <2>5. a = active \/ profile[a] = None
    BY <1>6, <2>2, <2>3 DEF TokenNamesActive
  <2>6. RestCurrent'
    BY <1>1, <1>4, <1>7, <2>4, <2>5 DEF RestCurrent, Current
  <2>7. LiveUntracked' /\ BlankCurrent'
    BY <1>4, <1>6, <2>3 DEF LiveUntracked, BlankCurrent
  <2>8. LiveIsCurrent'
    BY <1>11 DEF LiveIsCurrent
  <2>9. QED
    BY <1>0, <1>2, <1>3, <1>5, <2>6, <2>7, <2>8, RecentAlone
<1>12. CASE SaveRenewed(s)
  <2>1. pc[s] = "renewed" /\ live' = next[s] /\ UNCHANGED minted
    BY <1>12 DEF SaveRenewed, Goto, server
  <2>2. live = cur[s] /\ next[s] = Token(cur[s].acct) /\ next[s] \in Tokens /\ cur[s] \in Tokens
    BY <1>0, <1>7, <2>1 DEF Knows, Registers
  <2>3. next[s].acct = live.acct
    BY <2>2, LastTokens, TokenParts DEF Well
  <2>4. \A b : Token(b)' = Token(b)
    BY <1>8, <2>1
  <2>5. BlankCurrent' /\ LiveUntracked'
    BY <1>4, <1>6, <2>1, <2>2, <2>3 DEF BlankCurrent, LiveUntracked
  <2>6. LiveIsCurrent'
    BY <2>1, <2>2, <2>3, <2>4 DEF LiveIsCurrent
  <2>7. QED
    BY <1>0, <1>2, <1>3, <1>5, <1>8, <2>1, <2>5, <2>6, RecentAlone
<1>13. QED
  <2>1. ASSUME Renew(s)
        PROVE  \/ pc'[s] = "unlegacy" /\ live' = live
               \/ pc'[s] = "unlegacy" /\ live' = Blank /\ ~Accepted(live) /\ live = cur[s]
               \/ pc'[s] = "renewed"
    BY <1>0, <1>1, <2>1 DEF Renew, Goto
  <2>2. QED
    BY <1>9, <1>10, <1>11, <1>12, <2>1 DEF SessionStep

(* A kill blanks what it cuts short, and a blank store is no stale one.     *)
LEMMA RecentCrash ==
    ASSUME Well, mishaps' = {}, NEW p \in Procs, Crash(p)
    PROVE  Recent'
<1>1. pc \in [Procs -> Labels] /\ store \in [Accounts -> Credentials]
      /\ \A a \in valid : a \in Accounts
  BY DEF Well, Typed, TypeOK
<1>2. Others(p) /\ UNCHANGED <<profile, active, minted, registers>> /\ pc'[p] = "dead"
      /\ pc[p] \notin {"block", "point", "pointAdd"}
  BY <1>1 DEF Crash, Others, registers, Mishap
<1>3. Replaces(p)'
  BY <1>2 DEF Replaces, Swaps, Loaded
<1>4. Blank \notin Tokens
  BY AccountAssumption DEF AccountAssumption
<1>5. /\ live' \in {live, Blank} /\ (pc[p] # "write" => live' = live)
      /\ valid' \subseteq valid /\ (pc[p] # "renewed" => valid' = valid)
      /\ \A a \in Accounts : store'[a] \in {store[a], Blank}
      /\ (pc[p] \notin {"save", "capture"} => \A a \in Accounts : store'[a] = store[a])
  BY DEF Crash
<1>6. \A a : Token(a)' = Token(a)
  BY <1>2 DEF Token
<1>7. \A a \in Accounts : Current(a) => Current(a)'
  BY <1>4, <1>5, <1>6 DEF Current
<1>8. RestCurrent'
  BY <1>1, <1>2, <1>5, <1>7 DEF Well, Recent, RestCurrent
<1>9. \A q \in Procs : pc'[q] \notin {"block", "point", "pointAdd"}
                         => pc[q] \notin {"block", "point", "pointAdd"}
  BY <1>2 DEF Others
<1>10. LiveUntracked'
  BY <1>2, <1>4, <1>5, <1>9 DEF Well, Recent, LiveUntracked
<1>11. Replaces(p) /\ Knows(p) /\ Registers(p)
  BY DEF Well, Recent, Kept, Typed
<1>12. BlankCurrent'
  <2>1. pc[p] = "write" => (active \in valid => Current(active))
    BY <1>11 DEF Replaces, Swaps
  <2>2. active \in valid' /\ live' \notin Tokens => Current(active)
    BY <1>5, <2>1 DEF Well, Recent, BlankCurrent
  <2>3. QED
    BY <1>1, <1>2, <1>5, <1>7, <2>2 DEF BlankCurrent
<1>13. LiveIsCurrent'
  <2>1. CASE pc[p] = "renewed"
    <3>1. live = cur[p] /\ next[p] = Token(cur[p].acct) /\ cur[p] \in Tokens
          /\ valid' = valid \ {next[p].acct} /\ live' = live
      BY <1>5, <1>11, <2>1 DEF Knows, Registers, Crash
    <3>2. next[p].acct = live.acct
      BY <3>1, LastTokens, TokenParts DEF Well
    <3>3. QED
      BY <3>1, <3>2 DEF LiveIsCurrent
  <2>2. CASE pc[p] # "renewed"
    <3>1. \A s \in Sessions : pc[s] = "renewed" => pc'[s] = "renewed"
      BY <1>2, <2>2, Kinds DEF Others
    <3>2. QED
      BY <1>4, <1>5, <1>6, <3>1 DEF Well, Recent, LiveIsCurrent
  <2>3. QED
    BY <2>1, <2>2
<1>14. ASSUME NEW q \in Procs, q # p PROVE Replaces(q)'
  <2>1. pc'[q] = pc[q]
    BY <1>2, <1>14 DEF Others
  <2>2. CASE ~Inside(q)
    BY <2>1, <2>2 DEF Inside, Replaces, Swaps, Loaded
  <2>3. CASE Inside(q)
    <3>1. ~Inside(p) /\ ~Adding(p)
      BY <1>14, <2>3, InsideWell
    <3>2. live' = live /\ valid' = valid /\ \A a \in Accounts : store'[a] = store[a]
      BY <1>5, <3>1 DEF Inside, Adding
    <3>3. Replaces(q)
      BY DEF Well, Recent
    <3>4. want'[q] = want[q] /\ cur'[q] = cur[q]
      BY <1>2, <1>14 DEF Others
    <3>5. QED
      BY <1>1, <1>2, <1>6, <1>7, <2>1, <3>2, <3>3, <3>4 DEF Replaces, Swaps
  <2>4. QED
    BY <2>2, <2>3
<1>15. QED
  BY <1>3, <1>8, <1>10, <1>12, <1>13, <1>14 DEF Recent

(* The user, while nobody works on the login.                               *)
LEMMA RecentUser ==
    ASSUME Well, mishaps' = {}, LogOut \/ \E a \in Accounts : Remove(a) \/ LogIn(a)
    PROVE  Recent'
<1>1. \A q \in Procs : ~Inside(q) /\ ~Adding(q)
  BY DEF LogOut, Remove, LogIn, Quiet, Mishap
<1>2. UNCHANGED pc
  BY DEF LogOut, Remove, LogIn
<1>3. \A q \in Procs : Replaces(q)'
  BY <1>1, <1>2 DEF Inside, Replaces, Swaps, Loaded
<1>4. store \in [Accounts -> Credentials] /\ profile \in [Accounts -> Accounts \cup {None}]
      /\ \A b \in valid : b \in Accounts /\ b # None
  BY Kinds DEF Well, Typed, TypeOK
<1>5. /\ TokenNamesActive
      /\ live \in Tokens /\ active = None => profile[live.acct] = None
      /\ live \in Tokens /\ live.acct \in valid => live = Token(live.acct)
  <2>1. \A q \in Procs : pc[q] \notin {"block", "point", "pointAdd", "renewed"}
    BY <1>1 DEF Inside, Adding
  <2>2. QED
    BY <2>1, Kinds DEF Well, Named, Recent, LiveUntracked, LiveIsCurrent
<1>6. RestCurrent /\ BlankCurrent
  BY DEF Well, Recent
<1>7. CASE LogOut
  <2>1. live' \notin Tokens /\ live \in Tokens /\ valid' = valid \ {live.acct}
        /\ UNCHANGED <<store, profile, active, minted>>
    BY <1>7, AccountAssumption DEF LogOut, AccountAssumption, kept
  <2>2. active \notin valid'
    BY <1>4, <1>5, <2>1 DEF TokenNamesActive
  <2>3. LiveUntracked' /\ BlankCurrent' /\ LiveIsCurrent'
    BY <2>1, <2>2 DEF LiveUntracked, BlankCurrent, LiveIsCurrent
  <2>4. RestCurrent'
    BY <1>6, <2>1 DEF RestCurrent, Current, Token
  <2>5. QED
    BY <1>3, <2>3, <2>4 DEF Recent
<1>8. ASSUME NEW a \in Accounts, Remove(a) PROVE Recent'
  <2>1. /\ store' = [store EXCEPT ![a] = None] /\ profile' = [profile EXCEPT ![a] = None]
        /\ active' = (IF active = a THEN None ELSE active)
        /\ valid' \subseteq valid /\ UNCHANGED <<live, minted>>
    BY <1>8 DEF Remove
  <2>2. profile'[a] = None
        /\ \A b \in Accounts \ {a} : store'[b] = store[b] /\ profile'[b] = profile[b]
    BY <1>4, <2>1
  <2>3. \A b : Token(b)' = Token(b)
    BY <2>1 DEF Token
  <2>4. \A b \in Accounts \ {a} : Current(b) => Current(b)'
    BY <2>2, <2>3 DEF Current
  <2>5. RestCurrent'
    BY <1>4, <1>6, <2>1, <2>2, <2>4 DEF RestCurrent
  <2>6. BlankCurrent'
    BY <1>4, <1>6, <2>1, <2>4 DEF BlankCurrent
  <2>7. LiveUntracked'
    <3>1. ASSUME live \in Tokens, active' = None PROVE profile'[live.acct] = None
      <4>1. live.acct \in Accounts
        BY <3>1, TokenParts
      <4>2. live.acct = a \/ active = None
        BY <1>5, <2>1, <3>1 DEF TokenNamesActive
      <4>3. QED
        BY <1>5, <2>2, <3>1, <4>1, <4>2
    <3>2. QED
      BY <2>1, <3>1 DEF LiveUntracked
  <2>8. LiveIsCurrent'
    BY <1>5, <2>1, <2>3 DEF LiveIsCurrent
  <2>9. QED
    BY <1>3, <2>5, <2>6, <2>7, <2>8 DEF Recent
<1>9. ASSUME NEW a \in Accounts, LogIn(a) PROVE Recent'
  <2>1. /\ a = active /\ minted[a] < MaxGen /\ minted' = [minted EXCEPT ![a] = @ + 1]
        /\ live' = [acct |-> a, gen |-> minted[a] + 1] /\ valid' \subseteq valid \cup {a}
        /\ UNCHANGED <<store, profile, active>>
    BY <1>9 DEF LogIn, Mishap, kept
  <2>2. Token(a)' = live' /\ Token(a)' \in Tokens /\ Token(a)'.acct = a
        /\ \A b \in Accounts \ {a} : Token(b)' = Token(b)
    BY <2>1, Mints DEF Well, Kept
  <2>3. RestCurrent'
    BY <1>4, <1>6, <2>1, <2>2 DEF RestCurrent, Current
  <2>4. active # None
    BY <2>1, Kinds
  <2>5. BlankCurrent' /\ LiveUntracked'
    BY <2>1, <2>2, <2>4 DEF BlankCurrent, LiveUntracked
  <2>6. LiveIsCurrent'
    <3>1. live'.acct = a /\ live' = Token(a)'
      BY <2>2
    <3>2. Token(live.acct)' = Token(a)'
      BY <3>1 DEF Token
    <3>3. QED
      BY <3>1, <3>2 DEF LiveIsCurrent
  <2>7. QED
    BY <1>3, <2>3, <2>5, <2>6 DEF Recent
<1>10. QED
  BY <1>7, <1>8, <1>9

(* Every step keeps the live token current, or is a mishap.                 *)
LEMMA RecentStep ==
    Typed /\ LockInv /\ NamedInv /\ KeptInv /\ RecentInv /\ [Next]_vars => RecentInv'
<1> SUFFICES ASSUME Typed, LockInv, NamedInv, KeptInv, RecentInv, [Next]_vars, mishaps' = {}
             PROVE  Recent'
  BY DEF RecentInv
<1>1. mishaps = {}
  BY MishapsStay
<1>2. Well
  BY <1>1 DEF Well, NamedInv, KeptInv, Covering, RecentInv
<1>3. CASE UNCHANGED vars
  <2>1. UNCHANGED <<pc, live, store, profile, active, minted, valid, registers>>
    BY <1>3 DEF vars, kept, server
  <2>2. \A a : Token(a)' = Token(a) /\ (Current(a)' <=> Current(a))
    BY <2>1 DEF Token, Current
  <2>3. \A p \in Procs : Replaces(p)'
    BY <1>2, <2>1, <2>2 DEF Well, Recent, Replaces, Swaps, registers
  <2>4. RestCurrent' /\ LiveUntracked' /\ BlankCurrent' /\ LiveIsCurrent'
    BY <1>2, <2>1, <2>2 DEF Well, Recent, RestCurrent, LiveUntracked, BlankCurrent,
       LiveIsCurrent
  <2>5. QED
    BY <2>3, <2>4 DEF Recent
<1>4. ASSUME NEW p \in Procs, LockStep(p) \/ Crash(p) PROVE Recent'
  BY <1>2, <1>4, RecentLock, RecentCrash DEF Well
<1>5. ASSUME NEW p \in Switchers, SwitchStep(p) PROVE Recent'
  BY <1>2, <1>5, RecentSwitch
<1>6. ASSUME NEW p \in Adders, BeginAdd(p) \/ AddStep(p) PROVE Recent'
  BY <1>2, <1>6, RecentLock, RecentAdd, Kinds DEF Well
<1>7. ASSUME NEW p \in Switchers, NEW a \in Accounts, Begin(p, a) PROVE Recent'
  BY <1>2, <1>7, RecentLock, Kinds DEF Well
<1>8. ASSUME NEW p \in Sessions, Expire(p) \/ SessionStep(p) PROVE Recent'
  BY <1>2, <1>8, RecentLock, RecentSession, Kinds DEF Well
<1>9. CASE LogOut \/ \E a \in Accounts : Remove(a) \/ LogIn(a)
  BY <1>2, <1>9, RecentUser
<1>10. QED
  BY <1>3, <1>4, <1>5, <1>6, <1>7, <1>8, <1>9 DEF Next

(* While there was no mishap the live token is one the server accepts.      *)
THEOREM NextRefreshSucceeds == Spec => []LiveStaysCurrent
<1>1. RecentInv => LiveStaysCurrent
  BY DEF RecentInv, Recent, LiveStaysCurrent
<1>2. QED
  BY TypeInit, TypeStep, LockInvInit, LockInvStep, NamedInit, NamedStep, KeptInit, KeptStep,
     RecentInit, RecentStep, <1>1, PTL DEF Spec
=============================================================================
