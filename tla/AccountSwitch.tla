--------------------------- MODULE AccountSwitch ---------------------------
(***************************************************************************)
(* internal/clauderig/account and the `account switch`, `add` and `remove` *)
(* commands: one machine's live Claude Code login, the tokens clauderig    *)
(* keeps for each tracked account, and the processes that move them.       *)
(*                                                                         *)
(* A credential is a token: an account and a generation.  The server       *)
(* accepts only the last generation it minted for an account; a refresh    *)
(* mints the next one and retires the one before.  Claude Code's sessions  *)
(* (external) refresh the live token under the two lock directories        *)
(* clauderig also takes.  Blank is a credential without tokens: what a     *)
(* logout or a refused refresh leaves, and what a cut or failed            *)
(* os.WriteFile leaves of a file it had truncated.                         *)
(*                                                                         *)
(* Sessions of isolated profiles (`account run`), which keep tokens of     *)
(* their own, and `purge` are left out.                                    *)
(***************************************************************************)
EXTENDS Naturals, FiniteSets

CONSTANTS Switchers,   \* clauderig processes, which switch
          Adders,      \* those that add too
          Sessions,    \* Claude Code processes that refresh the live token
          Accounts,    \* the tracked accounts
          None,        \* no file, no account, nobody
          Blank,       \* a credential that holds no tokens
          Crashable,   \* the processes that may be killed
          Sleepers,    \* those that may outlast the 60s staleness alive
          MaxGen,      \* bound on the tokens minted for an account
          MaxBegun     \* bound on what is begun: switches, adds, refreshes,
                       \* removals, logins and logouts

Procs == Switchers \cup Sessions
Tokens == [acct : Accounts, gen : 1..MaxGen]
Credentials == Tokens \cup {None, Blank}

ASSUME AccountAssumption ==
    /\ None \notin Procs \cup Accounts \cup Tokens
    /\ Blank \notin Tokens \cup {None}
    /\ Switchers \cap Sessions = {} /\ Adders \subseteq Switchers
    /\ Crashable \subseteq Procs /\ Sleepers \subseteq Procs
    /\ MaxGen \in Nat \ {0} /\ MaxBegun \in Nat

VARIABLES pc,        \* where each process is
          lock,      \* who stamped each lock directory
          live,      \* ~/.claude/.credentials.json
          block,     \* the account ~/.claude.json names in oauthAccount
          store,     \* accounts/<id>/credential.json
          profile,   \* the account accounts/<id>/oauth.json names
          active,    \* the active pointer
          backups,   \* tokens under backups/live-<stamp>.json
          minted,    \* the last generation the server minted
          valid,     \* the accounts whose last token the server still accepts
          want,      \* a switch's target; the account an add files under
          act,       \* the active account a switch read under the lock
          cur,       \* the live credential a process read
          next,      \* the credential it is about to make live
          name,      \* the account the profile block it is about to write names
          begun,     \* how many commands were begun
          mishaps    \* what went wrong so far (see below)

registers == <<want, act, cur, next, name>>
kept == <<store, profile, active, backups>>
server == <<minted, valid>>
vars == <<pc, lock, live, block, kept, server, registers, begun, mishaps>>

(* Events after which the code promises less; the properties name those    *)
(* they except.                                                            *)
(*   takeover:  the lock of a process that was alive was broken            *)
(*   untracked: somebody logged in as another account than the active one  *)
(*   overlap:   an add or a remove, which take no lock, met a process that *)
(*              holds both                                                 *)
(*   cutoff:    a switch ended after the live credential and before the    *)
(*              pointer, or an add before the pointer                      *)
(*   halfway:   a failed profile write was not rolled back                 *)
(*   unsaved:   the best-effort save of the displaced credential failed    *)
(*   misfiled:  an add that took no lock is to file a token under another  *)
(*              account's name, or one that is not its account's last      *)
(*   again:     a switch found, under the lock, its target live already    *)
Mishaps == {"takeover", "untracked", "overlap", "cutoff", "halfway", "unsaved",
            "misfiled", "again"}

LockNames == {"primary", "legacy"}
Breaking == [primary |-> "breakPrimary", legacy |-> "breakLegacy"]
Labels == {"idle", "primary", "legacy", "breakPrimary", "breakLegacy",
           "load", "backup", "save", "check", "write", "block", "point",
           "reread", "renewed", "unlegacy", "unprimary",
           "readBlock", "capture", "pointAdd", "dead"}

Inside(p) == pc[p] \in {"load", "backup", "save", "check", "write", "block",
                        "point", "reread", "renewed"}
Adding(p) == pc[p] \in {"readBlock", "capture", "pointAdd"}
Alive(p) == pc[p] # "dead"
Token(a) == [acct |-> a, gen |-> minted[a]]

(* Everywhere a token can be found again, other than the live credential.  *)
CopiesWith(stores) ==
    {stores[a] : a \in Accounts} \cup backups
      \cup {next[s] : s \in {r \in Sessions : pc[r] = "renewed"}}
Copies == CopiesWith(store)

TypeOK ==
    /\ pc \in [Procs -> Labels]
    /\ lock \in [LockNames -> Procs \cup {None}]
    /\ live \in Credentials
    /\ block \in Accounts \cup {None}
    /\ store \in [Accounts -> Credentials]
    /\ profile \in [Accounts -> Accounts \cup {None}]
    /\ active \in Accounts \cup {None}
    /\ backups \subseteq Tokens
    /\ minted \in [Accounts -> 1..MaxGen]
    /\ valid \subseteq Accounts
    /\ want \in [Procs -> Accounts \cup {None}]
    /\ act \in [Procs -> Accounts \cup {None}]
    /\ cur \in [Procs -> Credentials]
    /\ next \in [Procs -> Credentials]
    /\ name \in [Procs -> Accounts \cup {None}]
    /\ begun \in 0..MaxBegun
    /\ mishaps \subseteq Mishaps

(* Every account has been added and one of them is the live login.         *)
Init ==
    /\ pc = [p \in Procs |-> "idle"]
    /\ lock = [l \in LockNames |-> None]
    /\ minted = [a \in Accounts |-> 1]
    /\ valid = Accounts
    /\ store = [a \in Accounts |-> Token(a)]
    /\ profile = [a \in Accounts |-> a]
    /\ active \in Accounts
    /\ live = Token(active)
    /\ block = active
    /\ backups = {}
    /\ want = [p \in Procs |-> None]
    /\ act = [p \in Procs |-> None]
    /\ cur = [p \in Procs |-> None]
    /\ next = [p \in Procs |-> None]
    /\ name = [p \in Procs |-> None]
    /\ begun = 0
    /\ mishaps = {}

Goto(p, from, to) == pc[p] = from /\ pc' = [pc EXCEPT ![p] = to]
Forget(p) ==
    /\ want' = [want EXCEPT ![p] = None] /\ act' = [act EXCEPT ![p] = None]
    /\ cur' = [cur EXCEPT ![p] = None] /\ next' = [next EXCEPT ![p] = None]
    /\ name' = [name EXCEPT ![p] = None]
Starts == begun < MaxBegun /\ begun' = begun + 1
Mishap(m, happens) == mishaps' = IF happens THEN mishaps \cup {m} ELSE mishaps

-----------------------------------------------------------------------------
(* The two lock directories, taken in Claude Code's order by both programs. *)

(* mutant: MkdirAll, which succeeds on a directory that exists             *)
TakeAnyway(p, l) ==
    /\ IF l = "primary" THEN Goto(p, "primary", "legacy")
       ELSE Goto(p, "legacy", IF p \in Switchers THEN "load" ELSE "reread")
    /\ lock' = [lock EXCEPT ![l] = p]
    /\ Mishap("overlap", l = "legacy" /\ \E q \in Procs : Adding(q))
    /\ UNCHANGED <<live, block, kept, server, registers, begun>>

(* mkdir.  With the second lock in hand a switch loads and a session        *)
(* re-reads.                                                                *)
Take(p, l) ==
    /\ lock[l] = None
    /\ IF l = "primary" THEN Goto(p, "primary", "legacy")
       ELSE Goto(p, "legacy", IF p \in Switchers THEN "load" ELSE "reread")
    /\ lock' = [lock EXCEPT ![l] = p]
    /\ Mishap("overlap", l = "legacy" /\ \E q \in Procs : Adding(q))
    /\ UNCHANGED <<live, block, kept, server, registers, begun>>

(* The deadline of a contended lock: holding one half, release it first.    *)
GiveUp(p, l) ==
    /\ lock[l] \notin {None, p}
    /\ Goto(p, l, IF l = "primary" THEN "idle" ELSE "unprimary")
    /\ UNCHANGED <<lock, live, block, kept, server, registers, mishaps, begun>>

(* The mtime of the directory is more than 60s old: nobody touches it.      *)
Stale(l) == lock[l] \in {p \in Procs : ~Alive(p)} \cup Sleepers
SeeStale(p, l) ==
    /\ Stale(l) /\ lock[l] # p
    /\ Goto(p, l, Breaking[l])
    /\ UNCHANGED <<lock, live, block, kept, server, registers, mishaps, begun>>

(* Removes whatever directory is there by now.                              *)
BreakLock(p, l) ==
    /\ Goto(p, Breaking[l], l)
    /\ lock' = [lock EXCEPT ![l] = None]
    /\ Mishap("takeover", lock[l] # None /\ Alive(lock[l]))
    /\ UNCHANGED <<live, block, kept, server, registers, begun>>

(* heldLock.release: only a directory that is still ours is removed.        *)
ReleaseLock(p, l) ==
    /\ IF l = "legacy" THEN Goto(p, "unlegacy", "unprimary")
       ELSE Goto(p, "unprimary", "idle")
    /\ lock' = [lock EXCEPT ![l] = IF @ = p THEN None ELSE @]
    /\ IF l = "primary" THEN Forget(p) ELSE UNCHANGED registers
    /\ UNCHANGED <<live, block, kept, server, mishaps, begun>>

LockStep(p) == \E l \in LockNames : Take(p, l) \/ GiveUp(p, l) \/ SeeStale(p, l)
                                      \/ BreakLock(p, l) \/ ReleaseLock(p, l)

-----------------------------------------------------------------------------
(* doSwitch.  The target was chosen, and the running sessions were looked   *)
(* for, before the lock; --force and a scan that misses a session let it    *)
(* begin at any time.                                                       *)
Begin(p, a) ==
    /\ Starts /\ a # active /\ store[a] # None
    /\ Goto(p, "idle", "primary")
    /\ want' = [want EXCEPT ![p] = a]
    /\ UNCHANGED <<lock, live, block, kept, server, act, cur, next, name, mishaps>>

(* Read under the lock: the pointer, the target's two halves.  Refused      *)
(* without tokens, without a profile, and when both halves show their       *)
(* organization and it is not the same one.                                 *)
Load(p) ==
    LET cred == store[want[p]]
        named == profile[want[p]] IN
    /\ pc[p] = "load"
    /\ act' = [act EXCEPT ![p] = active]
    /\ next' = [next EXCEPT ![p] = cred]
    /\ name' = [name EXCEPT ![p] = named]
    /\ \/ /\ cred \in Tokens /\ named # None => cred.acct # named
          /\ Goto(p, "load", "unlegacy")
       \/ /\ cred \in Tokens /\ named # None
          /\ Goto(p, "load", "backup")
    /\ Mishap("again", live \in Tokens /\ live.acct = want[p])
    /\ UNCHANGED <<lock, live, block, kept, server, want, cur, begun>>

(* mutant: no safety backup before the write                                *)
NoBackup(p) ==
    /\ cur' = [cur EXCEPT ![p] = live]
    /\ Goto(p, "backup", "save")
    /\ UNCHANGED <<lock, live, block, kept, server, want, act, next, name,
                   mishaps, begun>>

(* ReadLive and BackupLive; a backup that cannot be written ends the switch.*)
Backup(p) ==
    /\ cur' = [cur EXCEPT ![p] = live]
    /\ \/ /\ Goto(p, "backup", "save")
          /\ backups' = backups \cup ({live} \cap Tokens)
       \/ /\ live # None
          /\ Goto(p, "backup", "unlegacy")
          /\ UNCHANGED backups
    /\ UNCHANGED <<lock, live, block, store, profile, active, server, want, act, next,
                   name, mishaps, begun>>

(* mutant: the credential is saved under the account it is switched to      *)
SaveUnderTarget(p) ==
    /\ Goto(p, "save", "check")
    /\ store' = IF cur[p] \in Tokens THEN [store EXCEPT ![want[p]] = cur[p]] ELSE store
    /\ UNCHANGED <<lock, live, block, profile, active, backups, server, registers, mishaps, begun>>

(* mutant: the displaced account's stored credential is not refreshed       *)
SaveNothing(p) ==
    /\ Goto(p, "save", "check")
    /\ UNCHANGED <<lock, live, block, kept, server, registers, mishaps, begun>>

(* SaveCredential and SaveOAuth of the displaced account, both best-effort: *)
(* nothing is stored for an account that is no longer tracked, and no       *)
(* credential without tokens; a write that fails may have truncated.        *)
Displaces(p) == act[p] \notin {None, want[p]}
Save(p) ==
    LET a == act[p]
        saves == Displaces(p) /\ cur[p] \in Tokens /\ store[a] # None IN
    /\ Goto(p, "save", "check")
    /\ IF Displaces(p) /\ block # None /\ store[a] # None
       THEN profile' \in {profile, [profile EXCEPT ![a] = block]}
       ELSE UNCHANGED profile
    /\ \/ /\ store' = IF saves THEN [store EXCEPT ![a] = cur[p]] ELSE store
          /\ UNCHANGED mishaps
       \/ /\ saves
          /\ \E left \in {store[a], Blank} : store' = [store EXCEPT ![a] = left]
          /\ Mishap("unsaved", TRUE)
    /\ UNCHANGED <<lock, live, block, active, backups, server, registers, begun>>

(* lockCompromised: the toucher notices a lost lock within three seconds,   *)
(* so a lock lost just now still passes.                                    *)
Check(p) ==
    /\ \/ Goto(p, "check", "write")
       \/ /\ \E l \in LockNames : lock[l] # p
          /\ Goto(p, "check", "unlegacy")
    /\ UNCHANGED <<lock, live, block, kept, server, registers, mishaps, begun>>

(* WriteLive.  Its failure ends the switch, with no rollback.               *)
Write(p) ==
    /\ \/ /\ Goto(p, "write", "block")
          /\ live' = next[p]
       \/ /\ Goto(p, "write", "unlegacy")
          /\ live' \in {live, Blank}
    /\ UNCHANGED <<lock, block, kept, server, registers, mishaps, begun>>

(* mutant: a failed profile write leaves the new credential live            *)
NoRollback(p) ==
    /\ \/ /\ Goto(p, "block", "point")
          /\ block' = name[p]
       \/ /\ Goto(p, "block", "unlegacy")
          /\ UNCHANGED block
    /\ UNCHANGED <<lock, live, kept, server, registers, mishaps, begun>>

(* WriteOAuthAccount, an atomic replacement.  When it fails the displaced   *)
(* credential, if there was one, is written back.                           *)
WriteBlock(p) ==
    /\ \/ /\ Goto(p, "block", "point")
          /\ block' = name[p]
          /\ UNCHANGED <<live, mishaps>>
       \/ /\ Goto(p, "block", "unlegacy")
          /\ \/ live' = IF cur[p] = None THEN live ELSE cur[p]
             \/ cur[p] # None /\ live' = Blank
          /\ Mishap("halfway", live' # cur[p])
          /\ UNCHANGED block
    /\ UNCHANGED <<lock, kept, server, registers, begun>>

(* SetActive.                                                               *)
Point(p) ==
    /\ Goto(p, "point", "unlegacy")
    /\ \/ active' = want[p] /\ UNCHANGED mishaps
       \/ active' = active /\ Mishap("cutoff", TRUE)
    /\ UNCHANGED <<lock, live, block, store, profile, backups, server, registers, begun>>

SwitchStep(p) == Load(p) \/ Backup(p) \/ Save(p) \/ Check(p) \/ Write(p)
                   \/ WriteBlock(p) \/ Point(p)

-----------------------------------------------------------------------------
(* add, which takes no lock: the live credential, then the profile block,   *)
(* stored together under the account the block names, then the pointer.     *)
BeginAdd(p) ==
    /\ Starts /\ live \in Tokens
    /\ Goto(p, "idle", "readBlock")
    /\ cur' = [cur EXCEPT ![p] = live]
    /\ Mishap("overlap", \E q \in Procs : Inside(q))
    /\ UNCHANGED <<lock, live, block, kept, server, want, act, next, name>>

ReadBlock(p) ==
    /\ Goto(p, "readBlock", IF block = None THEN "idle" ELSE "capture")
    /\ want' = [want EXCEPT ![p] = block]
    /\ Mishap("misfiled", block # None /\ (cur[p].acct # block
                             \/ (block \in valid /\ cur[p] # Token(block))))
    /\ UNCHANGED <<lock, live, block, kept, server, act, cur, next, name, begun>>

Capture(p) ==
    /\ Goto(p, "capture", "pointAdd")
    /\ store' = [store EXCEPT ![want[p]] = cur[p]]
    /\ profile' = [profile EXCEPT ![want[p]] = want[p]]
    /\ UNCHANGED <<lock, live, block, active, backups, server, registers, mishaps, begun>>

(* A write fails: the credential is as it was, cut short or stored, and     *)
(* with a stored one the profile may be cut short.                          *)
CaptureFails(p) ==
    /\ Goto(p, "capture", "idle")
    /\ \E cred \in {store[want[p]], Blank, cur[p]}, named \in {profile[want[p]], None} :
          /\ cred # cur[p] => named = profile[want[p]]
          /\ store' = [store EXCEPT ![want[p]] = cred]
          /\ profile' = [profile EXCEPT ![want[p]] = named]
    /\ Forget(p)
    /\ UNCHANGED <<lock, live, block, active, backups, server, mishaps, begun>>

PointAdd(p) ==
    /\ Goto(p, "pointAdd", "idle")
    /\ active' = want[p]
    /\ Forget(p)
    /\ UNCHANGED <<lock, live, block, store, profile, backups, server, mishaps, begun>>

(* SetActive fails: the account is stored and is not the active one.        *)
PointAddFails(p) ==
    /\ Goto(p, "pointAdd", "idle")
    /\ Mishap("cutoff", TRUE)
    /\ Forget(p)
    /\ UNCHANGED <<lock, live, block, kept, server, begun>>

AddStep(p) == ReadBlock(p) \/ Capture(p) \/ CaptureFails(p) \/ PointAdd(p) \/ PointAddFails(p)

(* remove: the account's directory and, if it was active, the pointer.  Its *)
(* token is given up, unless it is kept somewhere else.                     *)
Remove(a) ==
    /\ Starts /\ store[a] # None
    /\ store' = [store EXCEPT ![a] = None]
    /\ profile' = [profile EXCEPT ![a] = None]
    /\ active' = IF active = a THEN None ELSE active
    /\ valid' = {b \in valid : Token(b) \in {live} \cup CopiesWith(store')}
    /\ Mishap("overlap", \E q \in Procs : Inside(q) \/ Adding(q))
    /\ UNCHANGED <<pc, lock, live, block, backups, minted, registers>>

-----------------------------------------------------------------------------
(* Claude Code.  A session that finds its token expired takes both locks,   *)
(* re-reads the credential, and gives up the refresh if it is another one.  *)
Expire(s) ==
    /\ Starts /\ live \in Tokens /\ minted[live.acct] < MaxGen
    /\ Goto(s, "idle", "primary")
    /\ cur' = [cur EXCEPT ![s] = live]
    /\ UNCHANGED <<lock, live, block, kept, server, want, act, next, name, mishaps>>

(* The round trip.  A token the server has retired is refused, and the      *)
(* session blanks the credential.                                           *)
Accepted(tok) == tok = Token(tok.acct) /\ tok.acct \in valid
Renew(s) ==
    LET tok == cur[s] IN
    /\ pc[s] = "reread"
    /\ \/ /\ live # tok
          /\ Goto(s, "reread", "unlegacy")
          /\ UNCHANGED <<live, minted, next>>
       \/ /\ live = tok /\ Accepted(tok) /\ minted[tok.acct] < MaxGen
          /\ Goto(s, "reread", "renewed")
          /\ minted' = [minted EXCEPT ![tok.acct] = @ + 1]
          /\ next' = [next EXCEPT ![s] = [tok EXCEPT !.gen = minted[tok.acct] + 1]]
          /\ UNCHANGED live
       \/ /\ live = tok /\ ~Accepted(tok)
          /\ Goto(s, "reread", "unlegacy")
          /\ live' = Blank
          /\ UNCHANGED <<minted, next>>
    /\ UNCHANGED <<lock, block, kept, valid, want, act, cur, name, mishaps, begun>>

SaveRenewed(s) ==
    /\ Goto(s, "renewed", "unlegacy")
    /\ live' = next[s]
    /\ UNCHANGED <<lock, block, kept, server, registers, mishaps, begun>>

SessionStep(s) == Renew(s) \/ SaveRenewed(s)

(* The user, between clauderig commands: a login mints a new token, and the *)
(* token it replaces is given up unless it is kept somewhere.               *)
Quiet == \A p \in Procs : ~Inside(p) /\ ~Adding(p)

LogIn(a) ==
    /\ Starts /\ Quiet
    /\ minted[a] < MaxGen
    /\ minted' = [minted EXCEPT ![a] = @ + 1]
    /\ live' = [acct |-> a, gen |-> minted[a] + 1]
    /\ block' = a
    /\ valid' = {a} \cup {b \in valid : Token(b) \in Copies}
    /\ Mishap("untracked", a # active)
    /\ UNCHANGED <<pc, lock, kept, registers>>

LogOut ==
    /\ Starts /\ Quiet
    /\ live \in Tokens
    /\ live' \in {None, Blank}
    /\ block' \in {block, None}
    /\ valid' = valid \ {live.acct}
    /\ UNCHANGED <<pc, lock, kept, minted, registers, mishaps>>

(* A kill.  os.WriteFile truncates first: what it was writing may be cut.   *)
(* A session that dies with a renewed token takes it along.                 *)
Crash(p) ==
    /\ p \in Crashable
    /\ pc[p] \notin {"idle", "dead"}
    /\ pc' = [pc EXCEPT ![p] = "dead"]
    /\ live' \in {live} \cup IF pc[p] = "write" THEN {Blank} ELSE {}
    /\ \E cut \in {{}} \cup
            (CASE pc[p] = "save" /\ Displaces(p) /\ cur[p] \in Tokens -> {{act[p]}}
               [] pc[p] = "capture" -> {{want[p]}}
               [] OTHER -> {}) :
          store' = [a \in Accounts |->
                       IF a \in cut /\ store[a] # None THEN Blank ELSE store[a]]
    /\ valid' = IF pc[p] = "renewed" THEN valid \ {next[p].acct} ELSE valid
    /\ Mishap("cutoff", pc[p] \in {"block", "point", "pointAdd"})
    /\ UNCHANGED <<lock, block, profile, active, backups, minted, registers, begun>>

Next ==
    \/ \E p \in Procs : LockStep(p) \/ Crash(p)
    \/ \E p \in Switchers : SwitchStep(p)
    \/ \E p \in Adders : BeginAdd(p) \/ AddStep(p)
    \/ \E p \in Switchers, a \in Accounts : Begin(p, a)
    \/ \E s \in Sessions : Expire(s) \/ SessionStep(s)
    \/ \E a \in Accounts : Remove(a) \/ LogIn(a)
    \/ LogOut

Spec == Init /\ [][Next]_vars

-----------------------------------------------------------------------------
(* A refresh and a switch, or two switches, never work on the login at the  *)
(* same time, unless the lock of a live process was broken: "closes the     *)
(* race with Claude Code itself".                                           *)
OneAtATime ==
    "takeover" \in mishaps \/ \A p, q \in Procs : Inside(p) /\ Inside(q) => p = q

(* Whatever a switch, a kill or a failed write leaves behind, the token an  *)
(* account needs is found again: live, in a store, in a backup or in the    *)
(* hands of the session that renewed it.                                    *)
NoTokenLost ==
    mishaps \cap {"takeover", "untracked", "overlap", "misfiled"} = {}
      => \A a \in valid : Token(a) \in {live} \cup Copies

(* mergeCredential: "always the SAME account's own record ... never another *)
(* account's".  It needs the pointer to name the live login.                *)
OwnRecord == \A a \in Accounts : store[a] \in Tokens => store[a].acct = a
StoreHoldsItsOwn ==
    mishaps \cap {"takeover", "untracked", "overlap", "cutoff", "halfway"} = {} => OwnRecord

(* The profile block names the account of the live token, except within the *)
(* two writes of a switch.                                                  *)
Swapping(p) == pc[p] = "block"
PairAgrees ==
    \/ mishaps \cap {"takeover", "overlap", "untracked", "cutoff", "halfway"} # {}
    \/ \E p \in Switchers : Swapping(p)
    \/ live \in Tokens /\ block # None => live.acct = block

(* The live token is one the server accepts, so the next refresh succeeds:  *)
(* the round trip of doSwitch keeps every store fresh.                      *)
LiveIsCurrent ==
    live \in Tokens /\ live.acct \in valid
      => live = Token(live.acct) \/ \E s \in Sessions : pc[s] = "renewed"
LiveStaysCurrent == mishaps = {} => LiveIsCurrent

=============================================================================
