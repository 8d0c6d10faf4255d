---------------------------- MODULE NotifyCooldown ----------------------------
(***************************************************************************)
(* checkCanSend of src/wafqueue/message_queue.go: per-key notification     *)
(* suppression with an escalating cooldown (1, 5, then 15 minutes) kept in *)
(* two TTL keys of global.GCACHE_WAFCACHE: the cooldown marker and the     *)
(* level, whose 30-minute TTL is renewed at every send.  Keys starting     *)
(* with "SSL证书" are never suppressed.                                    *)
(*                                                                         *)
(* checkCanSend runs only on the queue goroutine, so calls are sequential. *)
(* Time advances in whole minutes (every duration involved is a whole      *)
(* number of minutes); a TTL entry set at t with duration d exists at     *)
(* times t..t+d-1.                                                         *)
(***************************************************************************)
EXTENDS Naturals

CONSTANTS
    Keys,       \* notification keys (rule name, operation, attack type, IP)
    SSLKeys,    \* the keys with prefix "SSL证书"
    MaxTime,    \* minutes explored
    None

ASSUME SSLKeys \subseteq Keys /\ MaxTime \in Nat

\* notifyCooldownIntervals, in minutes
Intervals == <<1, 5, 15>>
LevelTTL == 30

\* getCooldownDuration: negative levels count as 0, levels past the end get
\* the last interval.
getCooldownDuration(level) ==
    IF level >= 3 THEN Intervals[3]
    ELSE IF level < 0 THEN Intervals[1] ELSE Intervals[level + 1]

Time == 0..MaxTime

VARIABLES
    now,        \* the clock, in minutes
    coolExp,    \* expiry of CACHE_NOTICE_PRE+key, or None
    level,      \* value of CACHE_NOTICE_PRE+key+"_lv"
    levelExp,   \* its expiry, or None
    lastSend,   \* when checkCanSend last returned true for the key (history)
    lastCool,   \* the cooldown that send set (history)
    result      \* the last call: key and verdict

vars == <<now, coolExp, level, levelExp, lastSend, lastCool, result>>

Init ==
    /\ now = 0
    /\ coolExp = [k \in Keys |-> None]
    /\ level = [k \in Keys |-> 0]
    /\ levelExp = [k \in Keys |-> None]
    /\ lastSend = [k \in Keys |-> None]
    /\ lastCool = [k \in Keys |-> 0]
    /\ result = [k |-> None, ok |-> FALSE]

Live(exp) == exp # None /\ now < exp

IsKeyExist(k) == Live(coolExp[k])
CurrentLevel(k) == IF Live(levelExp[k]) THEN level[k] ELSE 0

\* The bug of setting the level's TTL only when the level is created.
checkCanSendNoRenew(k) ==
    \/ /\ k \in SSLKeys
       /\ result' = [k |-> k, ok |-> TRUE]
       /\ UNCHANGED <<now, coolExp, level, levelExp, lastSend, lastCool>>
    \/ /\ k \notin SSLKeys
       /\ IsKeyExist(k)
       /\ result' = [k |-> k, ok |-> FALSE]
       /\ UNCHANGED <<now, coolExp, level, levelExp, lastSend, lastCool>>
    \/ /\ k \notin SSLKeys
       /\ ~IsKeyExist(k)
       /\ LET lv == CurrentLevel(k)
              d == getCooldownDuration(lv)
          IN /\ coolExp' = [coolExp EXCEPT ![k] = now + d]
             /\ level' = [level EXCEPT ![k] = lv + 1]
             /\ levelExp' = IF Live(levelExp[k]) THEN levelExp
                            ELSE [levelExp EXCEPT ![k] = now + LevelTTL]
             /\ lastCool' = [lastCool EXCEPT ![k] = d]
       /\ lastSend' = [lastSend EXCEPT ![k] = now]
       /\ result' = [k |-> k, ok |-> TRUE]
       /\ UNCHANGED now

checkCanSend(k) ==
    \/ /\ k \in SSLKeys
       /\ result' = [k |-> k, ok |-> TRUE]
       /\ UNCHANGED <<now, coolExp, level, levelExp, lastSend, lastCool>>
    \/ /\ k \notin SSLKeys
       /\ IsKeyExist(k)
       /\ result' = [k |-> k, ok |-> FALSE]
       /\ UNCHANGED <<now, coolExp, level, levelExp, lastSend, lastCool>>
    \/ /\ k \notin SSLKeys
       /\ ~IsKeyExist(k)
       /\ LET lv == CurrentLevel(k)
              d == getCooldownDuration(lv)
          IN /\ coolExp' = [coolExp EXCEPT ![k] = now + d]
             /\ level' = [level EXCEPT ![k] = lv + 1]
             /\ levelExp' = [levelExp EXCEPT ![k] = now + LevelTTL]
             /\ lastCool' = [lastCool EXCEPT ![k] = d]
       /\ lastSend' = [lastSend EXCEPT ![k] = now]
       /\ result' = [k |-> k, ok |-> TRUE]
       /\ UNCHANGED now

\* A minute passes.
Tick ==
    /\ now < MaxTime
    /\ now' = now + 1
    /\ UNCHANGED <<coolExp, level, levelExp, lastSend, lastCool, result>>

Next == Tick \/ \E k \in Keys : checkCanSend(k)

Spec == Init /\ [][Next]_vars

(***************************************************************************)
(* Properties                                                              *)
(***************************************************************************)

NextInterval(d) == IF d = 1 THEN 5 ELSE 15

\* The cooldown ladder of the comment above notifyCooldownIntervals: a
\* key's first send, and any send 30 or more minutes after the previous
\* one, starts a 1-minute cooldown; every other send happens only after
\* the previous cooldown has run out and starts the next longer cooldown,
\* capped at 15 minutes.  It follows from the interplay of the two TTL keys.
CooldownLadder ==
    [][\A k \in Keys \ SSLKeys :
          lastSend'[k] # lastSend[k] =>
              IF lastSend[k] = None \/ now - lastSend[k] >= LevelTTL
              THEN lastCool'[k] = 1
              ELSE /\ now - lastSend[k] >= lastCool[k]
                   /\ lastCool'[k] = NextInterval(lastCool[k])]_vars

=============================================================================
