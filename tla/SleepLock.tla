----------------------------- MODULE SleepLock -----------------------------
(* Sleep locks, kernel/sleeplock.c, which buffers and inodes carry. *)
EXTENDS Sleep

CONSTANT Locks    \* a lock is also the channel its waiters sleep on

VARIABLE holder   \* the thread that holds each lock, or Nobody

SleepLockInit == SleepInit /\ holder = [l \in Locks |-> Nobody]

\* acquiresleep(): the lock is free and becomes p's ...
Acquiresleep(p, l) ==
  /\ holder[l] = Nobody
  /\ holder' = [holder EXCEPT ![l] = p]
  /\ UNCHANGED chan

\* ... or p sleeps on it.
Blocksleep(p, l) ==
  /\ holder[l] # Nobody
  /\ Sleep(p, l)
  /\ UNCHANGED holder

\* Seeded fault: releasesleep() wakes nobody.
ReleasesleepSilent(l) ==
  holder' = [holder EXCEPT ![l] = Nobody] /\ UNCHANGED chan

Releasesleep(l) ==
  holder' = [holder EXCEPT ![l] = Nobody] /\ Wakeup(l)

Holdingsleep(p, l) == holder[l] = p
=============================================================================
