------------------------------ MODULE RedisOps ------------------------------
(***************************************************************************)
(* The Lua scripts of core/storage/redis.py as pure functions.  Each runs  *)
(* as one step of the Redis server.  The arithmetic of the buckets and of  *)
(* GCRA is that of the memory storage, statement for statement; the        *)
(* scripts differ in the sorted set of the sliding window, and in the      *)
(* expiry that they give a key whenever they admit.                        *)
(*                                                                         *)
(* Times, levels and entries are those of StorageOps, but for the sorted   *)
(* set: a sequence of members <<score, unique_id>> in the order of their   *)
(* scores.  AsyncRedisStorage runs the same scripts.                       *)
(***************************************************************************)
EXTENDS StorageOps

CONSTANT BucketTTL   \* the 3600 seconds that bucket keys live

ASSUME BucketTTLAssumption == BucketTTL \in Positive

\* What a script decides and writes, and the lifetime EXPIRE gives the key when
\* the request is admitted.  A denied request leaves the expiry as it was.
Expiring(outcome, ttl) == [outcome |-> outcome, ttl |-> ttl]

\* The cutoff left out: the oldest stamp that counts is kept a tick too long.
Unexpired_mutant(members, cutoff) ==
    LET recent == {i \in DOMAIN members : members[i][1] >= cutoff}
    IN  IF recent = {} THEN <<>> ELSE SubSeq(members, Min(recent), Len(members))

\* ZREMRANGEBYSCORE key -inf max_cutoff
Unexpired(members, cutoff) ==
    LET recent == {i \in DOMAIN members : members[i][1] > cutoff}
    IN  IF recent = {} THEN <<>> ELSE SubSeq(members, Min(recent), Len(members))

\* ZADD: behind the members of the same score, unless the member is there already.
WithMember(members, member) ==
    LET later == {i \in DOMAIN members : members[i][1] > member[1]}
        place == IF later = {} THEN Len(members) + 1 ELSE Min(later)
    IN  IF \E i \in DOMAIN members : members[i] = member THEN members
        ELSE [i \in 1 .. Len(members) + 1 |->
                 IF i < place THEN members[i] ELSE IF i = place THEN member ELSE members[i - 1]]

\* The member is `now .. ':' .. unique_id'.
sliding_window_script(members, window, limit, now, unique_id) ==
    LET recent == Unexpired(members, now - window)
    IN  Expiring(IF Len(recent) < limit
                 THEN Admit(limit - Len(recent) - 1, now + window,
                            WithMember(recent, <<now, unique_id>>))
                 ELSE Deny(recent[1][1] + window, recent),
                 window)

token_bucket_script(entry, capacity, interval, now) ==
    Expiring(token_bucket(entry, capacity, interval, now), BucketTTL)

leaky_bucket_script(entry, capacity, interval, now) ==
    Expiring(leaky_bucket(entry, capacity, interval, now), BucketTTL)

\* The key lives until its last request would have been due.
gcra_script_mutant(entry, capacity, interval, now) ==
    LET outcome == gcra(entry, capacity, interval, now)
    IN  Expiring(outcome, outcome.reset_at - now - interval)

\* PEXPIRE until the theoretical arrival time, reset_at of an admitted request.
gcra_script(entry, capacity, interval, now) ==
    LET outcome == gcra(entry, capacity, interval, now)
    IN  Expiring(outcome, outcome.reset_at - now)

Script(rule, entry, now, unique_id) ==
    CASE rule.algorithm = "sliding_window" ->
             sliding_window_script(entry, rule.window, rule.limit, now, unique_id)
      [] rule.algorithm = "token_bucket" ->
             token_bucket_script(entry, rule.capacity, rule.interval, now)
      [] rule.algorithm = "leaky_bucket" ->
             leaky_bucket_script(entry, rule.capacity, rule.interval, now)
      [] rule.algorithm = "gcra" ->
             gcra_script(entry, rule.capacity, rule.interval, now)
=============================================================================
