--------------------------- MODULE FragmentRouting ---------------------------
(***************************************************************************)
(* Key routing and log-replica placement of the cluster configuration      *)
(* (src/common/nova_config.h).                                             *)
(*                                                                         *)
(* A configuration is a sequence of fragments with half-open key ranges,   *)
(* sorted by key_start (ReadFragments).  home_fragment(key) is a binary    *)
(* search over it with uint32 indices l and r; each iteration of its loop  *)
(* is one step here, so the search is checked for every configuration and *)
(* key, including its termination.  ComputeLogReplicaLocations walks all   *)
(* fragments with one round-robin cursor over the StoC list, skipping this *)
(* node, and asserts the replicas of each fragment are distinct.           *)
(***************************************************************************)
EXTENDS Naturals, Sequences, FiniteSets, TLC

CONSTANTS
  IdxBits,       \* bits of the uint32 l, r and m
  MaxFrags,      \* bound: fragments in the configuration
  RangeSizes,    \* sizes of a fragment's key range
  NumStoCs,      \* bound: stoc_servers.size()
  MaxReplicas    \* bound: num_log_replicas

ASSUME /\ IdxBits \in Nat \ {0} /\ MaxFrags \in 1..(2^IdxBits - 1)
       /\ RangeSizes \subseteq Nat \ {0}
       /\ NumStoCs \in Nat \ {0} /\ MaxReplicas \in Nat \ {0}

U(x) == x % (2^IdxBits)
None == 0

\* Fragments with contiguous ranges starting at key 0, as the fragment files
\* describe them.
RECURSIVE Layout(_, _)
Layout(sizes, start) ==
  IF sizes = <<>> THEN <<>>
  ELSE <<[key_start |-> start, key_end |-> start + Head(sizes)]>>
         \o Layout(Tail(sizes), start + Head(sizes))

Configs == UNION {{Layout(s, 0) : s \in [1..n -> RangeSizes]} : n \in 1..MaxFrags}

VARIABLES
  frags,     \* cfg->fragments (0-based index i is frags[i + 1])
  key,       \* the key looked up
  l, r,      \* the search bounds
  home,      \* index of the fragment last probed, or None
  done,      \* the search has returned
  crashed,   \* fragments[m] read out of bounds
  me,        \* index of this node in stoc_servers, or None if it is no StoC
  nreplicas, \* num_log_replicas
  replicas,  \* per fragment: log_replica_stoc_ids, after placement
  placed,    \* ComputeLogReplicaLocations has run
  asserted   \* one of its NOVA_ASSERTs failed

vars == <<frags, key, l, r, home, done, crashed, me, nreplicas, replicas,
          placed, asserted>>

TypeOK ==
  /\ frags \in Configs
  /\ l \in 0..(2^IdxBits - 1) /\ r \in 0..(2^IdxBits - 1)
  /\ home \in 0..(2^IdxBits - 1) \cup {None}
  /\ done \in BOOLEAN /\ crashed \in BOOLEAN
  /\ me \in 0..NumStoCs /\ nreplicas \in 1..MaxReplicas
  /\ replicas \in Seq(Seq(0..(NumStoCs - 1)))
  /\ placed \in BOOLEAN /\ asserted \in BOOLEAN

LastEnd == frags[Len(frags)].key_end

-----------------------------------------------------------------------------
(* home_fragment, lines 155-180.                                           *)

\* Mutant: a key equal to key_start is not taken as inside the range.
InRangeExclusive(k, f) == k > f.key_start /\ k < f.key_end

\* key >= key_start && key < key_end, line 168.
InRange(k, f) == k >= f.key_start /\ k < f.key_end

\* Mutant: l = m instead of m + 1.
SearchStepNoAdvance ==
  /\ ~done /\ ~crashed /\ l <= r
  /\ LET m == U(l + (r - l) \div 2) IN
     IF m >= Len(frags)
     THEN /\ crashed' = TRUE
          /\ UNCHANGED <<l, r, home, done>>
     ELSE LET f == frags[m + 1] IN
          /\ home' = m
          /\ CASE InRange(key, f)     -> done' = TRUE /\ UNCHANGED <<l, r>>
               [] key >= f.key_end    -> l' = m /\ UNCHANGED <<r, done>>
               [] OTHER               -> r' = U(m + 1 + 2^IdxBits - 2) /\ UNCHANGED <<l, done>>
          /\ UNCHANGED crashed
  /\ UNCHANGED <<frags, key, me, nreplicas, replicas, placed, asserted>>

\* One iteration of the while loop, lines 164-178; m = l + (r - l) / 2 and
\* r = m - 1 are uint32 arithmetic.
SearchStep ==
  /\ ~done /\ ~crashed /\ l <= r
  /\ LET m == U(l + (r - l) \div 2) IN
     IF m >= Len(frags)
     THEN /\ crashed' = TRUE
          /\ UNCHANGED <<l, r, home, done>>
     ELSE LET f == frags[m + 1] IN
          /\ home' = m
          /\ CASE InRange(key, f)     -> done' = TRUE /\ UNCHANGED <<l, r>>
               [] key >= f.key_end    -> l' = U(m + 1) /\ UNCHANGED <<r, done>>
               [] OTHER               -> r' = U(m + 1 + 2^IdxBits - 2) /\ UNCHANGED <<l, done>>
          /\ UNCHANGED crashed
  /\ UNCHANGED <<frags, key, me, nreplicas, replicas, placed, asserted>>

\* The loop exits with l > r and returns the fragment last probed.
SearchExit ==
  /\ ~done /\ ~crashed /\ l > r
  /\ done' = TRUE
  /\ UNCHANGED <<frags, key, l, r, home, crashed, me, nreplicas, replicas,
                 placed, asserted>>

-----------------------------------------------------------------------------
(* ComputeLogReplicaLocations, lines 84-110.                               *)

\* Mutant: the skip over this node does not wrap around the list.
RECURSIVE PickReplicasNoWrap(_, _, _)
PickReplicasNoWrap(s, k, acc) ==
  IF k = 0 THEN [ids |-> acc, next |-> s]
  ELSE LET s1 == IF s = me THEN s + 1 ELSE s
       IN  PickReplicasNoWrap((s1 + 1) % NumStoCs, k - 1, Append(acc, s1))

\* The replicas of one fragment from cursor s: skip this node's index once
\* (lines 91-95), take the cursor, advance it round-robin (lines 99-103).
\* Returns [ids, next].
RECURSIVE PickReplicas(_, _, _)
PickReplicas(s, k, acc) ==
  IF k = 0 THEN [ids |-> acc, next |-> s]
  ELSE LET s1 == IF s = me THEN (s + 1) % NumStoCs ELSE s
       IN  PickReplicas((s1 + 1) % NumStoCs, k - 1, Append(acc, s1))

\* Mutant: the cursor restarts at 0 for every fragment.
RECURSIVE PlaceAllRestart(_, _)
PlaceAllRestart(n, s) ==
  IF n = 0 THEN <<>>
  ELSE LET p == PickReplicas(0, nreplicas, <<>>)
       IN  <<p.ids>> \o PlaceAllRestart(n - 1, p.next)

\* The loop over fragments (lines 86-108), the cursor carried across them.
RECURSIVE PlaceAll(_, _)
PlaceAll(n, s) ==
  IF n = 0 THEN <<>>
  ELSE LET p == PickReplicas(s, nreplicas, <<>>)
       IN  <<p.ids>> \o PlaceAll(n - 1, p.next)

Range(s) == {s[i] : i \in DOMAIN s}

\* The whole placement with its asserts: no replica is this node (line 96)
\* and each fragment's replicas are distinct (lines 105-107).
Place ==
  /\ ~placed
  /\ LET pl == PlaceAll(Len(frags), 0) IN
     /\ replicas' = pl
     /\ asserted' = \E i \in DOMAIN pl :
                      me \in Range(pl[i]) \/ Cardinality(Range(pl[i])) # nreplicas
  /\ placed' = TRUE
  /\ UNCHANGED <<frags, key, l, r, home, done, crashed, me, nreplicas>>

-----------------------------------------------------------------------------
(* ParseNumberOfDatabases, lines 52-70, called by ReadFragments for every  *)
(* configuration.  A fragment's owner is its ltc_server_id, this server    *)
(* or another, and its dbid.                                               *)

Owners == {"self", "other"} \X (0..(MaxFrags - 1))
OwnerTables == UNION {[1..n -> Owners] : n \in 1..MaxFrags}
NullFrag == 0

\* Lines 64-68 over db_fragments resized to n null entries: the i-th
\* fragment, if this server's, is stored at its dbid; a dbid >= n writes
\* past the end of the vector.  Fragments are numbered from 1 here.
RECURSIVE DbFragmentWrites(_, _, _)
DbFragmentWrites(fs, i, acc) ==
  IF i > Len(fs) THEN acc
  ELSE DbFragmentWrites(fs, i + 1,
         IF fs[i][1] # "self" THEN acc
         ELSE IF fs[i][2] \in DOMAIN acc.slots
              THEN [acc EXCEPT !.slots[fs[i][2]] = i]
              ELSE [acc EXCEPT !.oob = TRUE])

\* Mutant: the distinct dbids are counted over every server's fragments.
ParseNumberOfDatabasesAllServers(fs) ==
  LET n == Cardinality({fs[i][2] : i \in DOMAIN fs})
  IN  [n |-> n] @@ DbFragmentWrites(fs, 1,
                    [slots |-> [d \in 0..(n - 1) |-> NullFrag], oob |-> FALSE])

\* Lines 56-61 count the distinct dbids of this server's fragments, line 62
\* resizes db_fragments to that count, and lines 64-68 fill it.
ParseNumberOfDatabases(fs) ==
  LET n == Cardinality({fs[i][2] : i \in {j \in DOMAIN fs : fs[j][1] = "self"}})
  IN  [n |-> n] @@ DbFragmentWrites(fs, 1,
                    [slots |-> [d \in 0..(n - 1) |-> NullFrag], oob |-> FALSE])

-----------------------------------------------------------------------------

\* A configuration, a key the assert on line 159 admits, this node's place
\* among the StoCs (me = NumStoCs: not a StoC) and the replica count.
Init ==
  /\ frags \in Configs
  /\ key \in 0..LastEnd
  /\ l = 0 /\ r = U(Len(frags) + 2^IdxBits - 1)
  /\ home = None /\ done = FALSE /\ crashed = FALSE
  /\ me \in 0..NumStoCs
  /\ nreplicas \in 1..MaxReplicas
  /\ replicas = <<>> /\ placed = FALSE /\ asserted = FALSE

Next == SearchStep \/ SearchExit \/ Place

Spec == Init /\ [][Next]_vars /\ WF_vars(SearchStep \/ SearchExit)

-----------------------------------------------------------------------------
(* Properties.                                                             *)

\* Reference: the fragment whose half-open range holds k.
Owner(k) == CHOOSE i \in 0..(Len(frags) - 1) :
              frags[i + 1].key_start <= k /\ k < frags[i + 1].key_end

\* home_fragment returns the fragment whose half-open range contains the
\* key, for every configuration and every key below the last key_end, and
\* never reads outside cfg->fragments while its uint32 bounds move.  The
\* key equal to the last key_end, which the assert on line 158 admits but
\* no range holds, goes right at every probe and gets the last fragment.
HomeFragmentCorrect ==
  done =>
    /\ ~crashed
    /\ home = IF key < LastEnd THEN Owner(key) ELSE Len(frags) - 1

\* home_fragment always returns: the loop cannot cycle.
SearchTerminates == <>(done \/ crashed)

\* Reference: the StoC indices other than this node, in list order.
Others == SelectSeq([i \in 1..NumStoCs |-> i - 1], LAMBDA x : x # me)

\* ComputeLogReplicaLocations gives fragment i the next num_log_replicas
\* entries of the cyclic list of StoCs other than this node, continuing
\* where fragment i - 1 stopped; they are distinct, and its asserts fail
\* exactly when there are fewer other StoCs than replicas.
ReplicaPlacementOK ==
  placed =>
    /\ asserted <=> nreplicas > Len(Others)
    /\ ~asserted =>
         \A i \in DOMAIN replicas : \A j \in 1..nreplicas :
           replicas[i][j] = Others[(((i - 1) * nreplicas + j - 1) % Len(Others)) + 1]

\* Reference: the outcome ParseNumberOfDatabases(fs) should have: the number
\* of this server's databases, a write past the end of db_fragments exactly
\* when this server's dbids are not 0..n-1, and otherwise db_fragments[d]
\* at the last of this server's fragments with dbid d.
ParseMatches(fs) ==
  LET res == ParseNumberOfDatabases(fs)
      own == {i \in DOMAIN fs : fs[i][1] = "self"}
      ids == {fs[i][2] : i \in own}
  IN  /\ res.n = Cardinality(ids)
      /\ res.oob <=> ids # 0..(Cardinality(ids) - 1)
      /\ ~res.oob =>
           \A d \in ids :
             res.slots[d] = CHOOSE i \in own : fs[i][2] = d /\ \A j \in own : fs[j][2] = d => j <= i

\* Per table length, whether every owner table of that length parses as the
\* reference says (evaluated once, as it depends on constants only).
ParseCorrectFor == [n \in 1..MaxFrags |-> \A fs \in [1..n -> Owners] : ParseMatches(fs)]

\* ReadFragments' ParseNumberOfDatabases, for every assignment of owners and
\* dbids to a table as long as the current configuration, counts this
\* server's databases, indexes db_fragments out of bounds exactly when this
\* server's dbids are not 0..n-1, and otherwise maps each dbid to its last
\* fragment.
ParseNumberOfDatabasesOK == ParseCorrectFor[Len(frags)]

=============================================================================
