------------------------------ MODULE Pricing -------------------------------
(***************************************************************************)
(* What a request costs (domain/pricing, domain/providers/pricing.py and   *)
(* the providers' compute_cost).  A usage is a record of token counts.  A  *)
(* price table maps a key to its tiers, sorted by maxIn.  A model's name   *)
(* and a key are sequences of parts.  Rates and so costs are integers, of  *)
(* twice the provider's, since half of a price may be charged.             *)
(***************************************************************************)
EXTENDS Integers, FiniteSets, Sequences, FiniteSetsExt, SequencesExt, Functions, Folds

CONSTANTS
  Canonical,  \* Canonical[spelling]: the model that normalize_model makes of it
  LongSuffix, \* the part "[1m]" at the end of a model's name
  Peak,       \* Peak[provider]: its peak hours, or Unknown
  PeakDays,   \* PEAK_WEEKDAYS
  Threshold,  \* UNKNOWN_MODEL_COST_THRESHOLD_USD
  Unknown     \* None: no price, no time

Usage(in, out, cw5m, cw1h, cw, cr) ==
  [in |-> in, out |-> out, cw5m |-> cw5m, cw1h |-> cw1h, cw |-> cw, cr |-> cr]

\* cache_write_split: the breakdown if there is one, else all at the rate of 5
\* minutes.
Split(u) == IF u.cw5m # 0 \/ u.cw1h # 0 THEN <<u.cw5m, u.cw1h>> ELSE <<u.cw, 0>>

NoTokens == Usage(0, 0, 0, 0, 0, 0)
Bucket(msgs, unrecorded, usage, cost, costUnknown) ==
  [msgs |-> msgs, unrecorded |-> unrecorded, usage |-> usage, cost |-> cost,
   costUnknown |-> costUnknown]
NewBucket == Bucket(0, 0, NoTokens, 0, FALSE)

\* Bucket.add: the tokens are counted as they are charged.
BucketOf(u, msgs, unrecorded) ==
  Bucket(msgs, unrecorded, [u EXCEPT !.cw5m = Split(u)[1], !.cw1h = Split(u)[2],
                                     !.cw = Split(u)[1] + Split(u)[2]], 0, FALSE)

PlusUsage(u, v) == [f \in DOMAIN u |-> u[f] + v[f]]

\* Bucket.merge
Merge(b, c) ==
  Bucket(b.msgs + c.msgs, b.unrecorded + c.unrecorded, PlusUsage(b.usage, c.usage),
         b.cost + c.cost, b.costUnknown \/ c.costUnknown)
Merged(S, BucketFor(_)) ==
  MapThenFoldSet(Merge, NewBucket, BucketFor, LAMBDA T : CHOOSE x \in T : TRUE, S)

\* cost_for_tiers: the first tier that is wide enough, or the last.
TierFor(tiers, u) ==
  LET wide == {i \in DOMAIN tiers : u.in <= tiers[i].maxIn} IN
  tiers[IF wide = {} THEN Len(tiers) ELSE Min(wide)]

CostAt(t, s, u) ==
  LET fresh == Max({u.in - s[1] - s[2] - u.cr, 0}) IN
  fresh * t.in + u.out * t.out + s[1] * t.cw5m + s[2] * t.cw1h + u.cr * t.cr
CostForTiers(tiers, u) == CostAt(TierFor(tiers, u), Split(u), u)

WorstCase(table, u) ==
  Max({0} \cup UNION {{CostForTiers(<<table[k][i]>>, u) : i \in DOMAIN table[k]} : k \in DOMAIN table})

\* best_prefix_key: of the keys that extend the query or that it extends, the one
\* that shares most of it, then the shortest, then the greatest.
Greater(k, l) ==
  \E i \in DOMAIN k \cap DOMAIN l : k[i] > l[i] /\ \A j \in 1..(i - 1) : k[j] = l[j]
Better(query, k, l) ==
  LET Shared(x) == Min({Len(x), Len(query)}) IN
  \/ Shared(k) > Shared(l)
  \/ Shared(k) = Shared(l) /\ Len(k) < Len(l)
  \/ Shared(k) = Shared(l) /\ Len(k) = Len(l) /\ Greater(k, l)
Matches(query, keys) == {k \in keys : IsPrefix(k, query) \/ IsPrefix(query, k)}
BestPrefixKey(query, keys) ==
  CHOOSE k \in Matches(query, keys) :
    \A l \in Matches(query, keys) \ {k} : Better(query, k, l)

\* compute_cost: the model as it is, else without its suffix; a model without a
\* price is free if it would be at the dearest rate there is.
Candidates(model) ==
  <<model>> \o IF model # <<>> /\ Last(model) = LongSuffix THEN <<Front(model)>> ELSE <<>>
KnownCost(table, known, u) ==
  CASE DOMAIN table = {} -> Unknown
    [] DOMAIN table # {} /\ known # <<>> ->
         CostForTiers(table[BestPrefixKey(Head(known), DOMAIN table)], u)
    [] OTHER -> IF WorstCase(table, u) < Threshold THEN 0 ELSE Unknown
FlatCost(table, model, u) ==
  KnownCost(table, SelectSeq(Candidates(model), LAMBDA c : Matches(c, DOMAIN table) # {}), u)

\* DeepSeek's: half of it off peak; all of it when the time or the peak is not known.
OffPeak(provider, weekday, hour) ==
  /\ Unknown \notin {weekday, hour, Peak[provider]}
  /\ ~(weekday \in PeakDays /\ hour \in Peak[provider])
AtPeak(flat, off) == IF flat = Unknown \/ off THEN flat ELSE 2 * flat
ComputeCost(tables, provider, model, u, weekday, hour) ==
  AtPeak(IF provider \in DOMAIN tables THEN FlatCost(tables[provider], model, u) ELSE Unknown,
         OffPeak(provider, weekday, hour))

\* Priced: price_buckets' part for one bucket.
Priced(b, cost) ==
  IF cost = Unknown THEN [b EXCEPT !.costUnknown = TRUE] ELSE [b EXCEPT !.cost = @ + cost]

=============================================================================
