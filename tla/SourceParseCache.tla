-------------------------- MODULE SourceParseCache --------------------------
(***************************************************************************)
(* The caller-owned cache of parse results                                 *)
(* (crates/mncs-compiler/src/source_parse_cache.rs).                       *)
(*                                                                         *)
(* A build service parses sources through the cache, writes it to a file   *)
(* and restores it in a later process, possibly of another compiler        *)
(* version.  The file may have been damaged, or hold an entry twice.       *)
(*                                                                         *)
(* Abstracted: what the parser, the lexer and the rebasing of locations    *)
(* compute is given by constants (Sig, Clean, Parses, Rebasable); a digest *)
(* is what it digests; the parser policy, the profile registry and the     *)
(* three syntax schemas change together, as one version; profile and       *)
(* artifact kind are one value.                                            *)
(***************************************************************************)
EXTENDS Integers, Sequences, FiniteSets, SequencesExt

CONSTANTS
    Envelopes,             \* source envelopes; an envelope is its identity
    Text, Profile,         \* envelope -> its text, its profile
    Sealed,                \* envelopes whose identity is valid
    Sig,                   \* text -> its significant tokens
    Clean,                 \* texts lexed without diagnostics
    Parses,                \* <<text, profile>> with a valid parse output
    Rebasable,             \* <<old text, new text>> whose locations can be rebased
    SizeOf,                \* text -> size of its entry
    Versions,              \* compiler versions
    MaxEntries, MaxBytes,  \* limits of the cache
    MaxDamage,             \* bound of the model: times the file is damaged
    None

Texts == {Text[e] : e \in Envelopes}
Profiles == {Profile[e] : e \in Envelopes}

ASSUME ConstantsAssumption ==
    /\ IsFiniteSet(Envelopes) /\ Sealed \subseteq Envelopes
    /\ Clean \subseteq Texts /\ Parses \subseteq Texts \X Profiles
    /\ Rebasable \subseteq Texts \X Texts
    /\ \A r \in Rebasable : Sig[r[1]] = Sig[r[2]]
    \* The parser sees the significant tokens only.
    /\ \A r \in Parses, t \in Clean : Sig[t] = Sig[r[1]] => <<t, r[2]>> \in Parses
    /\ \A t \in Texts : SizeOf[t] \in Nat \ {0}
    /\ MaxEntries \in Nat /\ MaxBytes \in Nat /\ MaxDamage \in Nat

VARIABLES
    version,   \* version of the running compiler
    schema,    \* version whose cache schema the cache carries
    entries,   \* least recently used first
    sizes,     \* entry_sizes, kept beside entries and not written to the file
    answer,    \* the last call: [env, version, out, how, obs], or None
    damage

vars == <<version, schema, entries, sizes, answer, damage>>

-----------------------------------------------------------------------------
\* The parser

\* A valid tree depends on the significant tokens only; diagnostics on the text.
Tree(t, p, v) ==
    [valid |-> <<t, p>> \in Parses, profile |-> p, version |-> v,
     of |-> IF <<t, p>> \in Parses THEN Sig[t] ELSE t]

Parse(e, v) == [text |-> Text[e], id |-> e, tree |-> Tree(Text[e], Profile[e], v)]

Key(t, p, v) == <<t, p, v>>

\* `damaged` is a history variable: no guard reads it.
EntryOf(e, v) ==
    [key |-> Key(Text[e], Profile[e], v), id |-> e, profile |-> Profile[e],
     version |-> v, sig |-> Sig[Text[e]], digest |-> Parse(e, v),
     output |-> Parse(e, v), damaged |-> FALSE]

NewEntry(e) == EntryOf(e, version)

-----------------------------------------------------------------------------
\* The guards of reuse

EntryMatches(x, e) ==
    /\ x.key = Key(Text[e], Profile[e], version)
    /\ x.profile = Profile[e] /\ x.version = version
    /\ x.sig = Sig[x.output.text]
    /\ x.output.id = x.id /\ x.output.text = Text[e]
    /\ x.digest = x.output

SemanticCandidate(x, e) ==
    x.profile = Profile[e] /\ x.version = version /\ x.sig = Sig[Text[e]]

\* Variant: the key of the entry is not recomputed from its output.
EntryMatchesTokens_KeyTrusted(x, e) ==
    /\ SemanticCandidate(x, e)
    /\ x.output.tree.valid
    /\ x.output.id = x.id
    /\ x.sig = Sig[x.output.text]
    /\ x.digest = x.output
    /\ Sig[x.output.text] = Sig[Text[e]]

EntryMatchesTokens(x, e) ==
    /\ SemanticCandidate(x, e)
    /\ x.output.tree.valid
    /\ x.output.id = x.id
    /\ x.sig = Sig[x.output.text]
    /\ x.key = Key(x.output.text, x.profile, version)
    /\ x.digest = x.output
    /\ Sig[x.output.text] = Sig[Text[e]]

\* rebase_parse_output: the cached tree with the locations of the new text.
Rebase(out, e) == [out EXCEPT !.text = Text[e], !.id = e]
CanRebase(out, e) == <<out.text, Text[e]>> \in Rebasable

-----------------------------------------------------------------------------
\* Bounds

\* serialized_entry_size, and what stands for an entry beyond the limit.
EntrySize(x) == IF SizeOf[x.output.text] <= MaxBytes THEN SizeOf[x.output.text] ELSE MaxBytes + 1
Total(s) ==
    LET upTo[k \in 0 .. Len(s)] == IF k = 0 THEN 0 ELSE upTo[k - 1] + s[k]
    IN  upTo[Len(s)]
Drop(s, n) == SubSeq(s, n + 1, Len(s))

\* Variant: the sizes of the youngest are drained.
DrainedSizes_Youngest(xs, ss, excess) ==
    IF Len(ss) = Len(xs) THEN SubSeq(ss, 1, Len(ss) - excess) ELSE <<>>

\* Sizes after the oldest entries were drained; a list that was not aligned
\* is discarded, to be rebuilt.
DrainedSizes(xs, ss, excess) == IF Len(ss) = Len(xs) THEN Drop(ss, excess) ELSE <<>>

EnsureSizes(xs, ss) == IF Len(ss) = Len(xs) THEN ss ELSE [i \in DOMAIN xs |-> EntrySize(xs[i])]

\* trim_bounded: the oldest go until both limits hold.
Trim(xs, ss) ==
    LET excess == IF Len(xs) > MaxEntries THEN Len(xs) - MaxEntries ELSE 0
        ys == Drop(xs, excess)
        ts == EnsureSizes(ys, IF excess > 0 THEN DrainedSizes(xs, ss, excess) ELSE ss)
        n == Min({k \in 0 .. Len(ys) : Total(Drop(ts, k)) <= MaxBytes})
    IN  [entries |-> Drop(ys, n), sizes |-> Drop(ts, n), removed |-> excess + n]

-----------------------------------------------------------------------------
\* parse()

\* The elements at the positions of s that are not in I, in their order.
Nth(K, k, s) == Min({i \in DOMAIN s : Cardinality({j \in K : j <= i}) >= k})
Without(s, I) ==
    LET keep == DOMAIN s \ I
    IN  [k \in 1 .. Cardinality(keep) |-> s[Nth(keep, k, s)]]

\* A cache of another schema is emptied; then the limits are enforced.
Opened ==
    LET stale == schema # version
        t == IF stale THEN Trim(<<>>, <<>>) ELSE Trim(entries, sizes)
    IN  [entries |-> t.entries, sizes |-> t.sizes, evicted |-> t.removed,
         rejected |-> IF stale THEN Len(entries) ELSE 0]

\* Entries with the key of e, which are reused or rejected.
Exact(c, e) ==
    {i \in DOMAIN c.entries : /\ e \in Sealed
                              /\ c.entries[i].key = Key(Text[e], Profile[e], version)}


Rejected(c, I) ==
    [entries |-> Without(c.entries, I), sizes |-> Without(c.sizes, I),
     evicted |-> c.evicted, rejected |-> c.rejected + Cardinality(I)]

ExactHit(c, e) ==
    LET I == Exact(c, e)
    IN  Cardinality(I) = 1 /\ \A i \in I : EntryMatches(c.entries[i], e)

Candidates(c, e) ==
    {i \in DOMAIN c.entries : /\ e \in Sealed /\ Text[e] \in Clean
                              /\ SemanticCandidate(c.entries[i], e)}

TokenHit(c, e) ==
    LET I == Candidates(c, e)
    IN  /\ Cardinality(I) = 1
        /\ \A i \in I : /\ EntryMatchesTokens(c.entries[i], e)
                        /\ CanRebase(c.entries[i].output, e)

\* The used entry moves to the young end.
Promote(s, i) == Append(RemoveAt(s, i), s[i])

Result(e, out, how, c, published) ==
    [env |-> e, version |-> version, out |-> out, how |-> how,
     obs |-> [before |-> Len(entries), evicted |-> c.evicted, rejected |-> c.rejected,
              published |-> published]]


Reuse(e, c, i, out, how) ==
    /\ entries' = Promote(c.entries, i) /\ sizes' = Promote(c.sizes, i)
    /\ answer' = Result(e, out, how, c, 0)
    /\ schema' = version
    /\ UNCHANGED <<version, damage>>

\* The three outcomes of a call on the opened cache c0.  (A quantifier over one
\* value names it, as LET does, and has TLC compute it once.)

ReuseExact(c0, e) ==
    /\ ExactHit(c0, e)
    /\ \E i \in Exact(c0, e) :
          Reuse(e, c0, i, [c0.entries[i].output EXCEPT !.id = e], "exact")

ReuseTokens(c0, e) ==
    /\ ~ExactHit(c0, e)
    /\ \E c \in {Rejected(c0, Exact(c0, e))} :
          /\ TokenHit(c, e)
          /\ \E i \in Candidates(c, e) :
                Reuse(e, c, i, Rebase(c.entries[i].output, e), "tokens")

\* A fresh parse, published unless the envelope is not sealed or the entry
\* alone exceeds the byte limit.
Publishable(e) == e \in Sealed /\ SizeOf[Text[e]] <= MaxBytes

Published(c, e) == Trim(Append(c.entries, NewEntry(e)),
                        Append(EnsureSizes(c.entries, c.sizes), SizeOf[Text[e]]))

ParseFresh(c0, e) ==
    /\ ~ExactHit(c0, e)
    /\ \E c1 \in {Rejected(c0, Exact(c0, e))} :
       \E c2 \in {Rejected(c1, Candidates(c1, e))} :
          /\ ~TokenHit(c1, e)
          /\ \/ /\ Publishable(e)
                /\ \E t \in {Published(c2, e)} :
                      /\ entries' = t.entries /\ sizes' = t.sizes
                      /\ answer' = Result(e, Parse(e, version), "parsed",
                                          [c2 EXCEPT !.evicted = c2.evicted + t.removed],
                                          IF \E i \in DOMAIN t.entries :
                                                t.entries[i].key = NewEntry(e).key
                                          THEN 1 ELSE 0)
             \/ /\ ~Publishable(e)
                /\ entries' = c2.entries /\ sizes' = c2.sizes
                /\ answer' = Result(e, Parse(e, version), "parsed", c2, 0)
    /\ schema' = version
    /\ UNCHANGED <<version, damage>>

-----------------------------------------------------------------------------
\* The build service and the file it keeps the cache in

Init ==
    /\ version \in Versions /\ schema = version
    /\ entries = <<>> /\ sizes = <<>> /\ answer = None /\ damage = 0

\* A later process of the same version restores the cache; sizes are not kept.
Restart ==
    /\ sizes' = <<>>
    /\ UNCHANGED <<version, schema, entries, answer, damage>>

\* The compiler is replaced; the cache schema changes or stays.
Upgrade(v) ==
    /\ v # version
    /\ version' = v /\ schema' \in {schema, v}
    /\ sizes' = <<>> /\ answer' = None
    /\ UNCHANGED <<entries, damage>>

\* One field of an entry in the file is lost to another value, at most once in
\* each entry: two losses that agree with each other make another entry of it.
Damaged(x) ==
    {[x EXCEPT !.key = Key(t, p, v)] : t \in Texts, p \in Profiles, v \in Versions}
    \cup {[x EXCEPT !.profile = p] : p \in Profiles}
    \cup {[x EXCEPT !.version = v] : v \in Versions}
    \cup {[x EXCEPT !.sig = Sig[t]] : t \in Texts}
    \cup {[x EXCEPT !.id = e] : e \in Envelopes}
    \cup {[x EXCEPT !.output = Parse(e, v)] : e \in Envelopes, v \in Versions}
    \cup {[x EXCEPT !.digest = Parse(e, v)] : e \in Envelopes, v \in Versions}

Damage(i) ==
    /\ damage < MaxDamage
    /\ ~entries[i].damaged
    /\ \E y \in Damaged(entries[i]) :
          entries' = [entries EXCEPT ![i] = [y EXCEPT !.damaged = TRUE]]
    /\ damage' = damage + 1
    /\ sizes' = <<>> /\ answer' = None
    /\ UNCHANGED <<version, schema>>

\* An entry is in the file twice.
Duplicate(i) ==
    /\ damage < MaxDamage
    /\ entries' = Cons(entries[i], entries)
    /\ damage' = damage + 1
    /\ sizes' = <<>> /\ answer' = None
    /\ UNCHANGED <<version, schema>>

ParseCall ==
    \E c0 \in {Opened}, e \in Envelopes :
        ReuseExact(c0, e) \/ ReuseTokens(c0, e) \/ ParseFresh(c0, e)

Next ==
    \/ ParseCall
    \/ Restart
    \/ \E v \in Versions : Upgrade(v)
    \/ \E i \in DOMAIN entries : Damage(i) \/ Duplicate(i)

Spec == Init /\ [][Next]_vars

-----------------------------------------------------------------------------
\* Properties

Answered == answer # None

TypeOK ==
    /\ version \in Versions /\ schema \in Versions /\ damage \in 0 .. MaxDamage
    /\ \A i \in DOMAIN entries :
          /\ entries[i].key \in Texts \X Profiles \X Versions
          /\ entries[i].id \in Envelopes /\ entries[i].output.text \in Texts
    /\ Len(sizes) \in {0, Len(entries)} /\ \A i \in DOMAIN sizes : sizes[i] \in Nat
    /\ Answered => answer.how \in {"exact", "tokens", "parsed"}

\* The cache is transparent: whatever was cached by this or another version,
\* for whichever envelope, and whichever field of an entry was damaged, parse()
\* returns what the running parser would return for this envelope.
Transparent == Answered => answer.out = Parse(answer.env, answer.version)

\* After every call both limits of the cache hold for the entries that are
\* really kept, counted by their own sizes: entry_sizes, which trim_bounded
\* trusts, has stayed aligned with them, whatever was reused, rejected, evicted
\* or restored before.
Own(xs) == [i \in DOMAIN xs |-> EntrySize(xs[i])]
WithinLimits == Answered => Len(entries) <= MaxEntries /\ Total(Own(entries)) <= MaxBytes
=============================================================================
