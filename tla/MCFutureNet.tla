----------------------------- MODULE MCFutureNet -----------------------------
(***************************************************************************)
(* Programs that compose futures.  The source futures are a and b; c is     *)
(* made by a composition, d by another one; n is the second future of       *)
(* then() and fallback().                                                  *)
(***************************************************************************)
EXTENDS FutureNet, TLC

CONSTANTS t1, t2, t3, a, b, c, d, n, k1, k2, soon

Combine(kind, src, dst, next, raises) ==
  [kind |-> kind, src |-> src, dst |-> dst, next |-> next, raises |-> raises]

Construct(k, f) == Do("build", f, k)

\* What can happen to a source.
Fates(f) == {Do("set!", f, Ok(f)), Do("set!", f, Failed(f)), Do("set", f, Cancelled)}

NoCalls == {}

-----------------------------------------------------------------------------
(* One thread *)

MapFirst ==
  (k1 :> Combine("map", <<a>>, c, Nothing, FALSE))
  @@ (k2 :> Combine("first", <<b, c>>, d, Nothing, FALSE))

MapFallback ==
  (k1 :> Combine("map", <<a>>, c, Nothing, TRUE))
  @@ (k2 :> Combine("fallback", <<c>>, d, n, FALSE))

ThenRecover ==
  (k1 :> Combine("then", <<a>>, c, n, FALSE))
  @@ (k2 :> Combine("recover", <<c>>, d, Nothing, FALSE))

GatherSuccessful ==
  (k1 :> Combine("gather", <<a, b>>, c, Nothing, FALSE))
  @@ (k2 :> Combine("first_successful", <<a, b>>, d, Nothing, FALSE))

\* One thread completes two futures, builds the net and cancels what it made.
OneThread(net, fate1, fate2) ==
  [net |-> net,
   calls |-> (t1 :> {fate1, fate2}
                    \cup {Construct(k, net[k].dst) : k \in DOMAIN net}
                    \cup {Cancel(net[k].dst) : k \in DOMAIN net})
             @@ (t2 :> NoCalls) @@ (t3 :> NoCalls)]

\* The user completes c, although map() was to do it, instead of cancelling it.
Intruder(prog) ==
  [prog EXCEPT !.calls[t1] = (@ \ {Cancel(c)}) \cup {Do("set!", c, Ok(c))}]

-----------------------------------------------------------------------------
(* Several threads *)

\* reduce() is a gather() followed by a map().  Two threads complete the
\* sources, a third one reduces them and waits.
Reduce ==
  [net |-> (k1 :> Combine("gather", <<a, b>>, c, Nothing, FALSE))
           @@ (k2 :> Combine("map", <<c>>, d, Nothing, FALSE)),
   calls |-> (t1 :> {Do("set!", a, Ok(a)), Do("set!", a, Failed(a))})
             @@ (t2 :> {Do("set!", b, Ok(b))})
             @@ (t3 :> {Construct(k1, c), Construct(k2, d), Do("wait", d, Nothing), Do("result", c, soon)})]

\* Two threads complete the sources while a third one combines them and waits
\* for the first success.  Only one succeeds: which of two completions that
\* overlap is the first is not determined.
Race(success, failure) ==
  [net |-> (k1 :> Combine("gather", <<a, b>>, c, Nothing, FALSE))
           @@ (k2 :> Combine("first_successful", <<b, a>>, d, Nothing, FALSE)),
   calls |-> (t1 :> {Do("set!", success, Ok(success))})
             @@ (t2 :> {Do("set!", failure, Failed(failure))})
             @@ (t3 :> {Construct(k1, c), Construct(k2, d), Do("wait", d, Nothing)})]

MCPrograms ==
  UNION {{OneThread(MapFallback, x, y), OneThread(ThenRecover, x, y)} : x \in Fates(a), y \in Fates(n)}
  \cup UNION {{OneThread(GatherSuccessful, x, y), Intruder(OneThread(MapFirst, x, y))} :
                 x \in Fates(a), y \in Fates(b)}
  \cup {Race(a, b), Race(b, a), Reduce}
=============================================================================
