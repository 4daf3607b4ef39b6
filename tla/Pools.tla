--------------------------------- MODULE Pools ---------------------------------
(***************************************************************************)
(* Memory pools, kernel/gc.hpp.  What is allocated is in the pool that is  *)
(* current in the thread, and goes with it.                                *)
(*                                                                         *)
(* The pools are a record: parent, of the pools there are, by their names, *)
(* NoPool if they have none; current, the pool of each thread; objects,    *)
(* what is allocated, by its name, in which pool.  A pool is destroyed     *)
(* with its children and what is in them.                                  *)
(***************************************************************************)
EXTENDS SequencesExt

NoPool == <<>>
ThreadPool(t) == <<t>>
apr_pool_create(ps, p, parent) == [ps EXCEPT !.parent = (p :> parent) @@ @]
RECURSIVE IsIn(_, _, _)
IsIn(ps, q, p) == q # NoPool /\ (q = p \/ IsIn(ps, ps.parent[q], p))
apr_pool_destroy(ps, p) ==
    LET kept == {q \in DOMAIN ps.parent : ~IsIn(ps, q, p)}
    IN [ps EXCEPT !.parent = Restrict(@, kept), !.objects = Restrict(@, {o \in DOMAIN @ : @[o] \in kept})]

gc_push_pool(ps, t, p) == [ps EXCEPT !.current[t] = p]
gc_pop_pool(ps, t, prev) == [ps EXCEPT !.current[t] = prev]
\* A thread without a current pool gets one of its own.
gc_current_pool(ps, t) ==
    IF ps.current[t] # NoPool THEN ps
    ELSE gc_push_pool(apr_pool_create(ps, ThreadPool(t), NoPool), t, ThreadPool(t))
Current(ps, t) == gc_current_pool(ps, t).current[t]

\* A child of the current pool, and one that lasts for a scope; neither becomes current.
gc_child_pool(ps, t, p) == apr_pool_create(gc_current_pool(ps, t), p, Current(ps, t))
gc_local_pool_end(ps, p) == apr_pool_destroy(ps, p)

\* A pool that is current for a scope: one that is there, or, owned, a child of the current pool.
gc_scoped_pool(ps, t, p) == gc_push_pool(gc_current_pool(ps, t), t, p)
gc_owned_pool(ps, t, p) == gc_push_pool(gc_child_pool(ps, t, p), t, p)
\* Mutant: the pool of the scope stays current.
gc_scoped_pool_kept(ps, t, p, prev, owner) == IF owner THEN apr_pool_destroy(ps, p) ELSE ps
gc_scoped_pool_end(ps, t, p, prev, owner) ==
    gc_pop_pool(IF owner THEN apr_pool_destroy(ps, p) ELSE ps, t, prev)

gc_new(ps, t, o) == LET at == gc_current_pool(ps, t) IN [at EXCEPT !.objects = (o :> at.current[t]) @@ @]
gc_new_in(ps, p, o) == [ps EXCEPT !.objects = (o :> p) @@ @]

\* What a thread has for itself, as the session of a client, is in the pool in which the component started.
\* Mutant: it is in the pool of the request that first asks for it.
NewInRequest(ps, t, cp, o) == gc_new(gc_child_pool(ps, t, cp \o o), t, o)
newInPool(ps, t, cp, o) ==
    LET sp == gc_scoped_pool(ps, t, cp)
    IN gc_scoped_pool_end(gc_new(gc_child_pool(sp, t, cp \o o), t, o), t, cp, Current(ps, t), FALSE)

\* In a build that logs, a message is logged in a scope of its own.
debugLog(ps, t) ==
    LET p == Current(ps, t) \o <<"log">>
    IN gc_scoped_pool_end(gc_new(gc_owned_pool(ps, t, p), t, p), t, p, Current(ps, t), TRUE)

\* What is read from memcached is in a pool of its own, and the value that is read of it is not.
getItem(ps, t, o) ==
    LET p == Current(ps, t) \o <<"local">>
        read == gc_new_in(gc_child_pool(ps, t, p), p, p)
    IN gc_local_pool_end(gc_new(read, t, o), p)

\* A handler works in the pool of its request, which httpd makes and destroys.
beginRequest(ps, t, root) ==
    LET p == root \o <<t>> IN gc_scoped_pool(apr_pool_create(ps, p, root), t, p)
endRequest(ps, t, root, prev) ==
    LET p == root \o <<t>> IN apr_pool_destroy(gc_scoped_pool_end(ps, t, p, prev, FALSE), p)
=============================================================================
