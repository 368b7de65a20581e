---------------------------- MODULE MCCbtStorage ----------------------------
(* Small instances of CbtStorage for TLC. *)
EXTENDS CbtStorage, TLC

CONSTANTS n1, n2, a, b, old, new, u1

Object(ns, uid, body) == [ns |-> ns, uid |-> uid, body |-> body]

Create(n, o)    == [op |-> "create", name |-> n, obj |-> o, uid |-> NoUID, rv |-> 0]
Put(n, o, rv)   == [op |-> "update", name |-> n, obj |-> o, uid |-> NoUID, rv |-> rv]
Delete(n, u, v) == [op |-> "delete", name |-> n, obj |-> Object(a, NoUID, old),
                    uid |-> u, rv |-> v]
Get(n)          == [op |-> "get", name |-> n, obj |-> Object(a, NoUID, old),
                    uid |-> NoUID, rv |-> 0]

\* One name fought over: created and put with the same and with other
\* content, with and without a uid, deleted with and without preconditions.
ContendedCalls ==
  { Create(n1, Object(a, u1, old)),
    Put(n1, Object(a, u1, old), 0),
    Put(n1, Object(a, NoUID, new), 1),
    Delete(n1, NoUID, 0),
    Delete(n1, u1, 1) }

\* Two names, two namespaces, and a create that carries a
\* resourceVersion.
MixedCalls ==
  { Create(n1, Object(a, NoUID, old)),
    Create(n1, Object(b, NoUID, old)),
    [Create(n2, Object(b, NoUID, new)) EXCEPT !.rv = 1],
    Put(n2, Object(b, u1, old), 0),
    Put(n1, Object(a, NoUID, new), 1),
    Delete(n2, u1, 0),
    Get(n1) }

\* One client puts back what it made of the version that was created, another
\* replaces the object in between.
StaleCalls ==
  { Create(n1, Object(a, NoUID, old)),
    Put(n1, Object(a, NoUID, new), 0),
    Put(n1, Object(a, NoUID, old), 1) }

Symmetric == Permutations(Requests)
=============================================================================
