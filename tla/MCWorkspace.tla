---------------------------- MODULE MCWorkspace ----------------------------
(***************************************************************************)
(* Workloads of two to four requests for TLC: repeated and concurrent      *)
(* sign-ins and activations, creations under one key, changes of one       *)
(* product under equal, different and reused keys; and additions,          *)
(* validations, selections and revocations of two Graph keys, and saves of *)
(* the model profile with and without a key.                               *)
(***************************************************************************)
EXTENDS WorkspaceKeys

CONSTANTS
  s1, s2, a1, a2, a3, c1, c2, c3, u1, u2, u3, u4, d1, d2, d3,
  n1, n2, n3, v1, v2, v3, x1, x2, x3, x4, r1, r2, p1, p2, p3, stock, g, h

Asks(op, key, product, expected, change) ==
  [op |-> op, key |-> key, product |-> product, expected |-> expected, change |-> change]
SignIn == Asks("sign_in", None, None, 0, None)
Activate(key) == Asks("activate", key, None, 0, None)
Create(key, change) == Asks("create", key, None, 0, change)
Update(key, p, change) == Asks("update", key, p, 1, change)
Delete(key, p) == Asks("delete", key, p, 1, None)
AddKey(label, key) == Asks("add_key", label, None, 0, key)
OfKeyAt(op, k, version) == Asks(op, None, k, version, None)
Save(key, model) == Asks("save_profile", key, None, 0, model)

MCAsk == [r \in Requests |->
  CASE r = s1 -> SignIn
    [] r = s2 -> SignIn
    [] r = a1 -> Activate("k")
    [] r = a2 -> Activate("k")
    [] r = a3 -> Activate("l")
    [] r = c1 -> Create("k", "x")
    [] r = c2 -> Create("k", "x")
    [] r = c3 -> Create("k", "y")
    [] r = u1 -> Update("k", stock, "x")
    [] r = u2 -> Update("k", stock, "x")
    [] r = u3 -> Update("l", stock, "y")
    [] r = u4 -> Update("k", c1, "x")
    [] r = d1 -> Delete("k", stock)
    [] r = d2 -> Delete("k", stock)
    [] r = d3 -> Delete("k", c1)
    [] r = n1 -> AddKey("x", "x")
    [] r = n2 -> AddKey("x", "x")
    [] r = n3 -> AddKey("y", "x")
    [] r = v1 -> OfKeyAt("validate_key", g, 1)
    [] r = v2 -> OfKeyAt("validate_key", g, 2)
    [] r = v3 -> OfKeyAt("validate_key", n1, 0)
    [] r = x1 -> OfKeyAt("select_key", g, 1)
    [] r = x2 -> OfKeyAt("select_key", h, 1)
    [] r = x3 -> OfKeyAt("select_key", g, 2)
    [] r = x4 -> OfKeyAt("select_key", n1, 1)
    [] r = r1 -> OfKeyAt("revoke_key", g, 1)
    [] r = r2 -> OfKeyAt("revoke_key", g, 2)
    [] r = p1 -> Save("x", "m")
    [] r = p2 -> Save("y", "m")
    [] r = p3 -> Save(None, "n")]

MCWorkloads ==
  [requests : {{s1, s2, c1}, {s1, a1, a2}, {s1, c1, c2}}, wallet : {None, "known"}]
  \union
  [requests : {{a1, a2}, {a1, a3}, {c1, c2, c3, d3}, {u1, u2, u3}, {u1, c1, u4},
               {u1, d1, d2}, {u3, d1, c1, d3}, {n1, n2, n3}, {n1, n3, v3, x4},
               {v1, x1, r1}, {x1, x2, v2}, {x1, x2, r2}, {x1, x2, x3}, {p1, p2, p3}},
   wallet : {"known"}]
=============================================================================
