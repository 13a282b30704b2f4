----------------------------- MODULE DocumentsMC -----------------------------
(* Two ids, two values, and patches that add, repeat, remove and replace.  *)
EXTENDS Documents

Key(id, value, purposes) == [id |-> id, value |-> value, purposes |-> purposes]
Service(id, value) == [id |-> id, value |-> value]

AddKeys(keys) == [action |-> "add-public-keys", publicKeys |-> keys]
AddService(services) == [action |-> "add-services", services |-> services]
RemoveKeys(ids) == [action |-> "remove-public-keys", ids |-> ids]
RemoveService(ids) == [action |-> "remove-services", ids |-> ids]
Replace(document) == [action |-> "replace", document |-> document]

a1 == Key("a", "v", <<"auth">>)
a2 == Key("a", "w", <<"auth", "agree">>)
b1 == Key("b", "v", <<"agree">>)
s1 == Service("a", "v")
s2 == Service("a", "w")
t1 == Service("b", "v")

MCDeltas ==
  { << >>,
    <<Replace([publicKeys |-> <<a1>>, services |-> <<s1>>])>>,
    <<Replace([publicKeys |-> <<b1, a1>>])>>,
    <<Replace([services |-> <<t1>>]), AddKeys(<<a2>>)>>,
    <<AddKeys(<<b1, a2>>)>>,
    <<AddKeys(<<a1>>), RemoveKeys({"a", "b"})>>,
    <<RemoveKeys({"a"}), AddService(<<t1, s2>>)>>,
    <<AddService(<<s1>>)>>,
    <<RemoveService({"b"}), RemoveKeys({"b"})>>,
    <<AddKeys(<<a1, a2>>)>>,
    <<AddService(<<s1, s2>>)>>,
    <<Replace([publicKeys |-> <<Key("a", "v", <<"auth", "auth">>)>>])>>,
    <<AddService(<<s1>>), [action |-> "other"]>>,
    <<Replace([services |-> <<s1, s1>>])>>,
    <<Replace([publicKeys |-> <<b1, b1>>, other |-> << >>])>>,
    <<AddKeys(<<Key("bad", "v", << >>)>>)>>,
    <<AddKeys(<<Key("a", "bad", << >>)>>)>>,
    <<RemoveKeys({"bad"})>> }
==============================================================================
