------------------------------ MODULE MCJsonTree ------------------------------
(* JsonTree and JsonText with small constants.                              *)
EXTENDS JsonTree

One == <<"1">>
Name == <<"a">>
Quoted == <<"a", Quote>>

\* {"a": [1, true]}, {a:"\n",a:1} with a bare key twice, [null, {}] with
\* space, a member that is malformed, and a value that is.
SmallTexts == {
    <<"{", Quote, "a", Quote, ":", "[", "1", ",", "true", "]", "}">>,
    <<"{", "a", ":", Quote, Backslash, "n", Quote, ",", "a", ":", "1", "}">>,
    <<"[", "null", " ", ",", "{", "}", "]">>,
    <<"[", "1", " ", "1", "]">>,
    <<"[", "-", ",", "true", "1", "]">> }

SmallLeaves == {<<"string", Quoted>>, Array(<<>>), Object(<<>>)}
SmallKeys == {Name, Quoted, One}

=============================================================================
