---------------------------- MODULE MCMongooseHttp ----------------------------
(* Two connection blocks, two API names of which one is a prefix of the   *)
(* other ("a" and "ab"), and requests for each name, for a sub-path, and  *)
(* outside "/api/".                                                        *)
EXTENDS MongooseHttp

CONSTANTS a, b, slash

MCNames == {<<a>>, <<a, b>>}

MCUris == {<<a>>, <<a, b>>, <<a, slash, b>>, <<b>>, NotApi}
=============================================================================
