----------------------------- MODULE LakeStores -----------------------------
(***************************************************************************)
(* The wrappers of pg_lakehouse (src/datafusion/src/fdw): the options that *)
(* their validators accept and the object stores that they build of them.  *)
(*                                                                         *)
(* An option is its name.  The S3 option allow_anonymous counts only when  *)
(* its value is true, so it stands for allow_anonymous 'true'.             *)
(***************************************************************************)

Handlers == {"s3", "gcs", "azblob", "azdls", "local"}

\* What the validators know.
S3ServerOption == {"endpoint", "region", "allow_anonymous"}
GcsServerOption == {"default_storage_class", "endpoint", "predefined_acl"}
AzblobServerOption == {"encryption_algorithm", "endpoint"}
AzdlsServerOption == {"endpoint"}

ServerOption == [s3 |-> S3ServerOption, gcs |-> GcsServerOption,
                 azblob |-> AzblobServerOption, azdls |-> AzdlsServerOption]

RequiredOption == [h \in Handlers |-> IF h \in {"azblob", "azdls"} THEN {"endpoint"} ELSE {}]

\* validate_options and check_options_contain; LocalFileFdw accepts anything.
ValidServer(h, o) ==
  h = "local" \/ (o \subseteq ServerOption[h] /\ RequiredOption[h] \subseteq o)

\* The options of user mappings that are read; no validator looks at them.
S3MappingOption == {"access_key_id", "secret_access_key", "security_token"}
GcsMappingOption == {"credential", "credential_path", "scope", "service_account"}
AzblobMappingOption ==
  {"account_key", "account_name", "connection_string", "customer_provided_key",
   "encryption_key", "encryption_key_sha256", "sas_token"}
AzdlsMappingOption == {"account_key", "account_name"}

MappingOption == [s3 |-> S3MappingOption, gcs |-> GcsMappingOption,
                  azblob |-> AzblobMappingOption, azdls |-> AzdlsMappingOption]

\* Every option that a store of the handler depends on.
Known(h) == IF h = "local" THEN {} ELSE ServerOption[h] \cup MappingOption[h]

-----------------------------------------------------------------------------
(* What the builders pass on.                                              *)

\* Mutant: the session token is not passed on.
S3BuilderButToken == {"region", "access_key_id", "secret_access_key", "endpoint", "allow_anonymous"}

S3Builder ==
  {"region", "access_key_id", "secret_access_key", "security_token", "endpoint",
   "allow_anonymous"}

GcsBuilder ==
  {"credential", "credential_path", "default_storage_class", "endpoint", "predefined_acl",
   "scope", "service_account"}
AzblobBuilder ==
  {"connection_string", "account_key", "account_name", "customer_provided_key",
   "encryption_key", "encryption_key_sha256", "sas_token", "encryption_algorithm", "endpoint"}
AzdlsBuilder == {"account_key", "account_name", "endpoint"}

Builder == [s3 |-> S3Builder, gcs |-> GcsBuilder, azblob |-> AzblobBuilder,
            azdls |-> AzdlsBuilder, local |-> {}]

\* The Azure wrappers put the root of a delta table's store at its path, where
\* DataFusion, which asks for whole paths, finds nothing.  A connection string
\* makes a builder without root.
Misrooted(h, delta, options) ==
  /\ delta
  /\ h \in {"azblob", "azdls"}
  /\ h = "azblob" => "connection_string" \notin options
=============================================================================
