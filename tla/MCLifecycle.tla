---- MODULE MCLifecycle ----
EXTENDS Lifecycle

(* A development machine, a deployment on R2, and a container that lacks a  *)
(* required variable.                                                       *)
Local   == [set |-> {"DB", "STORAGE_LOCAL_PATH", "STORAGE_LOCAL_BASE_URL"}, provider |-> "local"]
R2      == [set |-> {"DB", "STORAGE_R2_ACCOUNT_ID", "STORAGE_R2_BUCKET"}, provider |-> "r2"]
Missing == [set |-> {}, provider |-> "local"]

Deployments == {Local, R2, Missing}
Development == {Local}
====
