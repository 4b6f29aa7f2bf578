------------------------------- MODULE Catalog -------------------------------
(***************************************************************************)
(* The things every module of the order path talks about: jobs, products,  *)
(* who asks for what, and the business outcomes of a job.                  *)
(*                                                                         *)
(* A job stands for the logical order identified by jobId; its user and    *)
(* product are functions of it (place_order_batch refuses one jobId that   *)
(* refers to two pairs).  Two jobs may still share a pair: the API never   *)
(* creates them, since it derives the id from the pair, but the database   *)
(* function is written for callers that bypass the API and is tested so.   *)
(***************************************************************************)
EXTENDS Naturals, FiniteSets

CONSTANTS
  Jobs,          \* job identifiers (order_results.job_id)
  Products,      \* rows of table products, numbered in product_id order
  JobUser,       \* the userId of each job's payload
  JobProduct,    \* the productId of each job's payload; it may be unknown
  InitialStock   \* remaining_stock of each product when the sale starts

ASSUME CatalogAssumption ==
  /\ IsFiniteSet(Jobs) /\ IsFiniteSet(Products)
  /\ Products \subseteq Nat
  /\ InitialStock \in [Products -> Nat]

\* The business outcomes of a job, and the absence of one.
Statuses == {"SUCCESS", "REJECTED_SOLD_OUT", "REJECTED_INACTIVE", "REJECTED_DUPLICATE"}
NoResult == "NONE"
Outcomes == Statuses \cup {NoResult}

\* unique_user_product: the two jobs ask for the same unit of the same buyer.
SamePair(j, k) == JobUser[j] = JobUser[k] /\ JobProduct[j] = JobProduct[k]

\* Those of the jobs S that ask for product p.
For(p, S) == {j \in S : JobProduct[j] = p}
=============================================================================
