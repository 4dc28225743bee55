------------------------------ MODULE AdminRoles ------------------------------
(***************************************************************************)
(* tutortwin/domain/admin.py: the roles of the control panel, what each may *)
(* do, and the switches an operator may flip.  Pure definitions.            *)
(***************************************************************************)

Role == {"SUPER_ADMIN", "ADMIN", "ACADEMIC_ADMIN", "SUPPORT", "TUTOR_VIEWER",
         "USAGE_VIEWER"}

Permission ==
  {"dashboard:read", "student:read", "student:write", "tutor:read", "tutor:write",
   "persona:activate", "plan:read", "plan:write", "model:read", "model:write",
   "prompt:read", "prompt:write", "conversation:read", "document:read",
   "document:write", "learning:read", "job:read", "job:write", "cost:read",
   "payment:read", "flag:read", "flag:write", "audit:read", "admin_user:read",
   "admin_user:write"}

RolePermissions == [role \in Role |->
  CASE role = "SUPER_ADMIN"    -> Permission
    [] role = "ADMIN"          -> Permission \ {"admin_user:write"}
    [] role = "ACADEMIC_ADMIN" ->
         {"dashboard:read", "student:read", "tutor:read", "tutor:write",
          "persona:activate", "prompt:read", "prompt:write", "conversation:read",
          "document:read", "document:write", "learning:read", "plan:read",
          "model:read", "flag:read", "job:read", "audit:read"}
    [] role = "SUPPORT"        ->
         {"dashboard:read", "student:read", "conversation:read", "document:read",
          "learning:read", "tutor:read", "job:read", "job:write", "plan:read",
          "flag:read"}
    [] role = "TUTOR_VIEWER"   ->
         {"tutor:read", "student:read", "learning:read", "conversation:read"}
    [] role = "USAGE_VIEWER"   ->
         {"dashboard:read", "cost:read", "payment:read", "model:read", "plan:read"}]

RoleAllows(role, permission) == permission \in RolePermissions[role]

KillSwitchKeys ==
  {"pdf_processing", "image_processing", "voice_processing", "mock_tests",
   "verifier", "provider_openai", "provider_anthropic", "advanced_model",
   "rag_retrieval", "code_sandbox"}
===============================================================================
