------------------------------- MODULE Revisions -------------------------------
(* The revisions 001 to 042 of backend/alembic/versions, each as the stages of  *)
(* its upgrade() and its downgrade(). Types, defaults and ON DELETE clauses are *)
(* left out; columns, NOT NULL, indexes, constraints, references, enum types,   *)
(* extensions and the rows a later revision trips over are kept.                *)
EXTENDS SchemaOps

\* 001_initial.py
R001Up == Transaction(<<
  Table("users", {"id", "email", "hashed_password", "name", "role"}, {"department", "is_active",
    "created_at", "updated_at"}, {}),
  Unique("users", "ix_users_email", {"email"}),
  Table("accounts", {"id", "bank_name", "account_number", "account_holder"},
    {"business_registration_no", "is_active", "created_at", "updated_at"}, {}),
  Unique("accounts", "accounts_account_number_key", {"account_number"}),
  Table("upload_logs", {"id", "user_id", "filename", "upload_type", "status"}, {"account_id",
    "row_count", "error_count", "error_detail", "created_at", "updated_at"},
    {<<"user_id", "users">>, <<"account_id", "accounts">>}),
  Table("transactions", {"id", "account_id", "transaction_date", "amount", "transaction_type"},
    {"balance", "counterpart_name", "description", "matched_transaction_id", "match_status",
    "memo", "upload_log_id", "created_at", "updated_at"}, {<<"account_id", "accounts">>,
    <<"matched_transaction_id", "transactions">>, <<"upload_log_id", "upload_logs">>}),
  Table("tax_invoices", {"id", "invoice_type", "issue_date", "supplier_name", "supply_amount",
    "tax_amount", "total_amount"}, {"invoice_number", "supplier_biz_no", "buyer_name",
    "buyer_biz_no", "matched_transaction_id", "match_status", "memo", "upload_log_id",
    "created_at", "updated_at"}, {<<"matched_transaction_id", "transactions">>,
    <<"upload_log_id", "upload_logs">>}),
  Unique("tax_invoices", "tax_invoices_invoice_number_key", {"invoice_number"}),
  IfMissing(Rows("users", {"admin"}))>>)
R001Down == Transaction(<<
  DropTable("tax_invoices"),
  DropTable("transactions"),
  DropTable("upload_logs"),
  DropTable("accounts"),
  DropTable("users")>>)

\* 002_rbac_constraints.py
R002Up == Transaction(<<
  IfPresent(DropRows("users", {"free text department", "free text role"})),
  NotNull("users", "department"),
  Check("users", "users_department_check", {"department"}),
  Check("users", "users_role_check", {"role"})>>)
R002Down == Transaction(<<
  DropCheck("users", "users_role_check"),
  DropCheck("users", "users_department_check"),
  Nullable("users", "department")>>)

\* 003_sns_tables.py
R003Up == Transaction(<<
  Table("social_accounts", {"id", "platform", "language", "is_active", "created_at"}, {"handle",
    "page_url", "external_id", "extra_metadata", "updated_at"}, {}),
  Unique("social_accounts", "social_accounts_platform_language_key", {"platform", "language"}),
  Check("social_accounts", "social_accounts_platform_check", {"platform"}),
  Check("social_accounts", "social_accounts_language_check", {"language"}),
  Table("social_weekly_snapshots", {"id", "account_id", "year", "month", "week_number",
    "followers", "captured_at", "created_at"}, {"updated_at"},
    {<<"account_id", "social_accounts">>}),
  Index("social_weekly_snapshots", "ix_social_weekly_snapshots_account_id", {"account_id"}),
  Unique("social_weekly_snapshots", "social_weekly_snapshots_account_period_key", {"account_id",
    "year", "month", "week_number"}),
  Check("social_weekly_snapshots", "social_weekly_snapshots_week_number_check", {"week_number"}),
  Check("social_weekly_snapshots", "social_weekly_snapshots_month_check", {"month"}),
  Table("social_posts", {"id", "account_id", "posted_at", "created_at"}, {"title", "content_type",
    "producer", "view_count", "reach_count", "comment_count", "like_count", "share_count",
    "save_count", "repost_count", "total_engagement", "url", "data_recorded_at", "external_id",
    "extra_metadata", "updated_at"}, {<<"account_id", "social_accounts">>}),
  Index("social_posts", "ix_social_posts_account_id", {"account_id"}),
  Index("social_posts", "ix_social_posts_external_id", {"external_id"}),
  Unique("social_posts", "social_posts_account_external_uniq", {"account_id", "external_id"})>>)
R003Down == Transaction(<<
  DropIndexes("social_posts", {"social_posts_account_external_uniq"}),
  DropTable("social_posts"),
  DropTable("social_weekly_snapshots"),
  DropTable("social_accounts")>>)

\* 004_nas_search.py
R004Up == Transaction(<<
  Extension("vector"),
  Table("nas_files", {"id", "path", "file_type", "created_at"}, {"name", "mime_type", "size_bytes",
    "mtime", "file_hash", "indexed_at", "last_error", "updated_at"}, {}),
  Unique("nas_files", "nas_files_path_key", {"path"}),
  Check("nas_files", "nas_files_file_type_check", {"file_type"}),
  Index("nas_files", "ix_nas_files_path", {"path"}),
  Index("nas_files", "ix_nas_files_mtime", {"mtime"}),
  Table("nas_text_chunks", {"id", "file_id", "chunk_index", "content", "embedding", "created_at"},
    {"token_count", "updated_at"}, {<<"file_id", "nas_files">>, <<"embedding", "vector">>}),
  Index("nas_text_chunks", "ix_nas_text_chunks_file_id", {"file_id"}),
  IndexUsing("nas_text_chunks", "ix_nas_text_chunks_embedding", {"embedding"}, "vector")>>)
R004Down == Transaction(<<
  IfPresent(DropIndexes("nas_text_chunks", {"ix_nas_text_chunks_embedding"})),
  DropIndexes("nas_text_chunks", {"ix_nas_text_chunks_file_id"}),
  IfPresent(DropTable("nas_text_chunks")),
  DropIndexes("nas_files", {"ix_nas_files_mtime", "ix_nas_files_path"}),
  DropTable("nas_files")>>)

\* 005_form_filler.py
R005UpTemplates == Transaction(<<
  Type("form_file_format"),
  Type("form_job_status"),
  Type("form_source_kind"),
  Type("form_change_type"),
  Table("form_templates", {"id", "name", "version", "file_hash", "file_path", "file_format",
    "variables", "usage_count", "is_active", "is_deleted", "created_at"}, {"department_tags",
    "owner_dept", "created_by", "updated_at"}, {<<"file_format", "form_file_format">>,
    <<"created_by", "users">>}),
  Unique("form_templates", "form_templates_file_hash_key", {"file_hash"}),
  Index("form_templates", "ix_form_templates_file_hash", {"file_hash"}),
  Index("form_templates", "ix_form_templates_name", {"name"}),
  Index("form_templates", "ix_form_templates_department_tags", {"department_tags"})>>)
R005UpJobs == Transaction(<<
  Table("form_jobs", {"id", "user_id", "status", "cost_usd", "total_tokens_in", "total_tokens_out",
    "created_at"}, {"template_id", "department", "output_path", "langfuse_trace_id",
    "error_message", "completed_at"}, {<<"template_id", "form_templates">>, <<"user_id", "users">>,
    <<"status", "form_job_status">>}),
  Index("form_jobs", "ix_form_jobs_user_id", {"user_id"}),
  Index("form_jobs", "ix_form_jobs_status", {"status"}),
  Index("form_jobs", "ix_form_jobs_department", {"department"}),
  Index("form_jobs", "ix_form_jobs_created_at_desc", {"created_at"})>>)
R005UpSources == Transaction(<<
  Table("form_data_sources", {"id", "job_id", "kind", "created_at"}, {"nas_file_id", "upload_path",
    "nas_chunk_ids", "extracted_text"}, {<<"job_id", "form_jobs">>, <<"kind", "form_source_kind">>,
    <<"nas_file_id", "nas_files">>}),
  Index("form_data_sources", "ix_form_data_sources_job_id", {"job_id"}),
  Index("form_data_sources", "ix_form_data_sources_kind", {"kind"}),
  Index("form_data_sources", "ix_form_data_sources_nas_file_id", {"nas_file_id"}),
  Table("form_mappings", {"id", "job_id", "variable_key", "manual_override", "confirmed",
    "created_at"}, {"value", "source_id", "source_excerpt", "llm_confidence", "reasoning",
    "updated_at"}, {<<"job_id", "form_jobs">>, <<"source_id", "form_data_sources">>}),
  Check("form_mappings", "form_mappings_value_requires_source", {"value", "source_id"}),
  Unique("form_mappings", "uq_form_mappings_job_variable", {"job_id", "variable_key"}),
  Index("form_mappings", "ix_form_mappings_job_id", {"job_id"})>>)
R005UpRevisions == Transaction(<<
  Table("form_revisions", {"id", "job_id", "variable_key", "change_type", "changed_at"},
    {"previous_value", "new_value", "feedback_comment", "changed_by"}, {<<"job_id", "form_jobs">>,
    <<"change_type", "form_change_type">>, <<"changed_by", "users">>}),
  Index("form_revisions", "ix_form_revisions_job_id", {"job_id"}),
  Index("form_revisions", "ix_form_revisions_changed_at_desc", {"changed_at"})>>)
R005Up == R005UpTemplates \o R005UpJobs \o R005UpSources \o R005UpRevisions
R005Down == Transaction(<<
  IfPresent(DropIndexes("form_revisions", {"ix_form_revisions_changed_at_desc"})),
  DropIndexes("form_revisions", {"ix_form_revisions_job_id"}),
  DropTable("form_revisions"),
  DropIndexes("form_mappings", {"ix_form_mappings_job_id"}),
  DropTable("form_mappings"),
  DropIndexes("form_data_sources",
    {"ix_form_data_sources_nas_file_id", "ix_form_data_sources_kind", "ix_form_data_sources_job_id"}),
  DropTable("form_data_sources"),
  IfPresent(DropIndexes("form_jobs", {"ix_form_jobs_created_at_desc"})),
  DropIndexes("form_jobs",
    {"ix_form_jobs_department", "ix_form_jobs_status", "ix_form_jobs_user_id"}),
  DropTable("form_jobs"),
  IfPresent(DropIndexes("form_templates", {"ix_form_templates_department_tags"})),
  DropIndexes("form_templates", {"ix_form_templates_name", "ix_form_templates_file_hash"}),
  DropTable("form_templates"),
  DropType("form_change_type"),
  DropType("form_source_kind"),
  DropType("form_job_status"),
  DropType("form_file_format")>>)

\* 006_review_translations.py
R006Up == Transaction(<<
  Table("review_translations", {"id", "created_at", "source_text", "translated_text",
    "model_used"}, {"updated_at", "campaign", "reviewer_name", "platform", "input_tokens",
    "output_tokens", "cost_usd", "created_by_id"}, {<<"created_by_id", "users">>}),
  Index("review_translations", "ix_review_translations_created_at_desc", {"created_at"}),
  Index("review_translations", "ix_review_translations_campaign", {"campaign"}),
  Index("review_translations", "ix_review_translations_created_by_id", {"created_by_id"})>>)
R006Down == Transaction(<<
  DropIndexes("review_translations",
    {"ix_review_translations_created_by_id", "ix_review_translations_campaign"}),
  IfPresent(DropIndexes("review_translations", {"ix_review_translations_created_at_desc"})),
  DropTable("review_translations")>>)

\* 007_finance_module_enhancement.py
R007UpBefore == Transaction(<<
  Table("categories", {"id", "name", "depth", "created_at"}, {"parent_id", "code", "color",
    "updated_at"}, {<<"parent_id", "categories">>}),
  Check("categories", "categories_depth_max_3", {"depth"}),
  Unique("categories", "uq_categories_code", {"code"}),
  Index("categories", "ix_categories_parent_id", {"parent_id"}),
  Index("categories", "ix_categories_name", {"name"}),
  Table("counterparts", {"id", "name", "created_at"}, {"aliases", "business_registration_no",
    "default_category_id", "updated_at"}, {<<"default_category_id", "categories">>}),
  Index("counterparts", "ix_counterparts_name", {"name"}),
  Index("counterparts", "ix_counterparts_business_registration_no", {"business_registration_no"}),
  Column("accounts", {"currency"}, {"account_type", "current_balance", "last_synced_at",
    "account_label", "alias"}),
  Column("transactions", {}, {"transaction_hash"}),
  RefColumn("transactions", "category_id", "categories", FALSE),
  RefColumn("transactions", "counterpart_id", "counterparts", FALSE),
  Column("transactions", {"is_deleted"}, {"tags", "attachment_url"})>>)
R007UpBlock == Block(<<
  IfMissing(Unique("transactions", "ix_transactions_account_hash_unique", {"account_id",
    "transaction_hash"})),
  IfMissing(Index("transactions", "ix_transactions_transaction_date", {"transaction_date"})),
  IfMissing(Index("transactions", "ix_transactions_category_id", {"category_id"})),
  IfMissing(Index("transactions", "ix_transactions_counterpart_id", {"counterpart_id"})),
  IfMissing(Index("transactions", "ix_transactions_is_deleted_false", {"is_deleted"}))>>)
R007UpAfter == Transaction(<<
  Table("account_balance_snapshots", {"id", "account_id", "snapshot_date", "balance", "currency",
    "created_at"}, {}, {<<"account_id", "accounts">>}),
  Unique("account_balance_snapshots", "uq_balance_snapshots_account_date", {"account_id",
    "snapshot_date"}),
  Index("account_balance_snapshots", "ix_balance_snapshots_snapshot_date", {"snapshot_date"}),
  Column("upload_logs", {"duplicate_count", "imported_count"}, {"bank_key", "period_label"})>>)
R007Up == R007UpBefore \o R007UpBlock \o R007UpAfter
R007DownBefore == Transaction(<<
  DropColumns("upload_logs", {"period_label", "bank_key", "imported_count", "duplicate_count"}),
  DropIndexes("account_balance_snapshots", {"ix_balance_snapshots_snapshot_date"}),
  DropTable("account_balance_snapshots")>>)
R007DownBlock == Block(<<
  IfPresent(DropIndexes("transactions", {"ix_transactions_is_deleted_false"})),
  IfPresent(DropIndexes("transactions", {"ix_transactions_counterpart_id"})),
  IfPresent(DropIndexes("transactions", {"ix_transactions_category_id"})),
  IfPresent(DropIndexes("transactions", {"ix_transactions_transaction_date"})),
  IfPresent(DropIndexes("transactions", {"ix_transactions_account_hash_unique"}))>>)
R007DownAfter == Transaction(<<
  DropColumns("transactions", {"is_deleted", "attachment_url", "tags", "counterpart_id",
    "category_id", "transaction_hash"}),
  DropColumns("accounts", {"alias", "account_label", "last_synced_at", "current_balance",
    "currency", "account_type"}),
  DropIndexes("counterparts", {"ix_counterparts_business_registration_no", "ix_counterparts_name"}),
  DropTable("counterparts"),
  DropIndexes("categories", {"ix_categories_name", "ix_categories_parent_id"}),
  DropTable("categories")>>)
R007Down == R007DownBefore \o R007DownBlock \o R007DownAfter

\* 008_finance_module_fixes.py
\* Mutant: DROP INDEX without IF EXISTS.
R008UpBlockStrict == Block(<<
  DropIndexes("transactions", {"ix_transactions_account_hash_unique"}),
  IfMissing(Unique("transactions", "ix_transactions_account_hash_unique", {"account_id",
    "transaction_hash", "is_deleted"}))>>)
R008UpBlock == Block(<<
  IfPresent(DropIndexes("transactions", {"ix_transactions_account_hash_unique"})),
  IfMissing(Unique("transactions", "ix_transactions_account_hash_unique", {"account_id",
    "transaction_hash", "is_deleted"}))>>)
(* The two ALTER ... SET DEFAULT restate the default of 007. *)
R008Up == R008UpBlock \o Transaction(<<>>)
R008DownBlock == Block(<<
  IfPresent(DropIndexes("transactions", {"ix_transactions_account_hash_unique"})),
  IfMissing(Unique("transactions", "ix_transactions_account_hash_unique", {"account_id",
    "transaction_hash"}))>>)
R008Down == R008DownBlock \o Transaction(<<>>)

\* 009_playground.py
R009Up == Transaction(<<
  Table("playground_sessions", {"id", "user_id", "provider", "model", "temperature", "created_at"},
    {"title", "system_prompt", "updated_at"}, {<<"user_id", "users">>}),
  Index("playground_sessions", "ix_playground_sessions_user_created", {"user_id", "created_at"}),
  Table("playground_messages", {"id", "session_id", "role", "content", "created_at"},
    {"input_tokens", "output_tokens", "reasoning_tokens", "cached_tokens", "total_tokens",
    "latency_ms", "model", "raw_request", "raw_response"},
    {<<"session_id", "playground_sessions">>}),
  Index("playground_messages", "ix_playground_messages_session_created", {"session_id",
    "created_at"}),
  Table("playground_media", {"id", "user_id", "media_type", "url", "created_at"}, {"session_id",
    "prompt", "duration_sec", "width", "height", "cost_usd"},
    {<<"session_id", "playground_sessions">>, <<"user_id", "users">>})>>)
R009Down == Transaction(<<
  DropTable("playground_media"),
  DropIndexes("playground_messages", {"ix_playground_messages_session_created"}),
  DropTable("playground_messages"),
  DropIndexes("playground_sessions", {"ix_playground_sessions_user_created"}),
  DropTable("playground_sessions")>>)

\* 010_distribution.py
R010UpPersonas == Transaction(<<
  Table("distribution_personas", {"id", "account_label", "role", "display_name", "telegram_phone",
    "daily_msg_limit", "active", "created_at"}, {"telegram_user_id", "api_id_enc", "api_hash_enc",
    "session_path", "tone_profile", "warmup_until", "last_login_at", "updated_at"}, {}),
  Unique("distribution_personas", "distribution_personas_account_label_key", {"account_label"}),
  Unique("distribution_personas", "distribution_personas_telegram_phone_key", {"telegram_phone"}),
  Unique("distribution_personas", "distribution_personas_telegram_user_id_key",
    {"telegram_user_id"}),
  Table("distribution_bl_records", {"id", "imported_at"}, {"bl_number", "container_no", "product",
    "quantity", "departure_date", "arrival_date", "destination", "raw_row", "source_file",
    "imported_by"}, {<<"imported_by", "users">>}),
  Unique("distribution_bl_records", "uq_distribution_bl_records_bl_container", {"bl_number",
    "container_no"}),
  Table("distribution_scenarios", {"id", "name", "trigger_event", "sender_role", "receiver_role",
    "beats", "active", "created_at"}, {"raw_text", "example_msgs"}, {})>>)
R010UpSessions == Transaction(<<
  Table("distribution_sessions", {"id", "scenario_id", "sender_persona_id", "receiver_persona_id",
    "status", "generated_at"}, {"bl_record_id", "approved_by", "approved_at", "scheduled_start",
    "completed_at", "llm_cost_usd", "llm_input_tok", "llm_output_tok"},
    {<<"bl_record_id", "distribution_bl_records">>, <<"scenario_id", "distribution_scenarios">>,
    <<"sender_persona_id", "distribution_personas">>,
    <<"receiver_persona_id", "distribution_personas">>, <<"approved_by", "users">>}),
  Index("distribution_sessions", "ix_distribution_sessions_status_generated", {"status",
    "generated_at"})>>)
R010UpMessages == Transaction(<<
  Table("distribution_messages", {"id", "session_id", "order_index", "sender_persona_id",
    "content", "user_edited", "send_after_sec", "typing_sec", "status"}, {"edited_content",
    "scheduled_at", "sent_at", "telegram_message_id"}, {<<"session_id", "distribution_sessions">>,
    <<"sender_persona_id", "distribution_personas">>}),
  Index("distribution_messages", "ix_distribution_messages_queue", {"scheduled_at", "status"}),
  Table("distribution_send_log", {"id", "message_id", "persona_id", "attempt", "attempted_at"},
    {"success", "error_code", "error_detail"}, {<<"message_id", "distribution_messages">>,
    <<"persona_id", "distribution_personas">>}),
  Index("distribution_send_log", "ix_distribution_send_log_persona_attempted", {"persona_id",
    "attempted_at"})>>)
R010Up == R010UpPersonas \o R010UpSessions \o R010UpMessages
R010Down == Transaction(<<
  DropIndexes("distribution_send_log", {"ix_distribution_send_log_persona_attempted"}),
  DropTable("distribution_send_log"),
  DropIndexes("distribution_messages", {"ix_distribution_messages_queue"}),
  DropTable("distribution_messages"),
  DropIndexes("distribution_sessions", {"ix_distribution_sessions_status_generated"}),
  DropTable("distribution_sessions"),
  DropTable("distribution_scenarios"),
  DropTable("distribution_bl_records"),
  DropTable("distribution_personas")>>)

\* 011_distribution_weekly_data.py
R011Up == Transaction(<<
  Table("distribution_weekly_summary", {"id", "company_label", "period_label", "period_start",
    "period_end", "imported_at"}, {"kr_purchase", "vn_inventory_move", "vn_sales_completed",
    "kr_purchase_deposit_req", "vn_inventory_deposit_req", "vn_sales_deposit_req",
    "account_deposit", "cash_deposit", "raw_row", "source_file", "imported_by"},
    {<<"imported_by", "users">>}),
  Unique("distribution_weekly_summary", "uq_distribution_weekly_summary_period", {"company_label",
    "period_start", "period_end"}),
  Index("distribution_weekly_summary", "ix_distribution_weekly_summary_company_start",
    {"company_label", "period_start"}),
  Table("distribution_products", {"id", "brand", "imported_at"}, {"product_name_en",
    "product_code", "category", "purchase_qty", "domestic_stock_qty", "supply_price", "vat",
    "purchase_price", "approval_number", "purchase_date", "raw_row", "source_file", "imported_by"},
    {<<"imported_by", "users">>}),
  Index("distribution_products", "ix_distribution_products_brand", {"brand", "category"}),
  Column("distribution_personas", {}, {"business_name"})>>)
R011Down == Transaction(<<
  DropColumns("distribution_personas", {"business_name"}),
  DropIndexes("distribution_products", {"ix_distribution_products_brand"}),
  DropTable("distribution_products"),
  DropIndexes("distribution_weekly_summary", {"ix_distribution_weekly_summary_company_start"}),
  DropTable("distribution_weekly_summary")>>)

\* 012_distribution_products_company.py
R012Up == Transaction(<<
  IfMissing(Column("distribution_products", {}, {"company_label"})),
  IfMissing(Index("distribution_products", "ix_distribution_products_company_brand",
    {"company_label", "brand"}))>>)
R012Down == Transaction(<<
  IfPresent(DropIndexes("distribution_products", {"ix_distribution_products_company_brand"})),
  IfPresent(DropColumns("distribution_products", {"company_label"}))>>)

\* 013_distribution_products_vn_qty.py
R013Up == Transaction(<<
  IfMissing(Column("distribution_products", {}, {"vn_inventory_move_qty", "vn_sales_completed_qty",
    "vn_local_stock_qty"}))>>)
R013Down == Transaction(<<
  IfPresent(DropColumns("distribution_products", {"vn_local_stock_qty", "vn_sales_completed_qty",
    "vn_inventory_move_qty"}))>>)

\* 014_playground_persistence.py
R014Up == Transaction(<<
  Nullable("playground_media", "url"),
  IfMissing(Column("playground_media", {}, {"task_id"})),
  IfMissing(Unique("playground_media", "uq_playground_media_task_id", {"task_id"})),
  IfMissing(Column("playground_media", {"status"}, {"model_key", "error_message", "file_path",
    "cost_usd", "expires_at"})),
  IfMissing(Index("playground_media", "ix_playground_media_user_created", {"user_id",
    "created_at"})),
  IfMissing(Index("playground_media", "ix_playground_media_status", {"status"})),
  IfMissing(Column("playground_messages", {}, {"cost_usd"})),
  IfMissing(Index("playground_messages", "ix_playground_messages_model", {"model"}))>>)
\* Mutant: only what ADD COLUMN IF NOT EXISTS would find again is left.
R014DownHalf == Transaction(<<
  IfPresent(DropIndexes("playground_messages", {"ix_playground_messages_model"})),
  IfPresent(DropColumns("playground_messages", {"cost_usd"}))>>)
R014Down == Transaction(<<
  IfPresent(DropIndexes("playground_messages", {"ix_playground_messages_model"})),
  IfPresent(DropColumns("playground_messages", {"cost_usd"})),
  IfPresent(DropIndexes("playground_media",
    {"ix_playground_media_status", "ix_playground_media_user_created"})),
  IfPresent(DropColumns("playground_media", {"expires_at", "file_path", "error_message", "status",
    "model_key"})),
  IfPresent(DropIndexes("playground_media", {"uq_playground_media_task_id"})),
  IfPresent(DropColumns("playground_media", {"task_id"}))>>)

\* 015_user_monthly_quota.py
R015Up == Transaction(<<IfMissing(Column("users", {"monthly_quota_usd"}, {}))>>)
R015Down == Transaction(<<IfPresent(DropColumns("users", {"monthly_quota_usd"}))>>)

\* 016_playground_attachments.py
R016Up == Transaction(<<
  IfMissing(Table("playground_attachments", {"id", "user_id", "kind", "filename", "mime",
    "size_bytes", "file_path", "created_at"}, {"session_id", "extracted_text"},
    {<<"user_id", "users">>, <<"session_id", "playground_sessions">>})),
  IfMissing(Index("playground_attachments", "idx_playground_attachments_user", {"user_id",
    "created_at"})),
  IfMissing(Index("playground_attachments", "idx_playground_attachments_session", {"session_id"}))>>)
R016Down == Transaction(<<
  IfPresent(DropIndexes("playground_attachments",
    {"idx_playground_attachments_session", "idx_playground_attachments_user"})),
  IfPresent(DropTable("playground_attachments"))>>)

\* 017_distribution_message_attachments.py
R017Up == Transaction(<<
  IfMissing(Column("distribution_messages", {}, {"attachment_path", "attachment_filename",
    "attachment_mime", "attachment_kind", "attachment_caption"}))>>)
R017Down == Transaction(<<
  IfPresent(DropColumns("distribution_messages", {"attachment_caption", "attachment_kind",
    "attachment_mime", "attachment_filename", "attachment_path"}))>>)

\* 018_distribution_scenario_attachment_required.py
R018Up == Transaction(<<IfMissing(Column("distribution_scenarios", {"attachment_required"}, {}))>>)
R018Down == Transaction(<<
  IfPresent(DropColumns("distribution_scenarios", {"attachment_required"}))>>)

\* 019_distribution_language.py
R019Up == Transaction(<<
  IfMissing(Column("distribution_scenarios", {"language"}, {})),
  IfMissing(Column("distribution_sessions", {"language"}, {}))>>)
R019Down == Transaction(<<
  IfPresent(DropColumns("distribution_sessions", {"language"})),
  IfPresent(DropColumns("distribution_scenarios", {"language"}))>>)

\* 020_distribution_send_schedule.py
R020Up == Transaction(<<
  IfMissing(Column("distribution_messages", {"send_state"}, {"scheduled_send_at", "sent_at"})),
  IfMissing(Index("distribution_messages", "ix_distribution_messages_send_state_due",
    {"send_state", "scheduled_send_at"}))>>)
R020Down == Transaction(<<
  IfPresent(DropIndexes("distribution_messages", {"ix_distribution_messages_send_state_due"})),
  IfPresent(DropColumns("distribution_messages", {"send_state", "scheduled_send_at"}))>>)

\* 021_distribution_customs.py
R021Up == Transaction(<<
  IfMissing(Table("distribution_customs_declarations", {"id", "raw_row", "imported_at"},
    {"company_label", "bl_number", "declaration_number", "product", "declared_price",
    "actual_price", "currency", "stock_qty", "declared_at", "source_file", "imported_by"},
    {<<"imported_by", "users">>})),
  IfMissing(Unique("distribution_customs_declarations",
    "uq_distribution_customs_declaration_number", {"declaration_number"})),
  IfMissing(Index("distribution_customs_declarations",
    "ix_distribution_customs_company_declared_at", {"company_label", "declared_at"}))>>)
R021Down == Transaction(<<
  IfPresent(DropIndexes("distribution_customs_declarations",
    {"ix_distribution_customs_company_declared_at", "uq_distribution_customs_declaration_number"})),
  IfPresent(DropTable("distribution_customs_declarations"))>>)

\* 022_sns_meta_channels.py
R022Up == Transaction(<<
  IfMissing(Column("social_accounts", {}, {"client"})),
  IfMissing(Column("social_posts", {"is_manual"}, {})),
  IfMissing(Table("social_post_metric_snapshots", {"id", "post_id", "captured_at", "period",
    "created_at"}, {"views", "reach", "likes", "comments", "shares", "engagement_total", "raw",
    "updated_at"}, {<<"post_id", "social_posts">>})),
  IfMissing(Index("social_post_metric_snapshots", "ix_social_post_metric_snapshots_post_id",
    {"post_id"})),
  IfMissing(Unique("social_post_metric_snapshots", "uq_social_post_metric_snapshot_period_day",
    {"post_id", "period", "captured_at"}))>>)
R022Down == Transaction(<<
  IfPresent(DropIndexes("social_post_metric_snapshots",
    {"uq_social_post_metric_snapshot_period_day", "ix_social_post_metric_snapshots_post_id"})),
  IfPresent(DropTable("social_post_metric_snapshots")),
  IfPresent(DropColumns("social_posts", {"is_manual"})),
  IfPresent(DropColumns("social_accounts", {"client"}))>>)

\* 023_distribution_persona_telegram_sync.py
R023Up == Transaction(<<IfMissing(Column("distribution_personas", {}, {"telegram_username"}))>>)
R023Down == Transaction(<<IfPresent(DropColumns("distribution_personas", {"telegram_username"}))>>)

\* 024_distribution_customs_columns.py
R024Up == Transaction(<<
  IfMissing(Column("distribution_customs_declarations", {}, {"declaration_type", "item_name",
    "unit_price", "declared_price_krw"})),
  IfPresent(DropCheck("distribution_customs_declarations",
    "ck_distribution_customs_declaration_type")),
  Check("distribution_customs_declarations", "ck_distribution_customs_declaration_type",
    {"declaration_type"})>>)
R024Down == Transaction(<<
  IfPresent(DropCheck("distribution_customs_declarations",
    "ck_distribution_customs_declaration_type")),
  IfPresent(DropColumns("distribution_customs_declarations", {"declared_price_krw", "unit_price",
    "item_name", "declaration_type"}))>>)

\* 025_nas_hybrid_trgm.py
R025Up == Transaction(<<
  Extension("pg_trgm"),
  IfMissing(IndexUsing("nas_text_chunks", "ix_nas_text_chunks_content_trgm",
    {"content"}, "pg_trgm"))>>)
R025Down == Transaction(<<IfPresent(DropIndexes("nas_text_chunks",
    {"ix_nas_text_chunks_content_trgm"}))>>)

\* 026_sns_post_comments.py
R026Up == Transaction(<<
  Table("social_post_comments", {"id", "post_id", "created_at"}, {"external_comment_id", "author",
    "text", "commented_at", "like_count", "raw", "updated_at"}, {<<"post_id", "social_posts">>}),
  Unique("social_post_comments", "uq_post_comment_external", {"post_id", "external_comment_id"}),
  Index("social_post_comments", "ix_social_post_comments_post_id", {"post_id"}),
  Index("social_post_comments", "ix_social_post_comments_external_comment_id",
    {"external_comment_id"})>>)
R026Down == Transaction(<<
  DropIndexes("social_post_comments",
    {"ix_social_post_comments_external_comment_id", "ix_social_post_comments_post_id"}),
  DropTable("social_post_comments")>>)

\* 027_distribution_scenario_instruction.py
R027Up == Transaction(<<Column("distribution_scenarios", {}, {"instruction"})>>)
R027Down == Transaction(<<DropColumns("distribution_scenarios", {"instruction"})>>)

\* 028_distribution_session_group.py
R028Up == Transaction(<<Column("distribution_sessions", {}, {"group_chat_id"})>>)
R028Down == Transaction(<<DropColumns("distribution_sessions", {"group_chat_id"})>>)

\* 029_sns_comment_translation.py
R029Up == Transaction(<<Column("social_post_comments", {}, {"translated_text"})>>)
R029Down == Transaction(<<DropColumns("social_post_comments", {"translated_text"})>>)

\* 030_distribution_scenario_cleanup.py
(* Inserts the scenarios whose names are missing; the flags and names it updates in
   other rows are not told apart here. *)
R030Up == Transaction(<<IfMissing(Rows("distribution_scenarios", {"scenarios of 030"}))>>)
R030Down == Transaction(<<IfPresent(DropRows("distribution_scenarios", {"scenarios of 030"}))>>)

\* 031_rbac_grants_multidept_status.py
R031Up == Transaction(<<
  Column("users", {"status"}, {}),
  Check("users", "users_status_check", {"status"}),
  Table("user_departments", {"id", "user_id", "department", "created_at"}, {"updated_at"},
    {<<"user_id", "users">>}),
  Unique("user_departments", "uq_user_department", {"user_id", "department"}),
  Index("user_departments", "ix_user_departments_user_id", {"user_id"}),
  Rows("user_departments", {"copied departments"}),
  Table("department_module_grants", {"department", "module", "created_at"}, {"updated_at"}, {}),
  Rows("department_module_grants", {"default grants"})>>)
R031Down == Transaction(<<
  DropTable("department_module_grants"),
  DropIndexes("user_departments", {"ix_user_departments_user_id"}),
  DropTable("user_departments"),
  DropCheck("users", "users_status_check"),
  DropColumns("users", {"status"})>>)

\* 032_drop_nas_text_chunks_pgvector.py
R032Up == Transaction(<<IfPresent(DropTableCascade("nas_text_chunks")), DropExtension("vector")>>)
R032Down == Transaction(<<
  Extension("vector"),
  Table("nas_text_chunks", {"id", "file_id", "chunk_index", "content", "embedding", "created_at",
    "updated_at"}, {"token_count"}, {<<"file_id", "nas_files">>, <<"embedding", "vector">>}),
  Index("nas_text_chunks", "ix_nas_text_chunks_file_id", {"file_id"})>>)

\* 033_form_jobs_kind_docgen.py
R033Up == Transaction(<<
  Type("form_job_kind"),
  RefColumn("form_jobs", "kind", "form_job_kind", TRUE),
  Column("form_jobs", {}, {"source_mode"}),
  Index("form_jobs", "ix_form_jobs_kind", {"kind"}),
  Index("form_jobs", "ix_form_jobs_kind_created_at_desc", {"kind", "created_at"})>>)
R033Down == Transaction(<<
  IfPresent(DropIndexes("form_jobs", {"ix_form_jobs_kind_created_at_desc"})),
  DropIndexes("form_jobs", {"ix_form_jobs_kind"}),
  DropColumns("form_jobs", {"source_mode", "kind"}),
  DropType("form_job_kind")>>)

\* 034_sns_comment_summary.py
R034Up == Transaction(<<Column("social_posts", {}, {"comment_summary", "comment_summary_at"})>>)
R034Down == Transaction(<<DropColumns("social_posts", {"comment_summary_at", "comment_summary"})>>)

\* 035_sns_post_category.py
R035Up == Transaction(<<Column("social_posts", {}, {"category"})>>)
R035Down == Transaction(<<DropColumns("social_posts", {"category"})>>)

\* 036_distribution_docs_link_scenario.py
R036Up == Transaction(<<IfMissing(Rows("distribution_scenarios", {"scenarios of 036"}))>>)
R036Down == Transaction(<<IfPresent(DropRows("distribution_scenarios", {"scenarios of 036"}))>>)

\* 037_form_source_exclude.py
R037Up == Transaction(<<Column("form_data_sources", {"is_excluded"}, {})>>)
R037Down == Transaction(<<DropColumns("form_data_sources", {"is_excluded"})>>)

\* 038_docgen_documents.py
R038Up == Transaction(<<
  Table("docgen_documents", {"id", "user_id", "title", "sections", "created_at"}, {"department",
    "topic", "doc_type", "source_mode", "sources", "model", "updated_at"},
    {<<"user_id", "users">>}),
  Index("docgen_documents", "ix_docgen_documents_user_id", {"user_id"})>>)
R038Down == Transaction(<<
  DropIndexes("docgen_documents", {"ix_docgen_documents_user_id"}),
  DropTable("docgen_documents")>>)

\* 039_playground_media_sharing.py
R039Up == Transaction(<<
  Column("playground_media", {"is_shared"}, {"shared_at"}),
  Index("playground_media", "ix_playground_media_shared", {"shared_at", "is_shared"})>>)
\* Mutant: the columns are forgotten.
R039DownIndexOnly == Transaction(<<
  DropIndexes("playground_media", {"ix_playground_media_shared"})>>)
R039Down == Transaction(<<
  DropIndexes("playground_media", {"ix_playground_media_shared"}),
  DropColumns("playground_media", {"shared_at", "is_shared"})>>)

\* 040_docgen_retouch_prompts.py
R040Up == Transaction(<<
  Table("docgen_retouch_prompts", {"id", "user_id", "title", "target", "prompt_text", "is_shared",
    "created_at"}, {"department", "source_document_id", "doc_type", "shared_at", "updated_at"},
    {<<"user_id", "users">>, <<"source_document_id", "docgen_documents">>}),
  Index("docgen_retouch_prompts", "ix_docgen_retouch_prompts_user_id", {"user_id"}),
  Index("docgen_retouch_prompts", "ix_docgen_retouch_prompts_shared", {"shared_at", "is_shared"})>>)
R040Down == Transaction(<<
  DropIndexes("docgen_retouch_prompts",
    {"ix_docgen_retouch_prompts_shared", "ix_docgen_retouch_prompts_user_id"}),
  DropTable("docgen_retouch_prompts")>>)

\* 041_docgen_preset_theme.py
\* Mutant: a column of the class is forgotten.
R041UpShort == Transaction(<<
  Column("docgen_retouch_prompts", {}, {"palette_primary", "palette_accent", "palette_text",
    "heading_font"})>>)
R041Up == Transaction(<<
  Column("docgen_retouch_prompts", {}, {"palette_primary", "palette_accent", "palette_text",
    "heading_font", "body_font"})>>)
R041Down == Transaction(<<
  DropColumns("docgen_retouch_prompts", {"body_font", "heading_font", "palette_text",
    "palette_accent", "palette_primary"})>>)

\* 042_playground_media_source.py
R042Up == Transaction(<<
  RefColumn("playground_media", "source_media_id", "playground_media", FALSE)>>)
R042Down == Transaction(<<DropColumns("playground_media", {"source_media_id"})>>)

--------------------------------------------------------------------------------
(* The chain of down_revision: 001 is the first. *)
Upgrade == <<
  R001Up, R002Up, R003Up, R004Up, R005Up, R006Up, R007Up, R008Up, R009Up, R010Up, R011Up, R012Up,
  R013Up, R014Up, R015Up, R016Up, R017Up, R018Up, R019Up, R020Up, R021Up, R022Up, R023Up, R024Up,
  R025Up, R026Up, R027Up, R028Up, R029Up, R030Up, R031Up, R032Up, R033Up, R034Up, R035Up, R036Up,
  R037Up, R038Up, R039Up, R040Up, R041Up, R042Up>>
Downgrade == <<
  R001Down, R002Down, R003Down, R004Down, R005Down, R006Down, R007Down, R008Down, R009Down,
  R010Down, R011Down, R012Down, R013Down, R014Down, R015Down, R016Down, R017Down, R018Down,
  R019Down, R020Down, R021Down, R022Down, R023Down, R024Down, R025Down, R026Down, R027Down,
  R028Down, R029Down, R030Down, R031Down, R032Down, R033Down, R034Down, R035Down, R036Down,
  R037Down, R038Down, R039Down, R040Down, R041Down, R042Down>>
LastRevision == Len(Upgrade)
================================================================================
