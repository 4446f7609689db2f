---------------------------- MODULE MessagesAdmin ----------------------------
(***************************************************************************)
(* Administration: topics, configurations, access control, quotas and the  *)
(* cluster calls a single broker answers.                                  *)
(* One table per generated struct; a field lists what size, encode and     *)
(* decode all know of it.                                                  *)
(***************************************************************************)
EXTENDS Schema

CreateTopicsRequest_CreatableReplicaAssignment == Struct(5, <<
    Field("partition_index", I32), Field("broker_ids", Arr(I32))>>)

CreateTopicsRequest_CreatableTopicConfig == Struct(5, <<
    Field("name", Str), OptionSome("value", Str)>>)

CreateTopicsRequest_CreatableTopic == Struct(5, <<
    Field("name", Str), Field("num_partitions", I32), Field("replication_factor", I16),
    Field("assignments", Arr(CreateTopicsRequest_CreatableReplicaAssignment)),
    Field("configs", Arr(CreateTopicsRequest_CreatableTopicConfig))>>)

CreateTopicsRequest == Struct(5, <<
    Field("topics", Arr(CreateTopicsRequest_CreatableTopic)),
    Default(60000, Field("timeout_ms", I32)), Field("validate_only", Bool)>>)

CreateTopicsResponse_CreatableTopicConfigs == Struct(5, <<
    Since(5, Field("name", Str)), Since(5, NullSince(5, OptionSome("value", Str))),
    Since(5, Field("read_only", Bool)), Since(5, Default(-1, Field("config_source", I8))),
    Since(5, Field("is_sensitive", Bool))>>)

CreateTopicsResponse_CreatableTopicResult == Struct(5, <<
    Field("name", Str), Since(7, Field("topic_id", Uuid)), Field("error_code", I16),
    OptionSome("error_message", Str), Tagged(0, Since(5, Field("topic_config_error_code", I16))),
    Since(5, Default(-1, Field("num_partitions", I32))),
    Since(5, Default(-1, Field("replication_factor", I16))),
    Since(5, NullSince(5, OptionSome("configs", Arr(CreateTopicsResponse_CreatableTopicConfigs))))>>)

CreateTopicsResponse == Struct(5, <<
    Field("throttle_time_ms", I32),
    Field("topics", Arr(CreateTopicsResponse_CreatableTopicResult))>>)

DeleteTopicsRequest_DeleteTopicState == Struct(4, <<
    Since(6, NullSince(6, Option("name", Str))), Since(6, Field("topic_id", Uuid))>>)

DeleteTopicsRequest == Struct(4, <<
    Since(6, Field("topics", Arr(DeleteTopicsRequest_DeleteTopicState))),
    Until(5, Field("topic_names", Arr(Str))), Field("timeout_ms", I32)>>)

DeleteTopicsResponse_DeletableTopicResult == Struct(4, <<
    NullSince(6, OptionSome("name", Str)), Since(6, Field("topic_id", Uuid)),
    Field("error_code", I16), Since(5, NullSince(5, Option("error_message", Str)))>>)

DeleteTopicsResponse == Struct(4, <<
    Field("throttle_time_ms", I32),
    Field("responses", Arr(DeleteTopicsResponse_DeletableTopicResult))>>)

DescribeAclsRequest == Struct(2, <<
    Field("resource_type_filter", I8), OptionSome("resource_name_filter", Str),
    Default(3, Field("pattern_type_filter", I8)), OptionSome("principal_filter", Str),
    OptionSome("host_filter", Str), Field("operation", I8), Field("permission_type", I8)>>)

DescribeAclsResponse_AclDescription == Struct(2, <<
    Field("principal", Str), Field("host", Str), Field("operation", I8),
    Field("permission_type", I8)>>)

DescribeAclsResponse_DescribeAclsResource == Struct(2, <<
    Field("resource_type", I8), Field("resource_name", Str), Default(3, Field("pattern_type", I8)),
    Field("acls", Arr(DescribeAclsResponse_AclDescription))>>)

DescribeAclsResponse == Struct(2, <<
    Field("throttle_time_ms", I32), Field("error_code", I16), OptionSome("error_message", Str),
    Field("resources", Arr(DescribeAclsResponse_DescribeAclsResource))>>)

CreateAclsRequest_AclCreation == Struct(2, <<
    Field("resource_type", I8), Field("resource_name", Str),
    Default(3, Field("resource_pattern_type", I8)), Field("principal", Str), Field("host", Str),
    Field("operation", I8), Field("permission_type", I8)>>)

CreateAclsRequest == Struct(2, <<Field("creations", Arr(CreateAclsRequest_AclCreation))>>)

CreateAclsResponse_AclCreationResult == Struct(2, <<
    Field("error_code", I16), OptionSome("error_message", Str)>>)

CreateAclsResponse == Struct(2, <<
    Field("throttle_time_ms", I32), Field("results", Arr(CreateAclsResponse_AclCreationResult))>>)

DeleteAclsRequest_DeleteAclsFilter == Struct(2, <<
    Field("resource_type_filter", I8), OptionSome("resource_name_filter", Str),
    Default(3, Field("pattern_type_filter", I8)), OptionSome("principal_filter", Str),
    OptionSome("host_filter", Str), Field("operation", I8), Field("permission_type", I8)>>)

DeleteAclsRequest == Struct(2, <<Field("filters", Arr(DeleteAclsRequest_DeleteAclsFilter))>>)

DeleteAclsResponse_DeleteAclsMatchingAcl == Struct(2, <<
    Field("error_code", I16), OptionSome("error_message", Str), Field("resource_type", I8),
    Field("resource_name", Str), Default(3, Field("pattern_type", I8)), Field("principal", Str),
    Field("host", Str), Field("operation", I8), Field("permission_type", I8)>>)

DeleteAclsResponse_DeleteAclsFilterResult == Struct(2, <<
    Field("error_code", I16), OptionSome("error_message", Str),
    Field("matching_acls", Arr(DeleteAclsResponse_DeleteAclsMatchingAcl))>>)

DeleteAclsResponse == Struct(2, <<
    Field("throttle_time_ms", I32),
    Field("filter_results", Arr(DeleteAclsResponse_DeleteAclsFilterResult))>>)

DescribeConfigsRequest_DescribeConfigsResource == Struct(4, <<
    Field("resource_type", I8), Field("resource_name", Str),
    OptionSome("configuration_keys", Arr(Str))>>)

DescribeConfigsRequest == Struct(4, <<
    Field("resources", Arr(DescribeConfigsRequest_DescribeConfigsResource)),
    Field("include_synonyms", Bool), Since(3, Field("include_documentation", Bool))>>)

DescribeConfigsResponse_DescribeConfigsSynonym == Struct(4, <<
    Field("name", Str), OptionSome("value", Str), Field("source", I8)>>)

DescribeConfigsResponse_DescribeConfigsResourceResult == Struct(4, <<
    Field("name", Str), OptionSome("value", Str), Field("read_only", Bool),
    Default(-1, Field("config_source", I8)), Field("is_sensitive", Bool),
    Field("synonyms", Arr(DescribeConfigsResponse_DescribeConfigsSynonym)),
    Since(3, Field("config_type", I8)), Since(3, OptionSome("documentation", Str))>>)

DescribeConfigsResponse_DescribeConfigsResult == Struct(4, <<
    Field("error_code", I16), OptionSome("error_message", Str), Field("resource_type", I8),
    Field("resource_name", Str),
    Field("configs", Arr(DescribeConfigsResponse_DescribeConfigsResourceResult))>>)

DescribeConfigsResponse == Struct(4, <<
    Field("throttle_time_ms", I32),
    Field("results", Arr(DescribeConfigsResponse_DescribeConfigsResult))>>)

AlterConfigsRequest_AlterableConfig == Struct(2, <<Field("name", Str), OptionSome("value", Str)>>)

AlterConfigsRequest_AlterConfigsResource == Struct(2, <<
    Field("resource_type", I8), Field("resource_name", Str),
    Field("configs", Arr(AlterConfigsRequest_AlterableConfig))>>)

AlterConfigsRequest == Struct(2, <<
    Field("resources", Arr(AlterConfigsRequest_AlterConfigsResource)),
    Field("validate_only", Bool)>>)

AlterConfigsResponse_AlterConfigsResourceResponse == Struct(2, <<
    Field("error_code", I16), OptionSome("error_message", Str), Field("resource_type", I8),
    Field("resource_name", Str)>>)

AlterConfigsResponse == Struct(2, <<
    Field("throttle_time_ms", I32),
    Field("responses", Arr(AlterConfigsResponse_AlterConfigsResourceResponse))>>)

AlterReplicaLogDirsRequest_AlterReplicaLogDirTopic == Struct(2, <<
    Field("name", Str), Field("partitions", Arr(I32))>>)

AlterReplicaLogDirsRequest_AlterReplicaLogDir == Struct(2, <<
    Field("path", Str), Field("topics", Arr(AlterReplicaLogDirsRequest_AlterReplicaLogDirTopic))>>)

AlterReplicaLogDirsRequest == Struct(2, <<
    Field("dirs", Arr(AlterReplicaLogDirsRequest_AlterReplicaLogDir))>>)

AlterReplicaLogDirsResponse_AlterReplicaLogDirPartitionResult == Struct(2, <<
    Field("partition_index", I32), Field("error_code", I16)>>)

AlterReplicaLogDirsResponse_AlterReplicaLogDirTopicResult == Struct(2, <<
    Field("topic_name", Str),
    Field("partitions", Arr(AlterReplicaLogDirsResponse_AlterReplicaLogDirPartitionResult))>>)

AlterReplicaLogDirsResponse == Struct(2, <<
    Field("throttle_time_ms", I32),
    Field("results", Arr(AlterReplicaLogDirsResponse_AlterReplicaLogDirTopicResult))>>)

DescribeLogDirsRequest_DescribableLogDirTopic == Struct(2, <<
    Field("topic", Str), Field("partitions", Arr(I32))>>)

DescribeLogDirsRequest == Struct(2, <<
    OptionSome("topics", Arr(DescribeLogDirsRequest_DescribableLogDirTopic))>>)

DescribeLogDirsResponse_DescribeLogDirsPartition == Struct(2, <<
    Field("partition_index", I32), Field("partition_size", I64), Field("offset_lag", I64),
    Field("is_future_key", Bool)>>)

DescribeLogDirsResponse_DescribeLogDirsTopic == Struct(2, <<
    Field("name", Str),
    Field("partitions", Arr(DescribeLogDirsResponse_DescribeLogDirsPartition))>>)

DescribeLogDirsResponse_DescribeLogDirsResult == Struct(2, <<
    Field("error_code", I16), Field("log_dir", Str),
    Field("topics", Arr(DescribeLogDirsResponse_DescribeLogDirsTopic)),
    Since(4, Default(-1, Field("total_bytes", I64))),
    Since(4, Default(-1, Field("usable_bytes", I64))), Since(5, Field("is_cordoned", Bool))>>)

DescribeLogDirsResponse == Struct(2, <<
    Field("throttle_time_ms", I32), Since(3, Field("error_code", I16)),
    Field("results", Arr(DescribeLogDirsResponse_DescribeLogDirsResult))>>)

CreatePartitionsRequest_CreatePartitionsAssignment == Struct(2, <<Field("broker_ids", Arr(I32))>>)

CreatePartitionsRequest_CreatePartitionsTopic == Struct(2, <<
    Field("name", Str), Field("count", I32),
    OptionSome("assignments", Arr(CreatePartitionsRequest_CreatePartitionsAssignment))>>)

CreatePartitionsRequest == Struct(2, <<
    Field("topics", Arr(CreatePartitionsRequest_CreatePartitionsTopic)), Field("timeout_ms", I32),
    Field("validate_only", Bool)>>)

CreatePartitionsResponse_CreatePartitionsTopicResult == Struct(2, <<
    Field("name", Str), Field("error_code", I16), Option("error_message", Str)>>)

CreatePartitionsResponse == Struct(2, <<
    Field("throttle_time_ms", I32),
    Field("results", Arr(CreatePartitionsResponse_CreatePartitionsTopicResult))>>)

CreateDelegationTokenRequest_CreatableRenewers == Struct(2, <<
    Field("principal_type", Str), Field("principal_name", Str)>>)

CreateDelegationTokenRequest == Struct(2, <<
    Since(3, NullSince(3, OptionSome("owner_principal_type", Str))),
    Since(3, NullSince(3, OptionSome("owner_principal_name", Str))),
    Field("renewers", Arr(CreateDelegationTokenRequest_CreatableRenewers)),
    Field("max_lifetime_ms", I64)>>)

CreateDelegationTokenResponse == Struct(2, <<
    Field("error_code", I16), Field("principal_type", Str), Field("principal_name", Str),
    Since(3, Field("token_requester_principal_type", Str)),
    Since(3, Field("token_requester_principal_name", Str)), Field("issue_timestamp_ms", I64),
    Field("expiry_timestamp_ms", I64), Field("max_timestamp_ms", I64), Field("token_id", Str),
    Field("hmac", Bytes), Field("throttle_time_ms", I32)>>)

RenewDelegationTokenRequest == Struct(2, <<Field("hmac", Bytes), Field("renew_period_ms", I64)>>)

RenewDelegationTokenResponse == Struct(2, <<
    Field("error_code", I16), Field("expiry_timestamp_ms", I64), Field("throttle_time_ms", I32)>>)

ExpireDelegationTokenRequest == Struct(2, <<
    Field("hmac", Bytes), Field("expiry_time_period_ms", I64)>>)

ExpireDelegationTokenResponse == Struct(2, <<
    Field("error_code", I16), Field("expiry_timestamp_ms", I64), Field("throttle_time_ms", I32)>>)

DescribeDelegationTokenRequest_DescribeDelegationTokenOwner == Struct(2, <<
    Field("principal_type", Str), Field("principal_name", Str)>>)

DescribeDelegationTokenRequest == Struct(2, <<
    OptionSome("owners", Arr(DescribeDelegationTokenRequest_DescribeDelegationTokenOwner))>>)

DescribeDelegationTokenResponse_DescribedDelegationTokenRenewer == Struct(2, <<
    Field("principal_type", Str), Field("principal_name", Str)>>)

DescribeDelegationTokenResponse_DescribedDelegationToken == Struct(2, <<
    Field("principal_type", Str), Field("principal_name", Str),
    Since(3, Field("token_requester_principal_type", Str)),
    Since(3, Field("token_requester_principal_name", Str)), Field("issue_timestamp", I64),
    Field("expiry_timestamp", I64), Field("max_timestamp", I64), Field("token_id", Str),
    Field("hmac", Bytes),
    Field("renewers", Arr(DescribeDelegationTokenResponse_DescribedDelegationTokenRenewer))>>)

DescribeDelegationTokenResponse == Struct(2, <<
    Field("error_code", I16),
    Field("tokens", Arr(DescribeDelegationTokenResponse_DescribedDelegationToken)),
    Field("throttle_time_ms", I32)>>)

ElectLeadersRequest_TopicPartitions == Struct(2, <<
    Field("topic", Str), Field("partitions", Arr(I32))>>)

ElectLeadersRequest == Struct(2, <<
    Since(1, Field("election_type", I8)),
    OptionSome("topic_partitions", Arr(ElectLeadersRequest_TopicPartitions)),
    Default(60000, Field("timeout_ms", I32))>>)

ElectLeadersResponse_PartitionResult == Struct(2, <<
    Field("partition_id", I32), Field("error_code", I16), OptionSome("error_message", Str)>>)

ElectLeadersResponse_ReplicaElectionResult == Struct(2, <<
    Field("topic", Str), Field("partition_result", Arr(ElectLeadersResponse_PartitionResult))>>)

ElectLeadersResponse == Struct(2, <<
    Field("throttle_time_ms", I32), Since(1, Field("error_code", I16)),
    Field("replica_election_results", Arr(ElectLeadersResponse_ReplicaElectionResult))>>)

IncrementalAlterConfigsRequest_AlterableConfig == Struct(1, <<
    Field("name", Str), Field("config_operation", I8), OptionSome("value", Str)>>)

IncrementalAlterConfigsRequest_AlterConfigsResource == Struct(1, <<
    Field("resource_type", I8), Field("resource_name", Str),
    Field("configs", Arr(IncrementalAlterConfigsRequest_AlterableConfig))>>)

IncrementalAlterConfigsRequest == Struct(1, <<
    Field("resources", Arr(IncrementalAlterConfigsRequest_AlterConfigsResource)),
    Field("validate_only", Bool)>>)

IncrementalAlterConfigsResponse_AlterConfigsResourceResponse == Struct(1, <<
    Field("error_code", I16), OptionSome("error_message", Str), Field("resource_type", I8),
    Field("resource_name", Str)>>)

IncrementalAlterConfigsResponse == Struct(1, <<
    Field("throttle_time_ms", I32),
    Field("responses", Arr(IncrementalAlterConfigsResponse_AlterConfigsResourceResponse))>>)

AlterPartitionReassignmentsRequest_ReassignablePartition == Struct(0, <<
    Field("partition_index", I32), Option("replicas", Arr(I32))>>)

AlterPartitionReassignmentsRequest_ReassignableTopic == Struct(0, <<
    Field("name", Str),
    Field("partitions", Arr(AlterPartitionReassignmentsRequest_ReassignablePartition))>>)

AlterPartitionReassignmentsRequest == Struct(0, <<
    Default(60000, Field("timeout_ms", I32)),
    Since(1, Default(1, Field("allow_replication_factor_change", Bool))),
    Field("topics", Arr(AlterPartitionReassignmentsRequest_ReassignableTopic))>>)

AlterPartitionReassignmentsResponse_ReassignablePartitionResponse == Struct(0, <<
    Field("partition_index", I32), Field("error_code", I16), OptionSome("error_message", Str)>>)

AlterPartitionReassignmentsResponse_ReassignableTopicResponse == Struct(0, <<
    Field("name", Str),
    Field("partitions", Arr(AlterPartitionReassignmentsResponse_ReassignablePartitionResponse))>>)

AlterPartitionReassignmentsResponse == Struct(0, <<
    Field("throttle_time_ms", I32),
    Since(1, Default(1, Field("allow_replication_factor_change", Bool))), Field("error_code", I16),
    OptionSome("error_message", Str),
    Field("responses", Arr(AlterPartitionReassignmentsResponse_ReassignableTopicResponse))>>)

ListPartitionReassignmentsRequest_ListPartitionReassignmentsTopics == Struct(0, <<
    Field("name", Str), Field("partition_indexes", Arr(I32))>>)

ListPartitionReassignmentsRequest == Struct(0, <<
    Default(60000, Field("timeout_ms", I32)),
    Option("topics", Arr(ListPartitionReassignmentsRequest_ListPartitionReassignmentsTopics))>>)

ListPartitionReassignmentsResponse_OngoingPartitionReassignment == Struct(0, <<
    Field("partition_index", I32), Field("replicas", Arr(I32)), Field("adding_replicas", Arr(I32)),
    Field("removing_replicas", Arr(I32))>>)

ListPartitionReassignmentsResponse_OngoingTopicReassignment == Struct(0, <<
    Field("name", Str),
    Field("partitions", Arr(ListPartitionReassignmentsResponse_OngoingPartitionReassignment))>>)

ListPartitionReassignmentsResponse == Struct(0, <<
    Field("throttle_time_ms", I32), Field("error_code", I16), OptionSome("error_message", Str),
    Field("topics", Arr(ListPartitionReassignmentsResponse_OngoingTopicReassignment))>>)

DescribeClientQuotasRequest_ComponentData == Struct(1, <<
    Field("entity_type", Str), Field("match_type", I8), OptionSome("match_", Str)>>)

DescribeClientQuotasRequest == Struct(1, <<
    Field("components", Arr(DescribeClientQuotasRequest_ComponentData)), Field("strict", Bool)>>)

DescribeClientQuotasResponse_EntityData == Struct(1, <<
    Field("entity_type", Str), OptionSome("entity_name", Str)>>)

DescribeClientQuotasResponse_ValueData == Struct(1, <<Field("key", Str), Field("value", F64)>>)

DescribeClientQuotasResponse_EntryData == Struct(1, <<
    Field("entity", Arr(DescribeClientQuotasResponse_EntityData)),
    Field("values", Arr(DescribeClientQuotasResponse_ValueData))>>)

DescribeClientQuotasResponse == Struct(1, <<
    Field("throttle_time_ms", I32), Field("error_code", I16), OptionSome("error_message", Str),
    OptionSome("entries", Arr(DescribeClientQuotasResponse_EntryData))>>)

AlterClientQuotasRequest_EntityData == Struct(1, <<
    Field("entity_type", Str), OptionSome("entity_name", Str)>>)

AlterClientQuotasRequest_OpData == Struct(1, <<
    Field("key", Str), Field("value", F64), Field("remove", Bool)>>)

AlterClientQuotasRequest_EntryData == Struct(1, <<
    Field("entity", Arr(AlterClientQuotasRequest_EntityData)),
    Field("ops", Arr(AlterClientQuotasRequest_OpData))>>)

AlterClientQuotasRequest == Struct(1, <<
    Field("entries", Arr(AlterClientQuotasRequest_EntryData)), Field("validate_only", Bool)>>)

AlterClientQuotasResponse_EntityData == Struct(1, <<
    Field("entity_type", Str), OptionSome("entity_name", Str)>>)

AlterClientQuotasResponse_EntryData == Struct(1, <<
    Field("error_code", I16), OptionSome("error_message", Str),
    Field("entity", Arr(AlterClientQuotasResponse_EntityData))>>)

AlterClientQuotasResponse == Struct(1, <<
    Field("throttle_time_ms", I32), Field("entries", Arr(AlterClientQuotasResponse_EntryData))>>)

DescribeUserScramCredentialsRequest_UserName == Struct(0, <<Field("name", Str)>>)

DescribeUserScramCredentialsRequest == Struct(0, <<
    OptionSome("users", Arr(DescribeUserScramCredentialsRequest_UserName))>>)

DescribeUserScramCredentialsResponse_CredentialInfo == Struct(0, <<
    Field("mechanism", I8), Field("iterations", I32)>>)

DescribeUserScramCredentialsResponse_DescribeUserScramCredentialsResult == Struct(0, <<
    Field("user", Str), Field("error_code", I16), OptionSome("error_message", Str),
    Field("credential_infos", Arr(DescribeUserScramCredentialsResponse_CredentialInfo))>>)

DescribeUserScramCredentialsResponse == Struct(0, <<
    Field("throttle_time_ms", I32), Field("error_code", I16), OptionSome("error_message", Str),
    Field("results", Arr(DescribeUserScramCredentialsResponse_DescribeUserScramCredentialsResult))>>)

AlterUserScramCredentialsRequest_ScramCredentialDeletion == Struct(0, <<
    Field("name", Str), Field("mechanism", I8)>>)

AlterUserScramCredentialsRequest_ScramCredentialUpsertion == Struct(0, <<
    Field("name", Str), Field("mechanism", I8), Field("iterations", I32), Field("salt", Bytes),
    Field("salted_password", Bytes)>>)

AlterUserScramCredentialsRequest == Struct(0, <<
    Field("deletions", Arr(AlterUserScramCredentialsRequest_ScramCredentialDeletion)),
    Field("upsertions", Arr(AlterUserScramCredentialsRequest_ScramCredentialUpsertion))>>)

AlterUserScramCredentialsResponse_AlterUserScramCredentialsResult == Struct(0, <<
    Field("user", Str), Field("error_code", I16), OptionSome("error_message", Str)>>)

AlterUserScramCredentialsResponse == Struct(0, <<
    Field("throttle_time_ms", I32),
    Field("results", Arr(AlterUserScramCredentialsResponse_AlterUserScramCredentialsResult))>>)

DescribeQuorumRequest_PartitionData == Struct(0, <<Field("partition_index", I32)>>)

DescribeQuorumRequest_TopicData == Struct(0, <<
    Field("topic_name", Str), Field("partitions", Arr(DescribeQuorumRequest_PartitionData))>>)

DescribeQuorumRequest == Struct(0, <<Field("topics", Arr(DescribeQuorumRequest_TopicData))>>)

DescribeQuorumResponse_ReplicaState == Struct(0, <<
    Field("replica_id", I32), Since(2, Field("replica_directory_id", Uuid)),
    Field("log_end_offset", I64), Since(1, Default(-1, Field("last_fetch_timestamp", I64))),
    Since(1, Default(-1, Field("last_caught_up_timestamp", I64)))>>)

DescribeQuorumResponse_PartitionData == Struct(0, <<
    Field("partition_index", I32), Field("error_code", I16),
    Since(2, NullSince(2, OptionSome("error_message", Str))), Field("leader_id", I32),
    Field("leader_epoch", I32), Field("high_watermark", I64),
    Field("current_voters", Arr(DescribeQuorumResponse_ReplicaState)),
    Field("observers", Arr(DescribeQuorumResponse_ReplicaState))>>)

DescribeQuorumResponse_TopicData == Struct(0, <<
    Field("topic_name", Str), Field("partitions", Arr(DescribeQuorumResponse_PartitionData))>>)

DescribeQuorumResponse_Listener == Struct(0, <<
    Since(2, Field("name", Str)), Since(2, Field("host", Str)), Since(2, Field("port", U16))>>)

DescribeQuorumResponse_Node == Struct(0, <<
    Since(2, Field("node_id", I32)),
    Since(2, Field("listeners", Arr(DescribeQuorumResponse_Listener)))>>)

DescribeQuorumResponse == Struct(0, <<
    Field("error_code", I16), Since(2, NullSince(2, OptionSome("error_message", Str))),
    Field("topics", Arr(DescribeQuorumResponse_TopicData)),
    Since(2, Field("nodes", Arr(DescribeQuorumResponse_Node)))>>)

UpdateFeaturesRequest_FeatureUpdateKey == Struct(0, <<
    Field("feature", Str), Field("max_version_level", I16),
    Until(0, Field("allow_downgrade", Bool)), Since(1, Default(1, Field("upgrade_type", I8)))>>)

UpdateFeaturesRequest == Struct(0, <<
    Default(60000, Field("timeout_ms", I32)),
    Field("feature_updates", Arr(UpdateFeaturesRequest_FeatureUpdateKey)),
    Since(1, Field("validate_only", Bool))>>)

UpdateFeaturesResponse_UpdatableFeatureResult == Struct(0, <<
    Field("feature", Str), Field("error_code", I16), OptionSome("error_message", Str)>>)

UpdateFeaturesResponse == Struct(0, <<
    Field("throttle_time_ms", I32), Field("error_code", I16), OptionSome("error_message", Str),
    Until(1, Field("results", Arr(UpdateFeaturesResponse_UpdatableFeatureResult)))>>)

UnregisterBrokerRequest == Struct(0, <<Field("broker_id", I32)>>)

UnregisterBrokerResponse == Struct(0, <<
    Field("throttle_time_ms", I32), Field("error_code", I16), OptionSome("error_message", Str)>>)

ListConfigResourcesRequest == Struct(0, <<Since(1, Field("resource_types", Arr(I8)))>>)

ListConfigResourcesResponse_ConfigResource == Struct(0, <<
    Field("resource_name", Str), Since(1, Default(16, Field("resource_type", I8)))>>)

ListConfigResourcesResponse == Struct(0, <<
    Field("throttle_time_ms", I32), Field("error_code", I16),
    Field("config_resources", Arr(ListConfigResourcesResponse_ConfigResource))>>)

AddRaftVoterRequest_Listener == Struct(0, <<
    Field("name", Str), Field("host", Str), Field("port", U16)>>)

AddRaftVoterRequest == Struct(0, <<
    OptionSome("cluster_id", Str), Field("timeout_ms", I32), Field("voter_id", I32),
    Field("voter_directory_id", Uuid), Field("listeners", Arr(AddRaftVoterRequest_Listener)),
    Since(1, Default(1, Field("ack_when_committed", Bool)))>>)

AddRaftVoterResponse == Struct(0, <<
    Field("throttle_time_ms", I32), Field("error_code", I16), OptionSome("error_message", Str)>>)

RemoveRaftVoterRequest == Struct(0, <<
    OptionSome("cluster_id", Str), Field("voter_id", I32), Field("voter_directory_id", Uuid)>>)

RemoveRaftVoterResponse == Struct(0, <<
    Field("throttle_time_ms", I32), Field("error_code", I16), OptionSome("error_message", Str)>>)

=============================================================================
